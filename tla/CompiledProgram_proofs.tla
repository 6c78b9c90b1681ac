----------------------- MODULE CompiledProgram_proofs -----------------------
EXTENDS CompiledProgram, NaturalsBySets, SequenceTheorems

\* LoopAnalyzer is a walk over a tree with a stack of loop numbers; what it has
\* to get right, JumpsBindInnermostLoop, is about places in the tree.  The two
\* are related by the depth of each item that is still to do: the height the
\* stack will have when the item is reached (Depths).  An item at depth d is in
\* the loop that has the number at d in the stack, and in no loop if d is 0.
\* Labels are not disturbed once given, because nothing in a tree that is still
\* to be visited has one and these trees are disjoint (Fresh), and numbers are
\* not given twice, because all are below the counter (NumbersUsed).
\*
\* Trees have any size: Nodes is a set of nodes that contains the parts of each
\* of its nodes, and the programs are sequences of such nodes.
\*
\* TACVisitor is a walk over the same tree, and a label or a jump may be in the
\* code or still to be emitted.  What JumpsResolve says of the code is therefore
\* said of both (MarkAt, JumpAt), of the function that is being translated and
\* of those before it.

-----------------------------------------------------------------------------
\* Places.

\* The nodes from the root to a place.
Path(place, nodes) ==
  /\ Len(place) \in Nat \ {0} /\ place \in Seq(Nat) /\ DOMAIN nodes = 1 .. Len(place)
  /\ nodes = [k \in 1 .. Len(place) |-> nodes[k]]
  /\ place[1] \in DOMAIN unit /\ nodes[1] = unit[place[1]]
  /\ \A k \in 2 .. Len(place) :
       place[k] \in DOMAIN nodes[k - 1].parts /\ nodes[k] = nodes[k - 1].parts[place[k]]

IsPlace(place) == \E nodes : Path(place, nodes)

\* The node at a place is the last of the path to it.
LEMMA PathNode ==
  ASSUME NEW place, NEW nodes, Path(place, nodes)
  PROVE  NodeAt(place) = nodes[Len(place)]
<1> DEFINE f(g) == [k \in DOMAIN place |->
                      IF k = 1 THEN unit[place[1]] ELSE g[k - 1].parts[place[k]]]
           node == CHOOSE g : g = f(g)
<1>1. DOMAIN place = 1 .. Len(place) /\ Len(place) \in Nat \ {0}
  BY DEF Path
<1>2. nodes = f(nodes)
  <2>1. \A k \in 1 .. Len(place) :
          nodes[k] = IF k = 1 THEN unit[place[1]] ELSE nodes[k - 1].parts[place[k]]
    <3>1. nodes[1] = unit[place[1]]
      BY DEF Path
    <3>2. \A k \in 2 .. Len(place) : nodes[k] = nodes[k - 1].parts[place[k]]
      BY DEF Path
    <3>3. \A k \in 1 .. Len(place) : k = 1 \/ k \in 2 .. Len(place)
      BY <1>1
    <3> QED BY <3>1, <3>2, <3>3, Zenon
  <2>2. nodes = [k \in 1 .. Len(place) |-> nodes[k]]
    BY DEF Path
  <2>3. [k \in 1 .. Len(place) |-> nodes[k]]
          = [k \in 1 .. Len(place) |->
               IF k = 1 THEN unit[place[1]] ELSE nodes[k - 1].parts[place[k]]]
    BY <2>1, Zenon
  <2> QED BY <1>1, <2>2, <2>3, Zenon
<1>3. node = f(node)
  BY <1>2
<1> DEFINE S == {k \in Nat : k + 1 \in 1 .. Len(place) => node[k + 1] = nodes[k + 1]}
<1> HIDE DEF node
<1>4. 0 \in S
  BY <1>1, <1>3 DEF Path
<1>5. ASSUME NEW k \in Nat, k \in S PROVE k + 1 \in S
  <2> SUFFICES ASSUME k + 2 \in 1 .. Len(place) PROVE node[k + 2] = nodes[k + 2]
    BY <1>1
  <2>1. node[k + 1] = nodes[k + 1]
    BY <1>1, <1>5
  <2>2. node[k + 2] = node[k + 1].parts[place[k + 2]]
    BY <1>1, <1>3
  <2>3. nodes[k + 2] = nodes[k + 1].parts[place[k + 2]]
    <3>1. \A j \in 2 .. Len(place) : nodes[j] = nodes[j - 1].parts[place[j]]
      BY DEF Path
    <3>2. k + 2 \in 2 .. Len(place) /\ (k + 2) - 1 = k + 1
      BY <1>1
    <3> QED BY <3>1, <3>2, Zenon
  <2> QED BY <2>1, <2>2, <2>3
<1> HIDE DEF S
<1>6. \A k \in Nat : k \in S
  BY <1>4, <1>5, SetInduction
<1>7. Len(place) - 1 \in S
  BY <1>1, <1>6
<1>8. node[Len(place)] = nodes[Len(place)]
  BY <1>1, <1>7 DEF S
<1> QED BY <1>8 DEF NodeAt, node

Above(p, k) == SubSeq(p, 1, k)

\* Prefixes of a place.
LEMMA PrefixesOfPlace ==
  ASSUME NEW p \in Seq(Nat), NEW k \in 1 .. Len(p)
  PROVE  /\ Above(p, k) \in Seq(Nat) /\ Len(Above(p, k)) = k
         /\ \A j \in 1 .. k : Above(p, k)[j] = p[j]
         /\ \A i \in Nat : Above(Append(p, i), k) = Above(p, k)
         /\ Above(p, Len(p)) = p
  BY DEF Above

\* The places below a place are those of its parts.
LEMMA ChildPlace ==
  ASSUME NEW p, IsPlace(p), NEW i \in Nat
  PROVE  /\ p \in Seq(Nat) /\ Len(p) \in Nat \ {0}
         /\ Append(p, i) \in Seq(Nat) /\ Len(Append(p, i)) = Len(p) + 1
         /\ i \in DOMAIN NodeAt(p).parts =>
              /\ IsPlace(Append(p, i))
              /\ NodeAt(Append(p, i)) = NodeAt(p).parts[i]
         /\ LoopsAround(Append(p, i))
              = LoopsAround(p) \cup (IF IsLoop(NodeAt(p)) THEN {p} ELSE {})
<1>1. PICK nodes : Path(p, nodes)
  BY DEF IsPlace
<1>2. p \in Seq(Nat) /\ Len(p) \in Nat \ {0}
  BY <1>1 DEF Path
<1> DEFINE q == Append(p, i)
           n == Len(p)
<1>3. /\ q \in Seq(Nat) /\ Len(q) = n + 1 /\ q[n + 1] = i
      /\ \A k \in 1 .. n : q[k] = p[k]
  BY <1>2
<1>4. ASSUME i \in DOMAIN NodeAt(p).parts
      PROVE  IsPlace(q) /\ NodeAt(q) = NodeAt(p).parts[i]
  <2> DEFINE more == [k \in 1 .. n + 1 |-> IF k = n + 1 THEN nodes[n].parts[i] ELSE nodes[k]]
  <2>1. NodeAt(p) = nodes[n]
    BY <1>1, PathNode
  <2>2. DOMAIN more = 1 .. n + 1 /\ more[n + 1] = nodes[n].parts[i]
    BY <1>2
  <2>3. \A k \in 1 .. n : more[k] = nodes[k]
    BY <1>2
  <2>7. more = [k \in 1 .. n + 1 |-> more[k]]
    OBVIOUS
  <2> HIDE DEF more
  <2>4. q[1] \in DOMAIN unit /\ more[1] = unit[q[1]]
    BY <1>1, <1>2, <1>3, <2>3 DEF Path
  <2>5. ASSUME NEW k \in 2 .. n + 1
        PROVE  q[k] \in DOMAIN more[k - 1].parts /\ more[k] = more[k - 1].parts[q[k]]
    <3>1. CASE k = n + 1
      BY <1>2, <1>3, <1>4, <2>1, <2>2, <2>3, <3>1
    <3>2. CASE k # n + 1
      <4>1. k \in 2 .. n /\ k \in 1 .. n /\ k - 1 \in 1 .. n
        BY <1>2, <3>2
      <4>2. p[k] \in DOMAIN nodes[k - 1].parts /\ nodes[k] = nodes[k - 1].parts[p[k]]
        BY <1>1, <4>1 DEF Path
      <4> QED BY <1>3, <2>3, <4>1, <4>2
    <3> QED BY <3>1, <3>2
  <2>6. Path(q, more)
    <3>1. Len(q) \in Nat \ {0} /\ q \in Seq(Nat) /\ Len(q) = n + 1
      BY <1>2, <1>3
    <3>2. \A k \in 2 .. Len(q) :
            q[k] \in DOMAIN more[k - 1].parts /\ more[k] = more[k - 1].parts[q[k]]
      BY <2>5, <3>1
    <3>3. DOMAIN more = 1 .. Len(q) /\ more = [k \in 1 .. Len(q) |-> more[k]]
      BY <2>2, <2>7, <3>1, Zenon
    <3> QED BY <2>4, <3>1, <3>2, <3>3, Zenon DEF Path
  <2> QED BY <1>3, <2>1, <2>2, <2>6, PathNode DEF IsPlace
<1>5. LoopsAround(q) = LoopsAround(p) \cup (IF IsLoop(NodeAt(p)) THEN {p} ELSE {})
  <2> DEFINE Loops(r, m) == {k \in 1 .. m : IsLoop(NodeAt(Above(r, k)))}
  <2>1. \A k \in 1 .. n : Above(q, k) = Above(p, k)
    BY <1>2, PrefixesOfPlace
  <2>2. Above(p, n) = p
    BY <1>2, PrefixesOfPlace
  <2>3. LoopsAround(p) = {Above(p, k) : k \in Loops(p, n - 1)}
    BY DEF LoopsAround, Above
  <2>4. LoopsAround(q) = {Above(q, k) : k \in Loops(q, n)}
    BY <1>2, <1>3 DEF LoopsAround, Above
  <2>5. Loops(q, n) = Loops(p, n)
    BY <2>1
  <2>6. Loops(p, n) = Loops(p, n - 1) \cup (IF IsLoop(NodeAt(p)) THEN {n} ELSE {})
    BY <1>2, <2>2
  <2>7. LoopsAround(q) = {Above(p, k) : k \in Loops(p, n)}
    BY <2>1, <2>4, <2>5
  <2> HIDE DEF Loops
  <2> QED BY <2>2, <2>3, <2>6, <2>7
<1> QED BY <1>2, <1>3, <1>4, <1>5

\* The loop whose body is visited is the innermost around what is in it.
LEMMA InnermostLoop ==
  ASSUME NEW p \in Seq(Nat), Len(p) \in Nat
  PROVE  Innermost(LoopsAround(p) \cup {p}) = p
<1>1. \A q \in LoopsAround(p) : Len(q) \in Nat /\ Len(q) < Len(p)
  <2> SUFFICES ASSUME NEW k \in 1 .. Len(p) - 1 PROVE Len(Above(p, k)) = k
    BY DEF LoopsAround, Above
  <2> QED BY PrefixesOfPlace
<1>2. \A q \in LoopsAround(p) \cup {p} : Len(q) <= Len(p)
  BY <1>1
<1>3. ASSUME NEW q \in LoopsAround(p) \cup {p}, \A r \in LoopsAround(p) \cup {p} : Len(r) <= Len(q)
      PROVE  q = p
  BY <1>1, <1>3
<1> QED BY <1>2, <1>3 DEF Innermost

\* A function definition is in no loop.
LEMMA FunctionPlace ==
  ASSUME NEW i \in DOMAIN unit, i \in Nat
  PROVE  /\ IsPlace(<<i>>) /\ NodeAt(<<i>>) = unit[i] /\ LoopsAround(<<i>>) = {}
         /\ <<i>> \in Seq(Nat)
<1>1. Path(<<i>>, <<unit[i]>>)
  BY DEF Path
<1>2. NodeAt(<<i>>) = unit[i]
  BY <1>1, PathNode
<1>3. LoopsAround(<<i>>) = {}
  BY DEF LoopsAround
<1> QED BY <1>1, <1>2, <1>3 DEF IsPlace

-----------------------------------------------------------------------------
\* The invariant of the analysis.

\* The nodes are trees: their parts are again nodes.
AreTrees(Nodes) ==
  /\ \A node \in Nodes : node.parts \in Seq(Nodes)
  /\ Programs \subseteq Seq(Nodes)

Entries(Nodes) ==
  {Do("leave loop")} \cup [do : {"visit"}, node : Nodes, place : Seq(Nat)]

Visits(item) == item.do = "visit"

\* What is to be visited is the node at its place.
Located == \A i \in DOMAIN todo : Visits(todo[i]) =>
             IsPlace(todo[i].place) /\ todo[i].node = NodeAt(todo[i].place)

\* A place that is visited when depth loops have been entered is in none if
\* depth is 0, and otherwise the number at that depth is that of its loop.
InLoops(loops, depth, table, ids) ==
  IF loops = {} THEN depth = 0
  ELSE depth # 0 /\ Innermost(loops) \in DOMAIN table /\ table[Innermost(loops)] = ids[depth]
InLoop(place, depth) == InLoops(LoopsAround(place), depth, labels, loop_ids)
WillBeInLoop(place, depth) == InLoops(LoopsAround(place), depth, labels', loop_ids')

\* How many loops will have been entered and not left when an item is reached.
Depths(depth) ==
  /\ depth \in [DOMAIN todo -> Nat]
  /\ todo # <<>> => depth[1] = Len(loop_ids)
  /\ \A i, j \in DOMAIN todo : i < j => depth[j] <= depth[i]
  /\ \A i \in DOMAIN todo : i + 1 \in DOMAIN todo =>
       depth[i + 1] = IF Visits(todo[i]) THEN depth[i] ELSE depth[i] - 1
  /\ \A i \in DOMAIN todo :
       IF Visits(todo[i]) THEN InLoop(todo[i].place, depth[i]) ELSE depth[i] # 0

Extends(q, p) == Len(p) <= Len(q) /\ \A k \in 1 .. Len(p) : q[k] = p[k]

\* Nothing in a tree that is still to be visited has been labelled, and the
\* trees to be visited are disjoint.
Fresh ==
  /\ \A i \in DOMAIN todo : Visits(todo[i]) =>
       \A p \in DOMAIN labels : ~Extends(p, todo[i].place)
  /\ \A i, j \in DOMAIN todo : i # j /\ Visits(todo[i]) /\ Visits(todo[j]) =>
       ~Extends(todo[i].place, todo[j].place)

JumpsBound ==
  \A p \in DOMAIN labels : IsJump(NodeAt(p)) =>
    /\ LoopsAround(p) # {}
    /\ Innermost(LoopsAround(p)) \in DOMAIN labels
    /\ labels[p] = labels[Innermost(LoopsAround(p))]
LoopsNumbered ==
  \A p, q \in DOMAIN labels :
    IsLoop(NodeAt(p)) /\ IsLoop(NodeAt(q)) /\ p # q => labels[p] # labels[q]
NumbersUsed ==
  /\ loop_id_counter \in Nat
  /\ \A p \in DOMAIN labels : labels[p] \in Nat /\ labels[p] < loop_id_counter
  /\ DOMAIN labels \subseteq Seq(Nat)
ErrorsRight == \A p \in errors : LoopsAround(p) = {}

Labelled == JumpsBound /\ LoopsNumbered /\ NumbersUsed /\ ErrorsRight

Walking(Nodes) ==
  /\ unit \in Seq(Nodes)
  /\ todo \in Seq(Entries(Nodes))
  /\ loop_ids \in Seq(Nat)
  /\ Located
  /\ \E depth : Depths(depth)
  /\ Fresh

IInv(Nodes) ==
  /\ phase = "analyze" => Walking(Nodes) /\ Labelled
  /\ phase = "rejected" => Labelled

\* The property follows from what is said of labels.
LEMMA IInvJumps ==
  ASSUME NEW Nodes
  PROVE  IInv(Nodes) => JumpsBindInnermostLoop
BY DEF IInv, Labelled, JumpsBound, LoopsNumbered, ErrorsRight, JumpsBindInnermostLoop

\* The same tree has the same places.
LEMMA SamePlaces ==
  ASSUME unit' = unit
  PROVE  \A p : /\ NodeAt(p)' = NodeAt(p) /\ IsPlace(p)' = IsPlace(p)
                /\ LoopsAround(p)' = LoopsAround(p)
                /\ Innermost(LoopsAround(p))' = Innermost(LoopsAround(p))
<1> SUFFICES ASSUME NEW p
             PROVE  /\ NodeAt(p)' = NodeAt(p) /\ IsPlace(p)' = IsPlace(p)
                    /\ LoopsAround(p)' = LoopsAround(p)
                    /\ Innermost(LoopsAround(p))' = Innermost(LoopsAround(p))
  OBVIOUS
<1>1. NodeAt(p)' = NodeAt(p) /\ IsPlace(p)' = IsPlace(p)
  BY DEF NodeAt, IsPlace, Path
<1>2. LoopsAround(p)' = LoopsAround(p)
  BY DEF NodeAt, LoopsAround
<1>3. Innermost(LoopsAround(p))' = Innermost(LoopsAround(p))
  BY DEF NodeAt, LoopsAround, Innermost
<1> QED BY <1>1, <1>2, <1>3

-----------------------------------------------------------------------------
\* What replacing the head of todo does.

\* What a step puts in front of the rest of todo.
LEMMA Replaced ==
  ASSUME NEW E, todo \in Seq(E), todo # <<>>, NEW items \in Seq(E), Replace(items)
  PROVE  /\ todo' \in Seq(E) /\ Len(items) \in Nat /\ Len(todo) \in Nat \ {0}
         /\ DOMAIN todo = 1 .. Len(todo) /\ todo[1] = Head(todo)
         /\ DOMAIN todo' = 1 .. Len(items) + Len(todo) - 1
         /\ \A i \in 1 .. Len(items) : todo'[i] = items[i]
         /\ \A i \in DOMAIN todo' : i > Len(items) =>
              /\ i - Len(items) + 1 \in 2 .. Len(todo)
              /\ todo'[i] = todo[i - Len(items) + 1]
<1>1. /\ Len(todo) \in Nat \ {0} /\ Len(items) \in Nat /\ DOMAIN todo = 1 .. Len(todo)
      /\ todo[1] = Head(todo)
  OBVIOUS
<1>2. /\ Tail(todo) \in Seq(E) /\ Len(Tail(todo)) = Len(todo) - 1
      /\ \A i \in 1 .. Len(todo) - 1 : Tail(todo)[i] = todo[i + 1]
  OBVIOUS
<1>3. todo' = items \o Tail(todo)
  BY DEF Replace
<1>4. todo' \in Seq(E) /\ Len(todo') = Len(items) + Len(todo) - 1
  BY <1>1, <1>2, <1>3
<1>5. DOMAIN todo' = 1 .. Len(items) + Len(todo) - 1
  BY <1>1, <1>4
<1>6. \A i \in 1 .. Len(items) : todo'[i] = items[i]
  BY <1>1, <1>2, <1>3
<1>7. ASSUME NEW i \in DOMAIN todo', i > Len(items)
      PROVE  /\ i - Len(items) + 1 \in 2 .. Len(todo)
             /\ todo'[i] = todo[i - Len(items) + 1]
  <2>1. i - Len(items) \in 1 .. Len(todo) - 1
    BY <1>1, <1>5, <1>7
  <2>2. todo'[i] = Tail(todo)[i - Len(items)]
    BY <1>1, <1>2, <1>3, <1>5, <1>7
  <2> QED BY <1>1, <1>2, <2>1, <2>2
<1> QED BY <1>1, <1>4, <1>5, <1>6, <1>7

\* An item is a visit or the end of a loop.
LEMMA EntryFacts ==
  ASSUME NEW Nodes, NEW item \in Entries(Nodes)
  PROVE  IF Visits(item)
         THEN /\ item = Visit(item.node, item.place)
              /\ item.node \in Nodes /\ item.place \in Seq(Nat)
         ELSE item = Do("leave loop")
<1>1. CASE item = Do("leave loop")
  BY <1>1 DEF Visits, Do
<1>2. CASE item # Do("leave loop")
  <2>1. item \in [do : {"visit"}, node : Nodes, place : Seq(Nat)]
    BY <1>2 DEF Entries
  <2>2. item = [do |-> "visit", node |-> item.node, place |-> item.place]
    BY <2>1
  <2> QED BY <2>1, <2>2 DEF Visits, Visit
<1> QED BY <1>1, <1>2

\* A visit of a node at a place is an item.
LEMMA VisitIsEntry ==
  ASSUME NEW Nodes, NEW node \in Nodes, NEW place \in Seq(Nat)
  PROVE  Visit(node, place) \in Entries(Nodes)
<1>1. Visit(node, place) \in [do : {"visit"}, node : Nodes, place : Seq(Nat)]
  BY DEF Visit
<1> QED BY <1>1 DEF Entries

\* A place below a part is below the node.
LEMMA ExtendsChild ==
  ASSUME NEW p \in Seq(Nat), NEW q \in Seq(Nat), NEW c \in Nat
  PROVE  /\ Append(p, c) \in Seq(Nat)
         /\ Extends(q, Append(p, c)) => Extends(q, p)
         /\ ~Extends(p, Append(p, c))
         /\ Extends(Append(p, c), q) => Extends(p, q) \/ q = Append(p, c)
         /\ Extends(Append(p, c), p) /\ Extends(p, p)
<1>1. /\ Append(p, c) \in Seq(Nat) /\ Len(p) \in Nat /\ Len(q) \in Nat
      /\ Len(Append(p, c)) = Len(p) + 1
      /\ \A k \in 1 .. Len(p) : Append(p, c)[k] = p[k]
  OBVIOUS
<1>2. Extends(q, Append(p, c)) => Extends(q, p)
  BY <1>1 DEF Extends
<1>3. ~Extends(p, Append(p, c))
  BY <1>1 DEF Extends
<1>4. ASSUME Extends(Append(p, c), q) PROVE Extends(p, q) \/ q = Append(p, c)
  <2>1. CASE Len(q) <= Len(p)
    BY <1>1, <1>4, <2>1 DEF Extends
  <2>2. CASE Len(q) > Len(p)
    <3>1. Len(q) = Len(p) + 1
      BY <1>1, <1>4, <2>2 DEF Extends
    <3>2. \A k \in 1 .. Len(q) : Append(p, c)[k] = q[k]
      BY <1>4 DEF Extends
    <3> HIDE DEF Extends
    <3>3. q = Append(p, c)
      <4> DEFINE r == Append(p, c)
      <4>1. r \in Seq(Nat) /\ Len(r) = Len(q) /\ \A k \in 1 .. Len(q) : r[k] = q[k]
        BY <1>1, <3>1, <3>2, Zenon
      <4> HIDE DEF r
      <4>2. q = r
        BY <4>1, SeqEqual
      <4> QED BY <4>2 DEF r
    <3> QED BY <3>3
  <2> QED BY <1>1, <2>1, <2>2
<1>5. Extends(Append(p, c), p) /\ Extends(p, p)
  BY <1>1 DEF Extends
<1> QED BY <1>1, <1>2, <1>3, <1>4, <1>5

\* The items are trees right below the head of todo, all different.
BelowHead(items) ==
  \A i \in DOMAIN items : Visits(items[i]) =>
    Visits(todo[1]) /\ \E c \in Nat : items[i].place = Append(todo[1].place, c)
Disjoint(items) ==
  \A i, j \in DOMAIN items : i # j /\ Visits(items[i]) /\ Visits(items[j]) =>
    items[i].place # items[j].place

\* At most the head of todo gets a label.
OnlyHeadLabelled ==
  \A q \in DOMAIN labels' : q \in DOMAIN labels \/ (Visits(todo[1]) /\ q = todo[1].place)

\* The disjointness of what is left to visit, when the head of todo is replaced
\* by trees right below it and nothing else than it is labelled.
LEMMA FreshAfter ==
  ASSUME NEW Nodes, todo \in Seq(Entries(Nodes)), todo # <<>>, Fresh,
         NEW items \in Seq(Entries(Nodes)), Replace(items),
         DOMAIN labels \subseteq Seq(Nat),
         BelowHead(items), Disjoint(items), OnlyHeadLabelled
  PROVE  Fresh'
<1> DEFINE n == Len(items)
           old(i) == i - n + 1
<1>1. /\ n \in Nat /\ Len(todo) \in Nat \ {0} /\ DOMAIN todo = 1 .. Len(todo)
      /\ DOMAIN todo' = 1 .. n + Len(todo) - 1
      /\ \A i \in 1 .. n : todo'[i] = items[i]
      /\ \A i \in DOMAIN todo' : i > n =>
           old(i) \in 2 .. Len(todo) /\ todo'[i] = todo[old(i)]
  BY Replaced
<1>2. \A i \in DOMAIN todo : Visits(todo[i]) => todo[i].place \in Seq(Nat)
  <2> SUFFICES ASSUME NEW i \in DOMAIN todo, Visits(todo[i]) PROVE todo[i].place \in Seq(Nat)
    OBVIOUS
  <2>1. todo[i] \in Entries(Nodes)
    OBVIOUS
  <2> QED BY <2>1, EntryFacts
<1>3. DOMAIN items = 1 .. n
  OBVIOUS
<1> HIDE DEF n
<1>4. \A i \in DOMAIN todo' : i \in 1 .. n \/ i > n
  BY <1>1
<1>5. ASSUME NEW i \in DOMAIN todo', Visits(todo'[i]), NEW q \in DOMAIN labels'
      PROVE  ~Extends(q, todo'[i].place)
  <2>1. CASE i \in 1 .. n
    <3>1. PICK c \in Nat : todo'[i].place = Append(todo[1].place, c) /\ Visits(todo[1])
      BY <1>1, <1>3, <1>5, <2>1 DEF BelowHead
    <3>2. todo[1].place \in Seq(Nat) /\ 1 \in DOMAIN todo
      BY <1>1, <1>2, <3>1
    <3>3. CASE q \in DOMAIN labels
      <4>1. ~Extends(q, todo[1].place) /\ q \in Seq(Nat)
        BY <3>1, <3>2, <3>3 DEF Fresh
      <4> QED BY <3>1, <3>2, <4>1, ExtendsChild
    <3>4. CASE q = todo[1].place
      BY <3>1, <3>2, <3>4, ExtendsChild
    <3> QED BY <3>1, <3>3, <3>4 DEF OnlyHeadLabelled
  <2>2. CASE i > n
    <3>1. old(i) \in DOMAIN todo /\ old(i) # 1 /\ todo'[i] = todo[old(i)] /\ 1 \in DOMAIN todo
      BY <1>1, <2>2
    <3>2. CASE q \in DOMAIN labels
      BY <1>5, <3>1, <3>2 DEF Fresh
    <3>3. CASE Visits(todo[1]) /\ q = todo[1].place
      BY <1>5, <3>1, <3>3 DEF Fresh
    <3> QED BY <3>2, <3>3 DEF OnlyHeadLabelled
  <2> QED BY <1>4, <2>1, <2>2
<1>6. ASSUME NEW i \in DOMAIN todo', NEW j \in DOMAIN todo', i # j,
             Visits(todo'[i]), Visits(todo'[j])
      PROVE  ~Extends(todo'[i].place, todo'[j].place)
  <2>1. CASE i \in 1 .. n /\ j \in 1 .. n
    <3>1. PICK c \in Nat : todo'[i].place = Append(todo[1].place, c) /\ Visits(todo[1])
      BY <1>1, <1>3, <1>6, <2>1 DEF BelowHead
    <3>2. PICK e \in Nat : todo'[j].place = Append(todo[1].place, e)
      BY <1>1, <1>3, <1>6, <2>1 DEF BelowHead
    <3>3. todo'[i].place # todo'[j].place
      BY <1>1, <1>3, <1>6, <2>1 DEF Disjoint
    <3>4. todo[1].place \in Seq(Nat)
      BY <1>1, <1>2, <3>1
    <3>5. ~Extends(todo[1].place, Append(todo[1].place, e)) /\ Append(todo[1].place, e) \in Seq(Nat)
      BY <3>4, ExtendsChild
    <3>6. Extends(Append(todo[1].place, c), Append(todo[1].place, e))
            => Append(todo[1].place, e) = Append(todo[1].place, c)
      BY <3>4, <3>5, ExtendsChild
    <3> QED BY <3>1, <3>2, <3>3, <3>6
  <2>2. CASE i \in 1 .. n /\ j > n
    <3>1. PICK c \in Nat : todo'[i].place = Append(todo[1].place, c) /\ Visits(todo[1])
      BY <1>1, <1>3, <1>6, <2>2 DEF BelowHead
    <3>2. old(j) \in DOMAIN todo /\ old(j) # 1 /\ todo'[j] = todo[old(j)] /\ 1 \in DOMAIN todo
      BY <1>1, <2>2
    <3>3. todo[1].place \in Seq(Nat) /\ todo'[j].place \in Seq(Nat)
      BY <1>2, <1>6, <3>1, <3>2
    <3>4. /\ ~Extends(todo[1].place, todo'[j].place)
          /\ ~Extends(todo'[j].place, todo[1].place)
      BY <1>6, <3>1, <3>2 DEF Fresh
    <3> DEFINE head == todo[1].place
               other == todo'[j].place
    <3>5. Extends(Append(head, c), other) => Extends(head, other) \/ other = Append(head, c)
      BY <3>3, ExtendsChild
    <3>6. Extends(Append(head, c), head)
      BY <3>3, ExtendsChild
    <3> QED BY <3>1, <3>4, <3>5, <3>6
  <2>3. CASE i > n /\ j \in 1 .. n
    <3>1. PICK c \in Nat : todo'[j].place = Append(todo[1].place, c) /\ Visits(todo[1])
      BY <1>1, <1>3, <1>6, <2>3 DEF BelowHead
    <3>2. old(i) \in DOMAIN todo /\ old(i) # 1 /\ todo'[i] = todo[old(i)] /\ 1 \in DOMAIN todo
      BY <1>1, <2>3
    <3>3. todo[1].place \in Seq(Nat) /\ todo'[i].place \in Seq(Nat)
      BY <1>2, <1>6, <3>1, <3>2
    <3>4. ~Extends(todo'[i].place, todo[1].place)
      BY <1>6, <3>1, <3>2 DEF Fresh
    <3>5. Extends(todo'[i].place, Append(todo[1].place, c))
            => Extends(todo'[i].place, todo[1].place)
      BY <3>3, ExtendsChild
    <3> QED BY <3>1, <3>4, <3>5
  <2>4. CASE i > n /\ j > n
    <3>1. /\ old(i) \in DOMAIN todo /\ todo'[i] = todo[old(i)]
          /\ old(j) \in DOMAIN todo /\ todo'[j] = todo[old(j)] /\ old(i) # old(j)
      BY <1>1, <1>6, <2>4
    <3> QED BY <1>6, <3>1 DEF Fresh
  <2> QED BY <1>4, <2>1, <2>2, <2>3, <2>4
<1> QED BY <1>5, <1>6 DEF Fresh, Visits

\* The items are in e loops, but for the end of the innermost, which is last.
AtDepth(items, e) ==
  \A i \in DOMAIN items :
    IF Visits(items[i]) THEN WillBeInLoop(items[i].place, e) ELSE e # 0 /\ i = Len(items)

\* How deep it is after the items, and after the head of todo.
AfterItems(items, e) ==
  IF items # <<>> /\ ~Visits(items[Len(items)]) THEN e - 1 ELSE e
AfterHead(depth) == IF Visits(todo[1]) THEN depth[1] ELSE depth[1] - 1

RestInLoop(depth) ==
  \A i \in DOMAIN todo : i # 1 /\ Visits(todo[i]) => WillBeInLoop(todo[i].place, depth[i])

\* The depths of todo when its head is replaced by visits of parts.
LEMMA DepthsAfter ==
  ASSUME NEW Nodes, unit' = unit, todo \in Seq(Entries(Nodes)), todo # <<>>,
         NEW items \in Seq(Entries(Nodes)), Replace(items),
         NEW depth, Depths(depth), RestInLoop(depth),
         NEW e \in Nat, e = Len(loop_ids'), AtDepth(items, e),
         AfterItems(items, e) = AfterHead(depth)
  PROVE  \E d : Depths(d)'
<1> DEFINE n == Len(items)
           old(i) == i - n + 1
<1>1. /\ n \in Nat /\ Len(todo) \in Nat \ {0} /\ DOMAIN todo = 1 .. Len(todo)
      /\ DOMAIN todo' = 1 .. n + Len(todo) - 1
      /\ DOMAIN items = 1 .. n /\ (items # <<>> <=> n # 0)
  BY Replaced
<1>2. \A i \in 1 .. n : todo'[i] = items[i]
  BY Replaced
<1>3. \A i \in DOMAIN todo' : i > n => old(i) \in 2 .. Len(todo) /\ todo'[i] = todo[old(i)]
  BY Replaced
<1> HIDE DEF n
<1>4. \A i \in DOMAIN todo' : i \in Nat /\ (i \in 1 .. n \/ i > n)
  BY <1>1
<1>5. PICK d : d = [i \in DOMAIN todo' |-> IF i <= n THEN e ELSE depth[old(i)]]
  OBVIOUS
<1>6. \A i \in 1 .. n : i \in DOMAIN todo' /\ d[i] = e
  BY <1>1, <1>5
<1>7. \A i \in DOMAIN todo' : i > n => d[i] = depth[old(i)] /\ old(i) \in 2 .. Len(todo)
  BY <1>1, <1>3, <1>5
<1>8. depth \in [DOMAIN todo -> Nat]
  BY DEF Depths
<1>9. d \in [DOMAIN todo' -> Nat]
  <2>1. \A i \in DOMAIN todo' : (IF i <= n THEN e ELSE depth[old(i)]) \in Nat
    BY <1>1, <1>3, <1>4, <1>8
  <2> QED BY <1>5, <2>1
<1>10. 2 \in DOMAIN todo => depth[2] = AfterHead(depth)
  <2>1. 1 \in DOMAIN todo /\ 1 + 1 = 2
    BY <1>1
  <2> QED BY <2>1 DEF Depths, AfterHead
<1>11. AfterItems(items, e) <= e
  BY DEF AfterItems
<1>12. ASSUME todo' # <<>> PROVE d[1] = Len(loop_ids')
  <2>1. 1 \in DOMAIN todo'
    <3>1. todo' \in Seq(Entries(Nodes))
      BY Replaced
    <3> QED BY <1>12, <3>1
  <2>2. CASE n # 0
    BY <1>1, <1>6, <2>2
  <2>3. CASE n = 0
    <3>1. d[1] = depth[2] /\ 2 \in DOMAIN todo
      BY <1>1, <1>7, <2>1, <2>3
    <3>2. AfterItems(items, e) = e
      BY <1>1, <2>3 DEF AfterItems
    <3> QED BY <1>10, <3>1, <3>2
  <2> QED BY <2>2, <2>3
<1>13. ASSUME NEW i \in DOMAIN todo', NEW j \in DOMAIN todo', i < j
       PROVE  d[j] <= d[i]
  <2>1. CASE j <= n
    <3>1. i \in 1 .. n /\ j \in 1 .. n
      BY <1>1, <1>13, <2>1
    <3> QED BY <1>6, <3>1
  <2>2. CASE i <= n /\ j > n
    <3>1. d[j] = depth[old(j)] /\ old(j) \in 2 .. Len(todo) /\ d[i] = e
      BY <1>1, <1>6, <1>7, <2>2
    <3>2. depth[old(j)] <= depth[2]
      <4>1. CASE old(j) = 2
        BY <1>1, <1>8, <3>1, <4>1
      <4>2. CASE old(j) # 2
        <5>1. 2 \in DOMAIN todo /\ old(j) \in DOMAIN todo /\ 2 < old(j)
          BY <1>1, <3>1, <4>2
        <5> QED BY <5>1 DEF Depths
      <4> QED BY <4>1, <4>2
    <3>3. 2 \in DOMAIN todo
      BY <1>1, <3>1
    <3>4. depth[old(j)] \in Nat /\ depth[2] \in Nat
      BY <1>1, <1>8, <3>1, <3>3
    <3> QED BY <1>10, <1>11, <3>1, <3>2, <3>3, <3>4
  <2>3. CASE i > n
    <3>1. /\ d[i] = depth[old(i)] /\ old(i) \in DOMAIN todo
          /\ d[j] = depth[old(j)] /\ old(j) \in DOMAIN todo /\ old(i) < old(j)
      BY <1>1, <1>7, <1>13, <2>3
    <3> QED BY <3>1 DEF Depths
  <2> QED BY <1>1, <2>1, <2>2, <2>3
<1>14. ASSUME NEW i \in DOMAIN todo', i + 1 \in DOMAIN todo'
       PROVE  d[i + 1] = IF Visits(todo'[i]) THEN d[i] ELSE d[i] - 1
  <2>1. CASE i + 1 <= n
    <3>1. i \in 1 .. n /\ i + 1 \in 1 .. n /\ i # n
      BY <1>1, <2>1
    <3>2. Visits(items[i])
      BY <1>1, <3>1 DEF AtDepth, n
    <3> QED BY <1>2, <1>6, <3>1, <3>2
  <2>2. CASE i = n
    <3>1. n \in 1 .. n /\ old(n + 1) = 2 /\ n + 1 > n
      BY <1>1, <2>2
    <3>2. /\ d[i + 1] = depth[2] /\ 2 \in DOMAIN todo
          /\ d[i] = e /\ todo'[i] = items[n]
      <4>1. n + 1 \in DOMAIN todo' /\ i + 1 = n + 1
        BY <1>1, <1>14, <2>2
      <4>2. d[n + 1] = depth[2] /\ 2 \in 2 .. Len(todo)
        BY <1>7, <3>1, <4>1
      <4> QED BY <1>1, <1>2, <1>6, <2>2, <3>1, <4>1, <4>2
    <3>3. AfterItems(items, e) = IF Visits(items[n]) THEN e ELSE e - 1
      BY <1>1, <3>1 DEF AfterItems, n
    <3> QED BY <1>10, <3>2, <3>3
  <2>3. CASE i > n
    <3>1. /\ d[i] = depth[old(i)] /\ old(i) \in DOMAIN todo /\ todo'[i] = todo[old(i)]
          /\ d[i + 1] = depth[old(i + 1)] /\ old(i + 1) \in DOMAIN todo
          /\ old(i + 1) = old(i) + 1
      BY <1>1, <1>3, <1>7, <1>14, <2>3
    <3> QED BY <3>1 DEF Depths
  <2> QED BY <1>1, <2>1, <2>2, <2>3
<1>15. ASSUME NEW i \in DOMAIN todo'
       PROVE  IF Visits(todo'[i]) THEN WillBeInLoop(todo'[i].place, d[i]) ELSE d[i] # 0
  <2>1. CASE i \in 1 .. n
    BY <1>1, <1>2, <1>6, <2>1 DEF AtDepth
  <2>2. CASE i > n
    <3>1. /\ d[i] = depth[old(i)] /\ old(i) \in DOMAIN todo /\ old(i) # 1
          /\ todo'[i] = todo[old(i)]
      BY <1>1, <1>3, <1>7, <2>2
    <3>2. CASE Visits(todo[old(i)])
      BY <3>1, <3>2 DEF RestInLoop
    <3>3. CASE ~Visits(todo[old(i)])
      BY <3>1, <3>3 DEF Depths
    <3> QED BY <3>1, <3>2, <3>3
  <2> QED BY <1>4, <2>1, <2>2
<1>16. ASSUME NEW i \in DOMAIN todo'
       PROVE  InLoop(todo[i].place, d[i])' <=> WillBeInLoop(todo'[i].place, d[i])
  <2>1. LoopsAround(todo[i].place)' = LoopsAround(todo'[i].place)
    BY DEF LoopsAround, NodeAt
  <2> QED BY <2>1 DEF InLoop, WillBeInLoop
<1>17. Depths(d)'
  BY <1>9, <1>12, <1>13, <1>14, <1>15, <1>16 DEF Depths, Visits
<1> QED BY <1>17

\* What is already labelled keeps its label, and what remains to be visited its
\* loop, when the loops around it keep their numbers.
LabelsKept == \A p \in DOMAIN labels : p \in DOMAIN labels' /\ labels'[p] = labels[p]
NumbersKept(n) == \A k \in 1 .. n : loop_ids'[k] = loop_ids[k]

\* A new number on the stack and a new label change nothing for the others.
LEMMA RestStaysInLoop ==
  ASSUME NEW Nodes, todo \in Seq(Entries(Nodes)), todo # <<>>, loop_ids \in Seq(Nat),
         NEW depth, Depths(depth), LabelsKept, NumbersKept(AfterHead(depth))
  PROVE  RestInLoop(depth)
<1> SUFFICES ASSUME NEW i \in DOMAIN todo, i # 1, Visits(todo[i])
             PROVE  WillBeInLoop(todo[i].place, depth[i])
  BY DEF RestInLoop
<1>1. DOMAIN todo = 1 .. Len(todo) /\ Len(todo) \in Nat
  OBVIOUS
<1>2. 1 \in DOMAIN todo /\ 2 \in DOMAIN todo /\ (i = 2 \/ 2 < i) /\ 1 + 1 = 2
  BY <1>1
<1>3. depth[2] = AfterHead(depth)
  BY <1>2 DEF Depths, AfterHead
<1>4. depth[i] <= depth[2] /\ depth[i] \in Nat /\ depth[2] \in Nat
  BY <1>2 DEF Depths
<1>5. InLoop(todo[i].place, depth[i])
  BY DEF Depths
<1>6. depth[i] # 0 => depth[i] \in 1 .. AfterHead(depth)
  BY <1>3, <1>4
<1>7. depth[i] # 0 => loop_ids'[depth[i]] = loop_ids[depth[i]]
  BY <1>6 DEF NumbersKept
<1> QED BY <1>5, <1>7 DEF InLoop, WillBeInLoop, InLoops, LabelsKept

LocatedItems(items) == \A i \in DOMAIN items : Visits(items[i]) =>
  IsPlace(items[i].place) /\ items[i].node = NodeAt(items[i].place)

\* What is to be visited stays the node at its place.
LEMMA LocatedAfter ==
  ASSUME NEW Nodes, unit' = unit, todo \in Seq(Entries(Nodes)), todo # <<>>, Located,
         NEW items \in Seq(Entries(Nodes)), Replace(items), LocatedItems(items)
  PROVE  Located'
<1> DEFINE n == Len(items)
<1>1. /\ n \in Nat /\ Len(todo) \in Nat \ {0} /\ DOMAIN todo = 1 .. Len(todo)
      /\ DOMAIN todo' = 1 .. n + Len(todo) - 1 /\ DOMAIN items = 1 .. n
  BY Replaced
<1>2. \A i \in 1 .. n : todo'[i] = items[i]
  BY Replaced
<1>3. \A i \in DOMAIN todo' : i > n => i - n + 1 \in 2 .. Len(todo) /\ todo'[i] = todo[i - n + 1]
  BY Replaced
<1> HIDE DEF n
<1>4. ASSUME NEW i \in DOMAIN todo', Visits(todo'[i])
      PROVE  IsPlace(todo'[i].place) /\ todo'[i].node = NodeAt(todo'[i].place)
  <2>1. CASE i \in 1 .. n
    BY <1>1, <1>2, <1>4, <2>1 DEF LocatedItems
  <2>2. CASE i > n
    <3>1. i - n + 1 \in DOMAIN todo /\ todo'[i] = todo[i - n + 1]
      BY <1>1, <1>3, <2>2
    <3> QED BY <1>4, <3>1 DEF Located
  <2> QED BY <1>1, <2>1, <2>2
<1>5. ASSUME NEW i \in DOMAIN todo'
      PROVE  /\ IsPlace(todo[i].place)' = IsPlace(todo'[i].place)
             /\ NodeAt(todo[i].place)' = NodeAt(todo'[i].place)
  BY DEF IsPlace, Path, NodeAt
<1> QED BY <1>4, <1>5 DEF Located, Visits

\* The conjuncts of Walking together, after a visit.
LEMMA WalkingAfter ==
  ASSUME NEW Nodes, Walking(Nodes), NumbersUsed, unit' = unit, todo # <<>>,
         NEW items \in Seq(Entries(Nodes)), Replace(items), loop_ids' \in Seq(Nat),
         LocatedItems(items), BelowHead(items), Disjoint(items),
         OnlyHeadLabelled, LabelsKept,
         NEW depth, Depths(depth), NumbersKept(AfterHead(depth)),
         AtDepth(items, Len(loop_ids')),
         AfterItems(items, Len(loop_ids')) = AfterHead(depth)
  PROVE  Walking(Nodes)'
<1>1. /\ unit \in Seq(Nodes) /\ todo \in Seq(Entries(Nodes)) /\ loop_ids \in Seq(Nat)
      /\ Located /\ Fresh
  BY DEF Walking
<1>2. todo' \in Seq(Entries(Nodes))
  BY <1>1, Replaced
<1>3. Located'
  BY <1>1, LocatedAfter
<1>4. Fresh'
  BY <1>1, FreshAfter DEF NumbersUsed
<1>5. RestInLoop(depth)
  BY <1>1, RestStaysInLoop
<1>6. PICK e : e = Len(loop_ids')
  OBVIOUS
<1>7. e \in Nat
  BY <1>6
<1>8. AtDepth(items, e) /\ AfterItems(items, e) = AfterHead(depth)
  BY <1>6
<1>9. \E d : Depths(d)'
  BY <1>1, <1>5, <1>6, <1>7, <1>8, DepthsAfter
<1> QED BY <1>1, <1>2, <1>3, <1>4, <1>9 DEF Walking, Entries, Do

\* The items that visit the parts of the head of todo.
LEMMA ChildrenFacts ==
  ASSUME NEW Nodes, AreTrees(Nodes), Walking(Nodes), todo # <<>>, Visits(todo[1]),
         NEW items, items = Children(todo[1])
  PROVE  /\ items \in Seq(Entries(Nodes))
         /\ LocatedItems(items) /\ BelowHead(items) /\ Disjoint(items)
         /\ \A i \in DOMAIN items :
              /\ Visits(items[i]) /\ IsPlace(todo[1].place)
              /\ LoopsAround(items[i].place)
                   = LoopsAround(todo[1].place)
                       \cup (IF IsLoop(todo[1].node) THEN {todo[1].place} ELSE {})
<1> DEFINE p == todo[1].place
           parts == todo[1].node.parts
<1>1. /\ todo[1] \in Entries(Nodes) /\ 1 \in DOMAIN todo
      /\ IsPlace(p) /\ todo[1].node = NodeAt(p)
  BY DEF Walking, Located
<1>2. todo[1].node \in Nodes /\ p \in Seq(Nat)
  BY <1>1, EntryFacts
<1>3. parts \in Seq(Nodes) /\ DOMAIN parts = 1 .. Len(parts) /\ Len(parts) \in Nat
  BY <1>2 DEF AreTrees
<1>4. /\ items = [i \in 1 .. Len(parts) |-> Visit(parts[i], Append(p, i))]
      /\ DOMAIN items = 1 .. Len(parts)
  BY <1>3 DEF Children
<1> HIDE DEF p, parts
<1>5. ASSUME NEW i \in DOMAIN items
      PROVE  /\ i \in Nat /\ i \in DOMAIN parts /\ items[i] = Visit(parts[i], Append(p, i))
             /\ Visits(items[i]) /\ items[i].place = Append(p, i) /\ items[i].node = parts[i]
             /\ items[i] \in Entries(Nodes)
  <2>1. i \in Nat /\ i \in DOMAIN parts /\ items[i] = Visit(parts[i], Append(p, i))
    BY <1>3, <1>4
  <2>2. parts[i] \in Nodes /\ Append(p, i) \in Seq(Nat)
    BY <1>2, <1>3, <2>1
  <2>3. items[i] = [do |-> "visit", node |-> parts[i], place |-> Append(p, i)]
    BY <2>1 DEF Visit
  <2>4. items[i].do = "visit" /\ items[i].place = Append(p, i) /\ items[i].node = parts[i]
    BY <2>3
  <2>5. items[i] \in Entries(Nodes)
    BY <2>1, <2>2, VisitIsEntry
  <2> QED BY <2>1, <2>4, <2>5 DEF Visits
<1>6. items \in Seq(Entries(Nodes))
  BY <1>3, <1>4, <1>5
<1>7. ASSUME NEW i \in DOMAIN items
      PROVE  /\ IsPlace(items[i].place) /\ items[i].node = NodeAt(items[i].place)
             /\ LoopsAround(items[i].place)
                   = LoopsAround(p) \cup (IF IsLoop(NodeAt(p)) THEN {p} ELSE {})
  <2>1. i \in DOMAIN NodeAt(p).parts /\ parts = NodeAt(p).parts /\ i \in Nat
    BY <1>1, <1>5 DEF parts
  <2>2. items[i].place = Append(p, i) /\ items[i].node = parts[i]
    BY <1>5
  <2>3. /\ IsPlace(Append(p, i)) /\ NodeAt(Append(p, i)) = NodeAt(p).parts[i]
        /\ LoopsAround(Append(p, i))
             = LoopsAround(p) \cup (IF IsLoop(NodeAt(p)) THEN {p} ELSE {})
    BY <1>1, <2>1, ChildPlace
  <2> QED BY <2>1, <2>2, <2>3
<1>8. LocatedItems(items)
  BY <1>7 DEF LocatedItems
<1>9. BelowHead(items)
  BY <1>5 DEF BelowHead, p
<1>10. Disjoint(items)
  <2> SUFFICES ASSUME NEW i \in DOMAIN items, NEW j \in DOMAIN items, i # j
               PROVE  items[i].place # items[j].place
    BY DEF Disjoint
  <2>1. Append(p, i)[Len(p) + 1] = i /\ Append(p, j)[Len(p) + 1] = j
    BY <1>2, <1>5
  <2> QED BY <1>5, <2>1
<1> QED BY <1>1, <1>5, <1>6, <1>7, <1>8, <1>9, <1>10 DEF p

-----------------------------------------------------------------------------
\* The steps of the analysis.

LEMMA StartsWalking ==
  ASSUME NEW Nodes, AreTrees(Nodes), Init
  PROVE  IInv(Nodes)
<1>1. /\ unit \in Seq(Nodes) /\ phase = "analyze" /\ todo = Functions /\ loop_ids = <<>>
      /\ loop_id_counter = 0 /\ labels = <<>> /\ errors = {}
  BY DEF Init, Initially, AreTrees
<1>2. DOMAIN unit = 1 .. Len(unit) /\ Len(unit) \in Nat
  BY <1>1
<1>3. todo = [i \in 1 .. Len(unit) |-> Visit(unit[i], <<i>>)] /\ DOMAIN todo = 1 .. Len(unit)
  BY <1>1, <1>2 DEF Functions
<1>4. ASSUME NEW i \in DOMAIN todo
      PROVE  /\ i \in DOMAIN unit /\ i \in Nat /\ todo[i].place = <<i>>
             /\ todo[i].node = unit[i] /\ Visits(todo[i]) /\ todo[i] \in Entries(Nodes)
  <2>1. i \in DOMAIN unit /\ i \in Nat /\ unit[i] \in Nodes /\ <<i>> \in Seq(Nat)
    BY <1>1, <1>2, <1>3
  <2>2. todo[i] = [do |-> "visit", node |-> unit[i], place |-> <<i>>]
    BY <1>3 DEF Visit
  <2>3. todo[i].do = "visit" /\ todo[i].place = <<i>> /\ todo[i].node = unit[i]
    BY <2>2
  <2>4. todo[i] \in Entries(Nodes)
    BY <1>3, <2>1, VisitIsEntry
  <2> QED BY <2>1, <2>3, <2>4 DEF Visits
<1>5. todo \in Seq(Entries(Nodes))
  BY <1>2, <1>3, <1>4
<1>6. Located
  BY <1>4, FunctionPlace DEF Located
<1>7. Fresh
  <2>1. ASSUME NEW i \in DOMAIN todo, NEW j \in DOMAIN todo, i # j
        PROVE  ~Extends(todo[i].place, todo[j].place)
    <3>1. todo[i].place = <<i>> /\ todo[j].place = <<j>>
      BY <1>4
    <3> QED BY <2>1, <3>1 DEF Extends
  <2> QED BY <1>1, <2>1 DEF Fresh
<1>8. PICK depth : depth = [i \in DOMAIN todo |-> 0]
  OBVIOUS
<1>9. ASSUME NEW i \in DOMAIN todo PROVE InLoop(todo[i].place, depth[i])
  <2>1. LoopsAround(todo[i].place) = {}
    BY <1>4, FunctionPlace
  <2> QED BY <1>8, <2>1 DEF InLoop, InLoops
<1>10. Depths(depth)
  <2>1. depth \in [DOMAIN todo -> Nat] /\ \A i \in DOMAIN todo : depth[i] = 0
    BY <1>8
  <2>2. todo # <<>> => 1 \in DOMAIN todo
    BY <1>5
  <2> QED BY <1>1, <1>4, <1>9, <2>1, <2>2 DEF Depths
<1>11. Labelled
  BY <1>1 DEF Labelled, JumpsBound, LoopsNumbered, NumbersUsed, ErrorsRight
<1> QED BY <1>1, <1>5, <1>6, <1>7, <1>10, <1>11 DEF IInv, Walking

\* The head of todo when it is a visit.
LEMMA HeadVisited ==
  ASSUME NEW Nodes, Walking(Nodes), NEW depth, Depths(depth), Doing("visit")
  PROVE  /\ todo # <<>> /\ Head(todo) = todo[1] /\ Visits(todo[1]) /\ Place = todo[1].place
         /\ todo[1].node = NodeAt(Place) /\ IsPlace(Place) /\ Place \in Seq(Nat)
         /\ Len(Place) \in Nat
         /\ Place \notin DOMAIN labels
         /\ depth[1] = Len(loop_ids) /\ AfterHead(depth) = Len(loop_ids)
         /\ InLoop(Place, Len(loop_ids))
<1>1. todo # <<>> /\ Head(todo) = todo[1] /\ Visits(todo[1]) /\ Place = todo[1].place
  BY DEF Doing, Visits, Place, Walking
<1>2. 1 \in DOMAIN todo
  BY <1>1 DEF Walking
<1>3. todo[1].node = NodeAt(Place) /\ IsPlace(Place)
  BY <1>1, <1>2 DEF Walking, Located
<1>4. Place \in Seq(Nat) /\ Len(Place) \in Nat
  BY <1>3 DEF IsPlace, Path
<1>5. Extends(Place, Place)
  BY <1>4 DEF Extends
<1>6. Place \notin DOMAIN labels
  BY <1>1, <1>2, <1>5 DEF Walking, Fresh
<1>7. depth[1] = Len(loop_ids) /\ AfterHead(depth) = Len(loop_ids)
  BY <1>1 DEF Depths, AfterHead
<1>8. InLoop(Place, Len(loop_ids))
  <2>1. IF Visits(todo[1]) THEN InLoop(todo[1].place, depth[1]) ELSE depth[1] # 0
    BY <1>2 DEF Depths
  <2> QED BY <1>1, <1>7, <2>1, Zenon
<1> QED BY <1>1, <1>3, <1>4, <1>6, <1>7, <1>8

\* Sequences that lose or get a last element.
LEMMA SequenceEnds ==
  ASSUME NEW S, NEW s \in Seq(S), NEW e \in S
  PROVE  /\ Len(s) \in Nat /\ DOMAIN s = 1 .. Len(s)
         /\ Append(s, e) \in Seq(S) /\ Len(Append(s, e)) = Len(s) + 1
         /\ Append(s, e)[Len(s) + 1] = e
         /\ \A k \in 1 .. Len(s) : Append(s, e)[k] = s[k]
         /\ s \o <<e>> = Append(s, e)
         /\ Len(s) # 0 =>
              /\ Front(s) \in Seq(S) /\ Len(Front(s)) = Len(s) - 1
              /\ \A k \in 1 .. Len(s) - 1 : Front(s)[k] = s[k]
<1>1. /\ Len(s) \in Nat /\ DOMAIN s = 1 .. Len(s)
      /\ Append(s, e) \in Seq(S) /\ Len(Append(s, e)) = Len(s) + 1
      /\ Append(s, e)[Len(s) + 1] = e
      /\ \A k \in 1 .. Len(s) : Append(s, e)[k] = s[k]
  OBVIOUS
<1>2. s \o <<e>> = Append(s, e)
  <2> DEFINE t == s \o <<e>>
             u == Append(s, e)
  <2>1. t \in Seq(S) /\ Len(t) = Len(s) + 1 /\ \A k \in 1 .. Len(s) + 1 : t[k] = u[k]
    OBVIOUS
  <2>2. u \in Seq(S) /\ Len(u) = Len(s) + 1
    BY <1>1
  <2> HIDE DEF t, u
  <2>3. t = u
    BY <2>1, <2>2, SeqEqual
  <2> QED BY <2>3 DEF t, u
<1>3. ASSUME Len(s) # 0
      PROVE  /\ Front(s) \in Seq(S) /\ Len(Front(s)) = Len(s) - 1
             /\ \A k \in 1 .. Len(s) - 1 : Front(s)[k] = s[k]
  <2>1. PICK n \in Nat : Len(s) = n + 1
    <3>1. Len(s) - 1 \in Nat /\ Len(s) = (Len(s) - 1) + 1
      BY <1>3
    <3> QED BY <3>1
  <2>2. Front(s) = SubSeq(s, 1, n)
    BY <2>1 DEF Front
  <2>3. SubSeq(s, 1, n) \in Seq(S)
    BY <2>1
  <2>4. Len(SubSeq(s, 1, n)) = n
    BY <2>1
  <2>5. \A k \in 1 .. n : SubSeq(s, 1, n)[k] = s[k]
    BY <2>1
  <2>6. Len(s) - 1 = n
    BY <2>1
  <2> QED BY <2>2, <2>3, <2>4, <2>5, <2>6, Zenon
<1> QED BY <1>1, <1>2, <1>3

\* Leaving a loop pops its number.
LEMMA LeaveLoopStep ==
  ASSUME NEW Nodes, AreTrees(Nodes), Walking(Nodes), Labelled, LeaveLoop
  PROVE  Walking(Nodes)' /\ Labelled'
<1>1. /\ unit' = unit /\ labels' = labels /\ errors' = errors
      /\ loop_id_counter' = loop_id_counter /\ loop_ids' = Front(loop_ids)
      /\ Replace(<<>>) /\ todo # <<>>
  BY DEF LeaveLoop, Analyzing, Doing
<1>2. /\ todo \in Seq(Entries(Nodes)) /\ loop_ids \in Seq(Nat)
      /\ 1 \in DOMAIN todo /\ todo[1] = Head(todo)
  BY <1>1 DEF Walking
<1>3. ~Visits(todo[1])
  BY <1>2 DEF LeaveLoop, Doing, Visits
<1>4. PICK depth : Depths(depth)
  BY DEF Walking
<1>5. depth[1] = Len(loop_ids) /\ depth[1] # 0 /\ AfterHead(depth) = Len(loop_ids) - 1
  BY <1>1, <1>2, <1>3, <1>4 DEF Depths, AfterHead
<1>6. /\ loop_ids' \in Seq(Nat) /\ Len(loop_ids') = Len(loop_ids) - 1
      /\ NumbersKept(Len(loop_ids) - 1)
  <2>1. PICK ids : ids = loop_ids
    OBVIOUS
  <2>2. ids \in Seq(Nat) /\ Len(ids) # 0
    BY <1>2, <1>5, <2>1
  <2>3. /\ Front(ids) \in Seq(Nat) /\ Len(Front(ids)) = Len(ids) - 1
        /\ \A k \in 1 .. Len(ids) - 1 : Front(ids)[k] = ids[k]
    BY <2>2, SequenceEnds
  <2>4. loop_ids' = Front(ids)
    BY <1>1, <2>1
  <2> QED BY <2>1, <2>3, <2>4 DEF NumbersKept
<1>7. PICK items : items = <<>>
  OBVIOUS
<1>8. /\ items \in Seq(Entries(Nodes)) /\ Replace(items) /\ DOMAIN items = {}
  BY <1>1, <1>7
<1>9. /\ LocatedItems(items) /\ BelowHead(items) /\ Disjoint(items)
      /\ AtDepth(items, Len(loop_ids'))
      /\ AfterItems(items, Len(loop_ids')) = AfterHead(depth)
  BY <1>5, <1>6, <1>7, <1>8 DEF LocatedItems, BelowHead, Disjoint, AtDepth, AfterItems
<1>10. OnlyHeadLabelled /\ LabelsKept /\ NumbersUsed
  BY <1>1 DEF OnlyHeadLabelled, LabelsKept, Labelled
<1>11. Walking(Nodes)'
  BY <1>1, <1>4, <1>5, <1>6, <1>8, <1>9, <1>10, WalkingAfter
<1>12. Labelled'
  BY <1>1, SamePlaces
  DEF Labelled, JumpsBound, LoopsNumbered, NumbersUsed, ErrorsRight
<1> QED BY <1>11, <1>12

\* A node that is neither loop nor jump only adds its parts.
LEMMA AnalyzeOtherStep ==
  ASSUME NEW Nodes, AreTrees(Nodes), Walking(Nodes), Labelled, AnalyzeOther
  PROVE  Walking(Nodes)' /\ Labelled'
<1>1. /\ unit' = unit /\ labels' = labels /\ errors' = errors
      /\ loop_id_counter' = loop_id_counter /\ loop_ids' = loop_ids
      /\ Replace(Children(Head(todo))) /\ Doing("visit") /\ ~IsLoop(Head(todo).node)
  BY DEF AnalyzeOther, Analyzing, analyzer
<1>2. PICK depth : Depths(depth)
  BY DEF Walking
<1>3. /\ todo # <<>> /\ Head(todo) = todo[1] /\ Visits(todo[1]) /\ Place = todo[1].place
      /\ AfterHead(depth) = Len(loop_ids) /\ InLoop(Place, Len(loop_ids))
  BY <1>1, <1>2, HeadVisited
<1>4. PICK items : items = Children(todo[1])
  OBVIOUS
<1>5. /\ items \in Seq(Entries(Nodes))
      /\ LocatedItems(items) /\ BelowHead(items) /\ Disjoint(items)
      /\ \A i \in DOMAIN items : Visits(items[i])
  BY <1>3, <1>4, ChildrenFacts
<1>6. \A i \in DOMAIN items : LoopsAround(items[i].place) = LoopsAround(todo[1].place)
  BY <1>1, <1>3, <1>4, ChildrenFacts
<1>7. AtDepth(items, Len(loop_ids'))
  BY <1>1, <1>3, <1>5, <1>6 DEF AtDepth, InLoop, WillBeInLoop
<1>8. AfterItems(items, Len(loop_ids')) = AfterHead(depth)
  <2>1. items # <<>> => Len(items) \in DOMAIN items
    BY <1>5
  <2> QED BY <1>1, <1>3, <1>5, <2>1 DEF AfterItems
<1>9. OnlyHeadLabelled /\ LabelsKept /\ NumbersUsed /\ NumbersKept(AfterHead(depth))
  BY <1>1 DEF OnlyHeadLabelled, LabelsKept, NumbersKept, Labelled
<1>10. Replace(items) /\ loop_ids' \in Seq(Nat)
  BY <1>1, <1>3, <1>4 DEF Walking
<1>11. Walking(Nodes)'
  BY <1>1, <1>2, <1>3, <1>5, <1>7, <1>8, <1>9, <1>10, WalkingAfter
<1>12. Labelled'
  BY <1>1, SamePlaces
  DEF Labelled, JumpsBound, LoopsNumbered, NumbersUsed, ErrorsRight
<1> QED BY <1>11, <1>12

\* A loop gets the counter's number and its parts one depth more.
LEMMA AnalyzeLoopStep ==
  ASSUME NEW Nodes, AreTrees(Nodes), Walking(Nodes), Labelled, AnalyzeLoop
  PROVE  Walking(Nodes)' /\ Labelled'
<1>0. unit' = unit /\ errors' = errors /\ loop_id_counter' = loop_id_counter + 1
  BY DEF AnalyzeLoop, Analyzing
<1>1. /\ unit' = unit /\ errors' = errors /\ SetLabel(loop_id_counter)
      /\ loop_id_counter' = loop_id_counter + 1
      /\ loop_ids' = Append(loop_ids, loop_id_counter)
      /\ Replace(Children(Head(todo)) \o <<Do("leave loop")>>) /\ Doing("visit")
      /\ IsLoop(Head(todo).node)
  BY DEF AnalyzeLoop, Analyzing, Visiting, IsLoop
<1>2. PICK depth : Depths(depth)
  BY DEF Walking
<1>3. /\ todo # <<>> /\ Head(todo) = todo[1] /\ Visits(todo[1]) /\ Place = todo[1].place
      /\ todo[1].node = NodeAt(Place) /\ Place \in Seq(Nat) /\ Len(Place) \in Nat
      /\ Place \notin DOMAIN labels
      /\ AfterHead(depth) = Len(loop_ids) /\ InLoop(Place, Len(loop_ids))
  BY <1>1, <1>2, HeadVisited
<1>4. /\ loop_ids \in Seq(Nat) /\ Len(loop_ids) \in Nat /\ loop_id_counter \in Nat
      /\ DOMAIN labels \subseteq Seq(Nat)
  BY DEF Walking, Labelled, NumbersUsed
<1>5. /\ loop_ids' \in Seq(Nat) /\ Len(loop_ids') = Len(loop_ids) + 1
      /\ loop_ids'[Len(loop_ids) + 1] = loop_id_counter
      /\ NumbersKept(Len(loop_ids))
  <2>1. PICK ids, id : ids = loop_ids /\ id = loop_id_counter
    OBVIOUS
  <2>2. ids \in Seq(Nat) /\ id \in Nat
    BY <1>4, <2>1
  <2>3. /\ Append(ids, id) \in Seq(Nat) /\ Len(Append(ids, id)) = Len(ids) + 1
        /\ Append(ids, id)[Len(ids) + 1] = id
        /\ \A k \in 1 .. Len(ids) : Append(ids, id)[k] = ids[k]
    BY <2>2, SequenceEnds
  <2>4. loop_ids' = Append(ids, id)
    BY <1>1, <2>1
  <2> QED BY <2>1, <2>3, <2>4 DEF NumbersKept
<1>6. /\ DOMAIN labels' = DOMAIN labels \cup {Place}
      /\ labels'[Place] = loop_id_counter
      /\ \A p \in DOMAIN labels : labels'[p] = labels[p]
  BY <1>1, <1>3 DEF SetLabel
<1>7. PICK parts : parts = Children(todo[1])
  OBVIOUS
<1>8. /\ parts \in Seq(Entries(Nodes))
      /\ LocatedItems(parts) /\ BelowHead(parts) /\ Disjoint(parts)
      /\ \A i \in DOMAIN parts :
           /\ Visits(parts[i])
           /\ LoopsAround(parts[i].place) = LoopsAround(Place) \cup {Place}
  BY <1>1, <1>3, <1>7, ChildrenFacts
<1>9. PICK items, leave : items = parts \o <<leave>> /\ leave = Do("leave loop")
  OBVIOUS
<1> DEFINE n == Len(parts)
<1>10. /\ items \in Seq(Entries(Nodes)) /\ n \in Nat /\ DOMAIN parts = 1 .. n
       /\ Len(items) = n + 1 /\ DOMAIN items = 1 .. n + 1
       /\ \A i \in DOMAIN parts : items[i] = parts[i]
       /\ items[n + 1] = leave
  <2>1. leave \in Entries(Nodes) /\ parts \in Seq(Entries(Nodes))
    BY <1>8, <1>9 DEF Entries
  <2>2. items = Append(parts, leave)
    <3>1. parts \o <<leave>> = Append(parts, leave)
      BY <2>1, SequenceEnds, ZenonT(30)
    <3> QED BY <1>9, <3>1
  <2>3. /\ items \in Seq(Entries(Nodes)) /\ n \in Nat /\ DOMAIN parts = 1 .. n
        /\ Len(items) = n + 1 /\ items[n + 1] = leave
        /\ \A i \in 1 .. n : items[i] = parts[i]
    BY <2>1, <2>2, SequenceEnds
  <2>4. DOMAIN items = 1 .. n + 1
    BY <2>3
  <2> QED BY <2>3, <2>4
<1> HIDE DEF n
<1>11. ~Visits(items[n + 1])
  <2>1. leave.do # "visit"
    BY <1>9 DEF Do
  <2> QED BY <1>10, <2>1 DEF Visits
<1>12. \A i \in DOMAIN items : Visits(items[i]) => i \in DOMAIN parts /\ items[i] = parts[i]
  <2>1. \A i \in 1 .. n + 1 : i \in 1 .. n \/ i = n + 1
    BY <1>10
  <2> QED BY <1>10, <1>11, <2>1
<1>13. LocatedItems(items) /\ BelowHead(items) /\ Disjoint(items)
  <2>1. LocatedItems(items)
    BY <1>8, <1>12 DEF LocatedItems
  <2>2. BelowHead(items)
    BY <1>8, <1>12 DEF BelowHead
  <2>3. Disjoint(items)
    BY <1>8, <1>12 DEF Disjoint
  <2> QED BY <2>1, <2>2, <2>3
<1>14. AtDepth(items, Len(loop_ids'))
  <2>1. Innermost(LoopsAround(Place) \cup {Place}) = Place
    BY <1>3, InnermostLoop
  <2>2. ASSUME NEW i \in DOMAIN items, Visits(items[i])
        PROVE  WillBeInLoop(items[i].place, Len(loop_ids'))
    <3>1. LoopsAround(items[i].place) = LoopsAround(Place) \cup {Place}
      BY <1>8, <1>12, <2>2
    <3> QED BY <1>4, <1>5, <1>6, <2>1, <3>1 DEF WillBeInLoop, InLoops
  <2>3. ASSUME NEW i \in DOMAIN items, ~Visits(items[i])
        PROVE  Len(loop_ids') # 0 /\ i = Len(items)
    <3>1. i \notin DOMAIN parts
      BY <1>8, <1>12, <2>3, <1>10
    <3> QED BY <1>4, <1>5, <1>10, <3>1
  <2> QED BY <2>2, <2>3 DEF AtDepth
<1>15. AfterItems(items, Len(loop_ids')) = AfterHead(depth)
  <2>1. items # <<>>
    BY <1>10
  <2> QED BY <1>3, <1>4, <1>5, <1>10, <1>11, <2>1 DEF AfterItems
<1>16. OnlyHeadLabelled /\ LabelsKept /\ NumbersUsed /\ NumbersKept(AfterHead(depth))
  BY <1>3, <1>5, <1>6 DEF OnlyHeadLabelled, LabelsKept, Labelled
<1>17. Replace(items)
  BY <1>1, <1>3, <1>7, <1>9
<1>18. Walking(Nodes)'
  BY <1>1, <1>2, <1>3, <1>5, <1>10, <1>13, <1>14, <1>15, <1>16, <1>17, WalkingAfter
<1>19. IsLoop(NodeAt(Place)) /\ ~IsJump(NodeAt(Place))
  BY <1>1, <1>3 DEF IsLoop, IsJump
<1>20. JumpsBound'
  <2> SUFFICES ASSUME NEW p \in DOMAIN labels', IsJump(NodeAt(p))
               PROVE  /\ LoopsAround(p) # {}
                      /\ Innermost(LoopsAround(p)) \in DOMAIN labels'
                      /\ labels'[p] = labels'[Innermost(LoopsAround(p))]
    BY <1>0, SamePlaces DEF JumpsBound
  <2>1. p \in DOMAIN labels
    BY <1>6, <1>19
  <2>2. /\ LoopsAround(p) # {} /\ Innermost(LoopsAround(p)) \in DOMAIN labels
        /\ labels[p] = labels[Innermost(LoopsAround(p))]
    BY <2>1 DEF Labelled, JumpsBound
  <2> QED BY <1>6, <2>1, <2>2
<1>21. LoopsNumbered'
  <2> SUFFICES ASSUME NEW p \in DOMAIN labels', NEW q \in DOMAIN labels', p # q,
                      IsLoop(NodeAt(p)), IsLoop(NodeAt(q))
               PROVE  labels'[p] # labels'[q]
    BY <1>0, SamePlaces DEF LoopsNumbered
  <2>1. \A r \in DOMAIN labels : labels'[r] = labels[r] /\ labels[r] \in Nat
                                   /\ labels[r] < loop_id_counter
    BY <1>6 DEF Labelled, NumbersUsed
  <2>2. CASE p = Place
    BY <1>4, <1>6, <2>1, <2>2
  <2>3. CASE q = Place
    BY <1>4, <1>6, <2>1, <2>3
  <2>4. CASE p # Place /\ q # Place
    <3>1. p \in DOMAIN labels /\ q \in DOMAIN labels
      BY <1>6, <2>4
    <3> QED BY <2>1, <3>1 DEF Labelled, LoopsNumbered
  <2> QED BY <2>2, <2>3, <2>4
<1>22. NumbersUsed'
  <2>1. \A r \in DOMAIN labels : labels'[r] = labels[r] /\ labels[r] \in Nat
                                   /\ labels[r] < loop_id_counter
    BY <1>6 DEF Labelled, NumbersUsed
  <2>2. \A r \in DOMAIN labels' : labels'[r] \in Nat /\ labels'[r] < loop_id_counter + 1
    BY <1>4, <1>6, <2>1
  <2>3. DOMAIN labels' \subseteq Seq(Nat)
    BY <1>3, <1>4, <1>6
  <2>4. loop_id_counter' = loop_id_counter + 1 /\ loop_id_counter + 1 \in Nat
    BY <1>0, <1>4
  <2> QED BY <2>2, <2>3, <2>4 DEF NumbersUsed
<1>23. ErrorsRight'
  BY <1>0, SamePlaces DEF Labelled, ErrorsRight
<1> QED BY <1>18, <1>20, <1>21, <1>22, <1>23 DEF Labelled

\* A jump gets the number on top of the stack, if there is one.
LEMMA AnalyzeJumpStep ==
  ASSUME NEW Nodes, AreTrees(Nodes), Walking(Nodes), Labelled, AnalyzeJump
  PROVE  Walking(Nodes)' /\ Labelled'
<1>1. /\ unit' = unit /\ loop_id_counter' = loop_id_counter /\ loop_ids' = loop_ids
      /\ Replace(<<>>) /\ Doing("visit") /\ IsJump(Head(todo).node)
  BY DEF AnalyzeJump, Analyzing, Visiting, IsJump
<1>2. PICK depth : Depths(depth)
  BY DEF Walking
<1>3. /\ todo # <<>> /\ Head(todo) = todo[1] /\ Visits(todo[1]) /\ Place = todo[1].place
      /\ todo[1].node = NodeAt(Place) /\ Place \in Seq(Nat)
      /\ Place \notin DOMAIN labels
      /\ AfterHead(depth) = Len(loop_ids) /\ InLoop(Place, Len(loop_ids))
  BY <1>1, <1>2, HeadVisited
<1>4. /\ loop_ids \in Seq(Nat) /\ Len(loop_ids) \in Nat /\ loop_id_counter \in Nat
      /\ DOMAIN labels \subseteq Seq(Nat)
  BY DEF Walking, Labelled, NumbersUsed
<1>5. PICK items : items = <<>>
  OBVIOUS
<1>6. items \in Seq(Entries(Nodes)) /\ Replace(items) /\ DOMAIN items = {}
  BY <1>1, <1>5
<1>7. /\ LocatedItems(items) /\ BelowHead(items) /\ Disjoint(items)
      /\ AtDepth(items, Len(loop_ids'))
      /\ AfterItems(items, Len(loop_ids')) = AfterHead(depth)
  BY <1>1, <1>3, <1>5, <1>6 DEF LocatedItems, BelowHead, Disjoint, AtDepth, AfterItems
<1>8. NumbersKept(AfterHead(depth)) /\ NumbersUsed
  BY <1>1 DEF NumbersKept, Labelled
<1>9. ASSUME OnlyHeadLabelled, LabelsKept PROVE Walking(Nodes)'
  BY <1>1, <1>2, <1>3, <1>4, <1>6, <1>7, <1>8, <1>9, WalkingAfter
<1>10. CASE loop_ids = <<>>
  <2>1. errors' = errors \cup {Place} /\ labels' = labels
    BY <1>10 DEF AnalyzeJump
  <2>2. LoopsAround(Place) = {}
    BY <1>3, <1>10 DEF InLoop, InLoops
  <2>3. OnlyHeadLabelled /\ LabelsKept
    BY <2>1 DEF OnlyHeadLabelled, LabelsKept
  <2>4. ErrorsRight'
    <3>1. \A p \in errors' : LoopsAround(p) = {}
      BY <2>1, <2>2 DEF Labelled, ErrorsRight
    <3> QED BY <1>1, <3>1, SamePlaces DEF ErrorsRight
  <2>5. JumpsBound' /\ LoopsNumbered' /\ NumbersUsed'
    BY <1>1, <2>1, SamePlaces DEF Labelled, JumpsBound, LoopsNumbered, NumbersUsed
  <2> QED BY <1>9, <2>3, <2>4, <2>5 DEF Labelled
<1>11. CASE loop_ids # <<>>
  <2>1. SetLabel(Last(loop_ids)) /\ errors' = errors
    BY <1>11 DEF AnalyzeJump
  <2>2. Len(loop_ids) # 0 /\ Last(loop_ids) = loop_ids[Len(loop_ids)]
    BY <1>4, <1>11 DEF Last
  <2>3. /\ DOMAIN labels' = DOMAIN labels \cup {Place}
        /\ labels'[Place] = loop_ids[Len(loop_ids)]
        /\ \A p \in DOMAIN labels : labels'[p] = labels[p]
    BY <1>3, <2>1, <2>2 DEF SetLabel
  <2>4. OnlyHeadLabelled /\ LabelsKept
    BY <1>3, <2>3 DEF OnlyHeadLabelled, LabelsKept
  <2>5. /\ LoopsAround(Place) # {} /\ Innermost(LoopsAround(Place)) \in DOMAIN labels
        /\ labels'[Place] = labels[Innermost(LoopsAround(Place))]
    BY <1>3, <2>2, <2>3 DEF InLoop, InLoops
  <2>6. IsJump(NodeAt(Place)) /\ ~IsLoop(NodeAt(Place))
    BY <1>1, <1>3 DEF IsLoop, IsJump
  <2>7. JumpsBound'
    <3> SUFFICES ASSUME NEW p \in DOMAIN labels', IsJump(NodeAt(p))
                 PROVE  /\ LoopsAround(p) # {}
                        /\ Innermost(LoopsAround(p)) \in DOMAIN labels'
                        /\ labels'[p] = labels'[Innermost(LoopsAround(p))]
      BY <1>1, SamePlaces DEF JumpsBound
    <3>1. CASE p \in DOMAIN labels
      <4>1. /\ LoopsAround(p) # {} /\ Innermost(LoopsAround(p)) \in DOMAIN labels
            /\ labels[p] = labels[Innermost(LoopsAround(p))]
        BY <3>1 DEF Labelled, JumpsBound
      <4> QED BY <2>3, <3>1, <4>1
    <3>2. CASE p = Place
      BY <2>3, <2>5, <3>2
    <3> QED BY <2>3, <3>1, <3>2
  <2>8. LoopsNumbered'
    <3> SUFFICES ASSUME NEW p \in DOMAIN labels', NEW q \in DOMAIN labels', p # q,
                        IsLoop(NodeAt(p)), IsLoop(NodeAt(q))
                 PROVE  labels'[p] # labels'[q]
      BY <1>1, SamePlaces DEF LoopsNumbered
    <3>1. p \in DOMAIN labels /\ q \in DOMAIN labels
      BY <2>3, <2>6
    <3> QED BY <2>3, <3>1 DEF Labelled, LoopsNumbered
  <2>9. NumbersUsed'
    <3>1. \A r \in DOMAIN labels : labels[r] \in Nat /\ labels[r] < loop_id_counter
      BY DEF Labelled, NumbersUsed
    <3> QED BY <1>1, <1>3, <1>4, <2>3, <2>5, <3>1 DEF NumbersUsed
  <2>10. ErrorsRight'
    BY <1>1, <2>1, SamePlaces DEF Labelled, ErrorsRight
  <2> QED BY <1>9, <2>4, <2>7, <2>8, <2>9, <2>10 DEF Labelled
<1> QED BY <1>10, <1>11

-----------------------------------------------------------------------------
\* Everything else.

\* Nothing is left to do: the labels are final.
LEMMA FinishAnalysisStep ==
  ASSUME Labelled, FinishAnalysis
  PROVE  Labelled' /\ phase' # "analyze"
<1>1. /\ unit' = unit /\ labels' = labels /\ errors' = errors
      /\ loop_id_counter' = loop_id_counter /\ phase' # "analyze"
  BY DEF FinishAnalysis, analyzer
<1> QED BY <1>1, SamePlaces
        DEF Labelled, JumpsBound, LoopsNumbered, NumbersUsed, ErrorsRight

Analysis == AnalyzeLoop \/ LeaveLoop \/ AnalyzeJump \/ AnalyzeOther \/ FinishAnalysis

\* The code is generated when the analysis is over.
LEMMA IsGenerating ==
  ASSUME Compile, ~Analysis, ~FinishGeneration
  PROVE  Generating
<1>1. VisitFunctionDefinition => Generating
  BY DEF VisitFunctionDefinition
<1>2. VisitSequence => Generating
  BY DEF VisitSequence
<1>3. VisitSelection => Generating
  BY DEF VisitSelection
<1>4. VisitJump => Generating
  BY DEF VisitJump
<1>5. VisitWhile => Generating
  BY DEF VisitWhile
<1>6. VisitDoWhile => Generating
  BY DEF VisitDoWhile
<1>7. VisitFor => Generating
  BY DEF VisitFor
<1>8. VisitReturn => Generating
  BY DEF VisitReturn
<1>9. VisitDeclarator => Generating
  BY DEF VisitDeclarator
<1>10. VisitPrimary => Generating
  BY DEF VisitPrimary
<1>11. VisitUnary => Generating
  BY DEF VisitUnary
<1>12. VisitBinary => Generating
  BY DEF VisitBinary
<1>13. VisitCall => Generating
  BY DEF VisitCall
<1>14. VisitAssignment => Generating
  BY DEF VisitAssignment
<1>15. VisitPointer => Generating
  BY DEF VisitPointer
<1>16. ProcessBinaryOr => Generating
  BY DEF ProcessBinaryOr, ShortCircuit
<1>17. ProcessBinaryAnd => Generating
  BY DEF ProcessBinaryAnd, ShortCircuit
<1>18. VisitConditional => Generating
  BY DEF VisitConditional
<1>19. EmitInstruction => Generating
  BY DEF EmitInstruction
<1>20. EmitInstructionWithTop => Generating
  BY DEF EmitInstructionWithTop
<1>21. PushOperand => Generating
  BY DEF PushOperand
<1>22. ConvertTop => Generating
  BY DEF ConvertTop
<1>23. EmitBinary => Generating
  BY DEF EmitBinary
<1>24. EmitAssignment => Generating
  BY DEF EmitAssignment
<1>25. EmitAddress => Generating
  BY DEF EmitAddress
<1> QED
  BY <1>1, <1>2, <1>3, <1>4, <1>5, <1>6, <1>7, <1>8, <1>9, <1>10, <1>11,
     <1>12, <1>13, <1>14, <1>15, <1>16, <1>17, <1>18, <1>19, <1>20, <1>21,
     <1>22, <1>23, <1>24, <1>25 DEF Compile, Analysis

LEMMA AnalysisOver ==
  ASSUME Compile, ~Analysis
  PROVE  phase' \in {"visit", "compiled"}
<1>1. Generating \/ FinishGeneration => phase' \in {"visit", "compiled"}
  BY DEF Generating, FinishGeneration
<1> QED BY <1>1, IsGenerating

\* Every step keeps the invariant.
LEMMA StepIInv ==
  ASSUME NEW Nodes, AreTrees(Nodes), IInv(Nodes), [Next]_vars
  PROVE  IInv(Nodes)'
<1>1. CASE Compiling /\ Analysis
  <2>1. phase = "analyze"
    BY <1>1 DEF Analysis, AnalyzeLoop, LeaveLoop, AnalyzeJump, AnalyzeOther, Analyzing,
                FinishAnalysis
  <2>2. Walking(Nodes) /\ Labelled
    BY <2>1 DEF IInv
  <2>3. CASE FinishAnalysis
    BY <2>2, <2>3, FinishAnalysisStep DEF IInv
  <2>4. CASE ~FinishAnalysis
    <3>1. Walking(Nodes)' /\ Labelled'
      BY <1>1, <2>2, <2>4, AnalyzeLoopStep, LeaveLoopStep, AnalyzeJumpStep, AnalyzeOtherStep
      DEF Analysis
    <3> QED BY <3>1 DEF IInv
  <2> QED BY <2>3, <2>4
<1>2. CASE Compiling /\ ~Analysis
  BY <1>2, AnalysisOver DEF Compiling, IInv
<1>3. CASE Optimizing \/ Execute \/ RunSilently \/ \E v \in Answers : CallReturns(v)
  <2>1. phase' \in {"compiled", "run"}
    BY <1>3 DEF Optimizing, Execute, RunSilently, CallReturns, compiler
  <2> QED BY <2>1 DEF IInv
<1>4. CASE Stopped \/ UNCHANGED vars
  <2>1. /\ unit' = unit /\ phase' = phase /\ todo' = todo /\ loop_ids' = loop_ids
        /\ loop_id_counter' = loop_id_counter /\ labels' = labels /\ errors' = errors
    BY <1>4 DEF Stopped, vars, compiler, analyzer
  <2>2. Labelled => Labelled'
    BY <2>1, SamePlaces DEF Labelled, JumpsBound, LoopsNumbered, NumbersUsed, ErrorsRight
  <2>3. Walking(Nodes) => Walking(Nodes)'
    <3>1. ASSUME NEW depth, Depths(depth) PROVE Depths(depth)'
      <4>1. ASSUME NEW i
            PROVE  InLoop(todo[i].place, depth[i])' = InLoop(todo[i].place, depth[i])
        <5>1. LoopsAround(todo[i].place)' = LoopsAround(todo[i].place)
          BY <2>1 DEF LoopsAround, NodeAt
        <5> QED BY <2>1, <5>1 DEF InLoop
      <4> QED BY <2>1, <3>1, <4>1 DEF Depths, Visits
    <3>2. Located => Located'
      <4>1. ASSUME NEW i
            PROVE  /\ IsPlace(todo[i].place)' = IsPlace(todo[i].place)
                   /\ NodeAt(todo[i].place)' = NodeAt(todo[i].place)
        BY <2>1 DEF IsPlace, Path, NodeAt
      <4> QED BY <2>1, <4>1 DEF Located, Visits
    <3>3. Fresh => Fresh'
      BY <2>1 DEF Fresh, Visits, Extends
    <3> QED BY <2>1, <3>1, <3>2, <3>3 DEF Walking, Entries, Do
  <2> QED BY <2>1, <2>2, <2>3 DEF IInv
<1> QED BY <1>1, <1>2, <1>3, <1>4 DEF Next

\* For all programs, however deep their loops are nested: LoopAnalyzer binds
\* every break and continue to the innermost loop around it, gives different
\* loops different numbers, and reports only jumps that are in no loop.
THEOREM JumpsBindRight ==
  ASSUME NEW CONSTANT Nodes, AreTrees(Nodes)
  PROVE  Spec => []JumpsBindInnermostLoop
<1>1. Init => IInv(Nodes)
  BY StartsWalking
<1>2. IInv(Nodes) /\ [Next]_vars => IInv(Nodes)'
  BY StepIInv
<1>3. IInv(Nodes) => JumpsBindInnermostLoop
  BY IInvJumps
<1> QED BY <1>1, <1>2, <1>3, PTL DEF Spec

-----------------------------------------------------------------------------
\* Code generation: the labels that are defined and jumped to.

\* What the parser builds: a unit of function definitions, which are nowhere
\* else, and statements and expressions with the parts that are visited.
IsFunction(node) == node.kind = "function"
HasParts(node, kinds, n) == node.kind \in kinds => Len(node.parts) >= n
AreParsed(Nodes) ==
  /\ \A node \in Nodes :
       /\ HasParts(node, {"not", "address", "dereference"}, 1)
       /\ HasParts(node, {"if", "while", "dowhile", "equal", "or", "and", "assignment"}, 2)
       /\ HasParts(node, {"ifelse", "conditional"}, 3)
       /\ HasParts(node, {"for"}, 4)
       /\ IsJump(node) => node.parts = <<>>
       /\ \A i \in DOMAIN node.parts : ~IsFunction(node.parts[i])
  /\ \A program \in Programs : \A i \in DOMAIN program : IsFunction(program[i])

IsSequence(s) == \E S : s \in Seq(S)

\* The label an item of todo will define, or an instruction jump to.
Emits(item)        == item.do \in {"emit", "emit with top"}
Marks(item, l)     == item.do = "emit" /\ IsLabel(item.instruction) /\ item.instruction.label = l
JumpsTo(item, l) == Emits(item) /\ IsBranch(item.instruction) /\ item.instruction.label = l

\* A label is at index of the code of function f, or will be at index of todo
\* if f is 0; and so is a jump.
Current == Len(instructions)
MarkAt(f, i, l) ==
  \/ f = 0 /\ i \in DOMAIN todo /\ Marks(todo[i], l)
  \/ /\ f \in DOMAIN instructions /\ i \in DOMAIN instructions[f]
     /\ IsLabel(instructions[f][i]) /\ instructions[f][i].label = l
JumpAt(f, i, l) ==
  \/ f = 0 /\ i \in DOMAIN todo /\ JumpsTo(todo[i], l)
  \/ /\ f \in DOMAIN instructions /\ i \in DOMAIN instructions[f]
     /\ IsBranch(instructions[f][i]) /\ instructions[f][i].label = l

\* A label of the function that is being translated.
Known(l) == \E f \in {0, Current} : \E i : MarkAt(f, i, l)

FunctionItem(item) == Visits(item) /\ IsFunction(item.node)

Good(Nodes, item) ==
  /\ Visits(item) => /\ IsPlace(item.place) /\ item.node = NodeAt(item.place)
                     /\ item.node \in Nodes
  /\ Emits(item) =>
       \E op, l, dst, lhs, rhs : item.instruction = TAC(op, l, dst, lhs, rhs)
  /\ item.do = "emit with top" => ~IsLabel(item.instruction)

Shaped(Nodes) ==
  /\ IsSequence(todo) /\ \A i \in DOMAIN todo : Good(Nodes, todo[i])
  /\ IsSequence(instructions) /\ \A f \in DOMAIN instructions : IsSequence(instructions[f])
  /\ label_id \in Nat

Apart == \A i, j \in DOMAIN todo : i # j /\ Visits(todo[i]) /\ Visits(todo[j]) =>
           ~Extends(todo[i].place, todo[j].place)

\* A function is translated to its end before the next one is begun.
OneByOne ==
  /\ \A i, j \in DOMAIN todo : i < j /\ FunctionItem(todo[i]) => FunctionItem(todo[j])
  /\ Current = 0 => \A i \in DOMAIN todo : FunctionItem(todo[i])
  /\ \A i \in DOMAIN todo : FunctionItem(todo[i]) => LoopsAround(todo[i].place) = {}

\* Labels have the number of a loop whose visit has begun, or one that the
\* visitor's counter has passed.
LoopLabels    == {"break", "continue", "start"}
CounterLabels == {"else", "end", "true", "false"}
Begun(p) == \A i \in DOMAIN todo : Visits(todo[i]) => ~Extends(p, todo[i].place)
Given(l) ==
  \/ l.kind \in CounterLabels /\ l.id \in Nat /\ l.id < label_id
  \/ /\ l.kind \in LoopLabels
     /\ \E p \in DOMAIN labels : IsLoop(NodeAt(p)) /\ Begun(p) /\ l.id = labels[p]

MarksGiven  == \A f, i, l : MarkAt(f, i, l) => Given(l)
MarksUnique == \A f, g, i, j, l : MarkAt(f, i, l) /\ MarkAt(g, j, l) => f = g /\ i = j
JumpsKnown  ==
  \A f, i, l : JumpAt(f, i, l) => IF f \in {0, Current} THEN Known(l)
                                  ELSE \E j : MarkAt(f, j, l)
\* The loop around what is to be visited has its labels.
LoopKnown(loops) ==
  loops # {} => /\ Known(Name("break", labels[Innermost(loops)]))
                /\ Known(Name("continue", labels[Innermost(loops)]))
LoopsKnown == \A i \in DOMAIN todo : Visits(todo[i]) => LoopKnown(LoopsAround(todo[i].place))

\* Every loop and every jump has been labelled.
Bound ==
  /\ \A p : IsPlace(p) /\ (IsLoop(NodeAt(p)) \/ IsJump(NodeAt(p))) => p \in DOMAIN labels
  /\ JumpsBound /\ LoopsNumbered /\ DOMAIN labels \subseteq Seq(Nat)

Writing(Nodes) ==
  Shaped(Nodes) /\ Apart /\ OneByOne /\ MarksGiven /\ MarksUnique /\ JumpsKnown /\ LoopsKnown /\ Bound

\* Before: every loop and jump is labelled, reported, or still to be visited.
Covered ==
  /\ \A p : IsPlace(p) /\ (IsLoop(NodeAt(p)) \/ IsJump(NodeAt(p))) =>
       p \in DOMAIN labels \cup errors
         \/ \E i \in DOMAIN todo : Visits(todo[i]) /\ Extends(p, todo[i].place)
  /\ instructions = <<>> /\ label_id = 0

JInv(Nodes) ==
  /\ unit \in Seq(Nodes)
  /\ unit \in Programs
  /\ phase = "analyze" => Covered
  /\ phase = "visit" => Writing(Nodes)
  /\ phase = "compiled" /\ ~optimize => JumpsResolve

-----------------------------------------------------------------------------
\* The items that the visitor makes.

MarkItem(Nodes, item, l) ==
  Good(Nodes, item) /\ ~Visits(item) /\ \A m : (Marks(item, m) <=> m = l) /\ ~JumpsTo(item, m)
JumpItem(Nodes, item, l) ==
  Good(Nodes, item) /\ ~Visits(item) /\ \A m : (JumpsTo(item, m) <=> m = l) /\ ~Marks(item, m)
PlainItem(Nodes, item) ==
  Good(Nodes, item) /\ ~Visits(item) /\ \A m : ~Marks(item, m) /\ ~JumpsTo(item, m)

Emitting(Nodes, item, op, l) ==
  /\ Good(Nodes, item) /\ ~Visits(item)
  /\ \A m : Marks(item, m) <=> op = "label" /\ m = l
  /\ \A m : JumpsTo(item, m) <=> op \in Branches /\ m = l

\* An instruction that is emitted as it is, or with an operand from the stack.
LEMMA EmitItem ==
  ASSUME NEW Nodes, NEW op, NEW l, NEW dst, NEW lhs, NEW rhs, NEW item,
         \/ item = Emit(TAC(op, l, dst, lhs, rhs))
         \/ item = EmitWithTop(TAC(op, l, dst, lhs, rhs)) /\ op # "label"
  PROVE  Emitting(Nodes, item, op, l)
<1> DEFINE tac == TAC(op, l, dst, lhs, rhs)
<1>0. tac.op = op /\ tac.label = l
  BY DEF TAC
<1> HIDE DEF tac
<1>1. /\ item.do \in {"emit", "emit with top"} /\ item.instruction = tac
      /\ item.do = "emit with top" => op # "label"
  <2>1. CASE item = Emit(tac)
    <3>1. item.do = "emit" /\ item.instruction = tac
      BY <2>1 DEF Emit
    <3> QED BY <3>1
  <2>2. CASE item = EmitWithTop(tac) /\ op # "label"
    <3>1. item.do = "emit with top" /\ item.instruction = tac
      BY <2>2 DEF EmitWithTop
    <3> QED BY <2>2, <3>1
  <2> QED BY <2>1, <2>2 DEF tac
<1>2. item.instruction.op = op /\ item.instruction.label = l
  BY <1>0, <1>1
<1>3. item.do = "emit with top" => op # "label"
  BY <1>1
<1>4. ~Visits(item) /\ Emits(item)
  BY <1>1 DEF Visits, Emits
<1>5. Good(Nodes, item)
  BY <1>1, <1>2, <1>3, <1>4 DEF Good, IsLabel, tac
<1>6. \A m : Marks(item, m) <=> op = "label" /\ m = l
  BY <1>1, <1>2, <1>3 DEF Marks, IsLabel
<1>7. \A m : JumpsTo(item, m) <=> op \in Branches /\ m = l
  BY <1>2, <1>4 DEF JumpsTo, IsBranch
<1> QED BY <1>4, <1>5, <1>6, <1>7 DEF Emitting

LEMMA MarkIsMark ==
  ASSUME NEW Nodes, NEW l, NEW item, item = Mark(l)
  PROVE  MarkItem(Nodes, item, l)
<1>1. item = Emit(TAC("label", l, NoOperand, NoOperand, NoOperand))
  BY DEF Mark, Label
<1>2. "label" \notin Branches
  BY DEF Branches
<1>3. Emitting(Nodes, item, "label", l)
  BY <1>1, EmitItem, Zenon
<1> QED BY <1>2, <1>3 DEF MarkItem, Emitting

LEMMA JumpIsJump ==
  ASSUME NEW Nodes, NEW l, NEW item, NEW op,
         item = Jump(l) \/ (item = EmitWithTop(Branch(op, l, NoOperand)) /\ op \in {"if", "iffalse"})
  PROVE  JumpItem(Nodes, item, l)
<1>1. CASE item = Jump(l)
  <2>1. item = Emit(TAC("goto", l, NoOperand, NoOperand, NoOperand))
    BY <1>1 DEF Jump, GoTo
  <2>2. "goto" \in Branches /\ "goto" # "label"
    BY DEF Branches
  <2>3. Emitting(Nodes, item, "goto", l)
    BY <2>1, EmitItem, Zenon
  <2> QED BY <2>2, <2>3 DEF JumpItem, Emitting
<1>2. CASE item = EmitWithTop(Branch(op, l, NoOperand)) /\ op \in {"if", "iffalse"}
  <2>1. item = EmitWithTop(TAC(op, l, NoOperand, NoOperand, NoOperand))
    BY <1>2 DEF Branch
  <2>2. op \in Branches /\ op # "label"
    BY <1>2 DEF Branches
  <2>3. Emitting(Nodes, item, op, l)
    BY <2>1, <2>2, EmitItem, Zenon
  <2> QED BY <2>2, <2>3 DEF JumpItem, Emitting
<1> QED BY <1>1, <1>2

\* Everything else that is no visit.
LEMMA PlainIsPlain ==
  ASSUME NEW Nodes, NEW item, NEW op, NEW l, NEW dst, NEW lhs, NEW rhs,
         \/ item = Emit(TAC(op, l, dst, lhs, rhs)) /\ op \notin Branches \cup {"label"}
         \/ item = EmitWithTop(TAC(op, l, dst, lhs, rhs)) /\ op \notin Branches \cup {"label"}
         \/ item = Push(dst)
         \/ item = Do(op) /\ op \notin {"visit", "emit", "emit with top"}
  PROVE  PlainItem(Nodes, item)
<1> DEFINE Made == \/ item = Emit(TAC(op, l, dst, lhs, rhs))
                   \/ item = EmitWithTop(TAC(op, l, dst, lhs, rhs))
           Other == item = Push(dst) \/ (item = Do(op) /\ op \notin {"visit", "emit", "emit with top"})
<1>0. (Made /\ op \notin Branches \cup {"label"}) \/ Other
  OBVIOUS
<1>1. CASE Made /\ op \notin Branches \cup {"label"}
  <2>1. op \notin Branches /\ op # "label"
    BY <1>1
  <2>2. \/ item = Emit(TAC(op, l, dst, lhs, rhs))
        \/ item = EmitWithTop(TAC(op, l, dst, lhs, rhs)) /\ op # "label"
    BY <1>1
  <2>3. Emitting(Nodes, item, op, l)
    BY <2>2, EmitItem, Zenon
  <2> QED BY <2>1, <2>3, Zenon DEF PlainItem, Emitting
<1>2. CASE Other
  <2>1. item.do \notin {"visit", "emit", "emit with top"}
    <3>1. CASE item = Push(dst)
      <4>1. item.do = "push"
        BY <3>1 DEF Push
      <4> QED BY <4>1
    <3>2. CASE item = Do(op) /\ op \notin {"visit", "emit", "emit with top"}
      <4>1. item.do = op
        BY <3>2 DEF Do
      <4> QED BY <3>2, <4>1
    <3> QED BY <1>2, <3>1, <3>2
  <2>2. item.do # "visit" /\ item.do # "emit" /\ item.do # "emit with top"
    BY <2>1
  <2>3. ~Visits(item) /\ ~Emits(item) /\ \A m : ~Marks(item, m) /\ ~JumpsTo(item, m)
    BY <2>2 DEF Visits, Emits, Marks, JumpsTo
  <2>4. Good(Nodes, item)
    BY <2>2, <2>3 DEF Good
  <2> QED BY <2>3, <2>4, Zenon DEF PlainItem
<1> HIDE DEF Made, Other
<1> QED BY <1>0, <1>1, <1>2

\* A visit of a part of the head of todo.
PartItem(Nodes, item, c) ==
  /\ Good(Nodes, item) /\ Visits(item) /\ ~FunctionItem(item)
  /\ c \in Nat /\ item.place = Append(todo[1].place, c)
  /\ LoopsAround(item.place)
       = LoopsAround(todo[1].place) \cup (IF IsLoop(todo[1].node) THEN {todo[1].place} ELSE {})
  /\ \A m : ~Marks(item, m) /\ ~JumpsTo(item, m)

LEMMA ChildIsPart ==
  ASSUME NEW Nodes, AreTrees(Nodes), AreParsed(Nodes), Good(Nodes, todo[1]), Visits(todo[1]),
         NEW c \in DOMAIN todo[1].node.parts, NEW item, item = Children(todo[1])[c]
  PROVE  PartItem(Nodes, item, c)
<1> DEFINE p == todo[1].place
           node == todo[1].node
<1>1. IsPlace(p) /\ node = NodeAt(p) /\ node \in Nodes
  BY DEF Good
<1>2. node.parts \in Seq(Nodes)
  BY <1>1 DEF AreTrees
<1>3. c \in Nat /\ node.parts[c] \in Nodes
  BY <1>2
<1>4. item = Visit(node.parts[c], Append(p, c))
  BY DEF Children
<1>5. Visits(item) /\ item.node = node.parts[c] /\ item.place = Append(p, c)
  BY <1>4 DEF Visit, Visits
<1>6. /\ IsPlace(Append(p, c)) /\ NodeAt(Append(p, c)) = node.parts[c]
      /\ LoopsAround(Append(p, c)) = LoopsAround(p) \cup (IF IsLoop(node) THEN {p} ELSE {})
  BY <1>1, <1>3, ChildPlace
<1>7. ~FunctionItem(item)
  BY <1>1, <1>5 DEF FunctionItem, AreParsed
<1>8. ~Emits(item) /\ item.do # "emit" /\ item.do # "emit with top"
  BY <1>5 DEF Visits, Emits
<1>9. Good(Nodes, item)
  BY <1>3, <1>5, <1>6, <1>8 DEF Good
<1> QED BY <1>3, <1>5, <1>6, <1>7, <1>8, <1>9 DEF PartItem, Marks, JumpsTo

-----------------------------------------------------------------------------
\* What a step of the visitor does to labels and jumps.

\* Indices of sequences.
LEMMA SequenceFacts ==
  ASSUME NEW s, IsSequence(s)
  PROVE  /\ Len(s) \in Nat /\ DOMAIN s = 1 .. Len(s)
         /\ s \o <<>> = s
         /\ s # <<>> => 1 \in DOMAIN s /\ Len(s) # 0 /\ Head(s) = s[1]
         /\ Len(s) # 0 => s # <<>>
<1>1. PICK S : s \in Seq(S)
  BY DEF IsSequence
<1>2. Len(s) \in Nat /\ DOMAIN s = 1 .. Len(s)
  BY <1>1
<1>3. s \o <<>> = s
  BY <1>1
<1>4. s # <<>> => 1 \in DOMAIN s /\ Len(s) # 0 /\ Head(s) = s[1]
  BY <1>1
<1> QED BY <1>2, <1>3, <1>4

LEMMA JoinedSequences ==
  ASSUME NEW s, IsSequence(s), NEW t, IsSequence(t)
  PROVE  /\ IsSequence(s \o t) /\ DOMAIN (s \o t) = 1 .. Len(s) + Len(t)
         /\ Len(s \o t) = Len(s) + Len(t)
         /\ \A i \in 1 .. Len(s) : (s \o t)[i] = s[i]
         /\ \A i \in 1 .. Len(s) + Len(t) : i > Len(s) => (s \o t)[i] = t[i - Len(s)]
<1>1. PICK S : s \in Seq(S)
  BY DEF IsSequence
<1>2. PICK T : t \in Seq(T)
  BY DEF IsSequence
<1>3. s \in Seq(S \cup T) /\ t \in Seq(S \cup T)
  BY <1>1, <1>2
<1>4. s \o t \in Seq(S \cup T)
  BY <1>3
<1>5. /\ DOMAIN (s \o t) = 1 .. Len(s) + Len(t)
      /\ Len(s \o t) = Len(s) + Len(t)
      /\ \A i \in 1 .. Len(s) : (s \o t)[i] = s[i]
      /\ \A i \in 1 .. Len(s) + Len(t) : i > Len(s) => (s \o t)[i] = t[i - Len(s)]
  BY <1>3
<1> QED BY <1>4, <1>5 DEF IsSequence

LEMMA TailSequence ==
  ASSUME NEW s, IsSequence(s), s # <<>>
  PROVE  /\ IsSequence(Tail(s)) /\ Len(Tail(s)) = Len(s) - 1
         /\ \A i \in 1 .. Len(s) - 1 : Tail(s)[i] = s[i + 1]
<1>1. PICK S : s \in Seq(S)
  BY DEF IsSequence
<1>2. Tail(s) \in Seq(S)
  BY <1>1
<1>3. Len(Tail(s)) = Len(s) - 1 /\ \A i \in 1 .. Len(s) - 1 : Tail(s)[i] = s[i + 1]
  BY <1>1
<1> QED BY <1>2, <1>3 DEF IsSequence

\* What a step writes to the function being translated, if it writes anything.
Written(emitted) ==
  /\ IsSequence(emitted) /\ IsSequence(instructions')
  /\ DOMAIN instructions' = DOMAIN instructions /\ Len(instructions') = Current
  /\ emitted # <<>> => Current # 0
  /\ \A f \in DOMAIN instructions :
       instructions'[f] = IF f = Current THEN instructions[f] \o emitted ELSE instructions[f]

\* It is not, or ends with, what the head of todo is to emit.
Faithful(emitted) ==
  /\ \A i \in DOMAIN emitted : \A l :
       /\ IsLabel(emitted[i]) /\ emitted[i].label = l => i = Len(emitted) /\ Marks(todo[1], l)
       /\ IsBranch(emitted[i]) /\ emitted[i].label = l => i = Len(emitted) /\ JumpsTo(todo[1], l)
  /\ \A l : Marks(todo[1], l) =>
       emitted # <<>> /\ IsLabel(emitted[Len(emitted)]) /\ emitted[Len(emitted)].label = l

\* What replaces the head of todo.
Expanding(Nodes, items) ==
  /\ IsSequence(items)
  /\ Visits(todo[1]) \/ items = <<>>
  /\ \A i \in DOMAIN items : Good(Nodes, items[i]) /\ ~FunctionItem(items[i])
  /\ BelowHead(items) /\ Disjoint(items)

Moving(Nodes, items) ==
  /\ unit' = unit /\ labels' = labels /\ todo # <<>> /\ Replace(items)
  /\ Expanding(Nodes, items)
Stepping(Nodes, items, emitted) == Moving(Nodes, items) /\ Written(emitted) /\ Faithful(emitted)

\* The items that are in todo after a step.
LEMMA TodoAfter ==
  ASSUME IsSequence(todo), todo # <<>>, NEW items, IsSequence(items), Replace(items)
  PROVE  /\ IsSequence(todo') /\ Len(items) \in Nat /\ DOMAIN items = 1 .. Len(items)
         /\ Len(todo) \in Nat \ {0} /\ DOMAIN todo = 1 .. Len(todo)
         /\ DOMAIN todo' = 1 .. Len(items) + Len(todo) - 1
         /\ \A i \in DOMAIN items : i \in DOMAIN todo' /\ todo'[i] = items[i]
         /\ \A i \in DOMAIN todo' : i \notin DOMAIN items =>
              /\ i > Len(items) /\ i - Len(items) + 1 \in 2 .. Len(todo)
              /\ todo'[i] = todo[i - Len(items) + 1]
         /\ \A j \in 2 .. Len(todo) :
              /\ j + Len(items) - 1 \in DOMAIN todo' /\ j + Len(items) - 1 \notin DOMAIN items
              /\ todo'[j + Len(items) - 1] = todo[j]
<1> DEFINE n == Len(items)
<1>1. PICK rest : rest = Tail(todo)
  OBVIOUS
<1>2. todo' = items \o rest
  BY <1>1 DEF Replace
<1>3. /\ Len(todo) \in Nat \ {0} /\ DOMAIN todo = 1 .. Len(todo)
      /\ n \in Nat /\ DOMAIN items = 1 .. n
  BY SequenceFacts
<1>4. /\ IsSequence(rest) /\ Len(rest) = Len(todo) - 1
      /\ \A i \in 1 .. Len(todo) - 1 : rest[i] = todo[i + 1]
  BY <1>1, TailSequence
<1>5. /\ IsSequence(items \o rest) /\ DOMAIN (items \o rest) = 1 .. n + Len(rest)
      /\ \A i \in 1 .. n : (items \o rest)[i] = items[i]
      /\ \A i \in 1 .. n + Len(rest) : i > n => (items \o rest)[i] = rest[i - n]
  BY <1>4, JoinedSequences
<1> HIDE DEF n
<1>6. IsSequence(todo') /\ DOMAIN todo' = 1 .. n + Len(todo) - 1
  BY <1>2, <1>3, <1>4, <1>5 DEF IsSequence
<1>7. \A i \in 1 .. n : i \in DOMAIN todo' /\ todo'[i] = items[i]
  BY <1>2, <1>3, <1>5, <1>6
<1>8. \A i \in DOMAIN todo' : i > n =>
        i - n + 1 \in 2 .. Len(todo) /\ todo'[i] = todo[i - n + 1]
  <2> SUFFICES ASSUME NEW i \in DOMAIN todo', i > n
               PROVE  i - n + 1 \in 2 .. Len(todo) /\ todo'[i] = todo[i - n + 1]
    OBVIOUS
  <2>1. i - n + 1 \in 2 .. Len(todo) /\ i - n \in 1 .. Len(todo) - 1 /\ i \in 1 .. n + Len(rest)
    BY <1>3, <1>4, <1>6
  <2>2. todo'[i] = rest[i - n] /\ rest[i - n] = todo[i - n + 1]
    BY <1>2, <1>4, <1>5, <2>1
  <2> QED BY <2>1, <2>2
<1>9. ASSUME NEW j \in 2 .. Len(todo)
      PROVE  /\ j + n - 1 \in DOMAIN todo' /\ j + n - 1 \notin DOMAIN items
             /\ todo'[j + n - 1] = todo[j]
  <2>1. j + n - 1 \in DOMAIN todo' /\ j + n - 1 > n /\ (j + n - 1) - n + 1 = j
    BY <1>3, <1>6
  <2> QED BY <1>3, <1>8, <2>1
<1>10. \A i \in DOMAIN todo' : i \notin DOMAIN items => i > n
  BY <1>3, <1>6
<1> QED BY <1>3, <1>6, <1>7, <1>8, <1>9, <1>10 DEF n

\* Where labels are after a step: where they were, what todo begins with having
\* moved on, or among the new items.
LEMMA MarksMoved ==
  ASSUME NEW Nodes, Shaped(Nodes), NEW items, NEW emitted, Stepping(Nodes, items, emitted)
  PROVE  /\ Current' = Current /\ 0 \notin DOMAIN instructions
         /\ \A i, l : MarkAt(0, i, l)' <=>
              \/ i \in DOMAIN items /\ Marks(items[i], l)
              \/ /\ i \in Nat /\ i > Len(items) /\ i - Len(items) + 1 \in 2 .. Len(todo)
                 /\ MarkAt(0, i - Len(items) + 1, l)
         /\ \A f, i, l : f # 0 =>
              (MarkAt(f, i, l)' <=>
                 \/ MarkAt(f, i, l)
                 \/ /\ f = Current /\ emitted # <<>> /\ i = Len(instructions[f]) + Len(emitted)
                    /\ MarkAt(0, 1, l))
<1>1. /\ todo # <<>> /\ Replace(items) /\ IsSequence(items) /\ IsSequence(todo)
      /\ IsSequence(instructions) /\ \A f \in DOMAIN instructions : IsSequence(instructions[f])
      /\ Written(emitted) /\ Faithful(emitted) /\ IsSequence(emitted)
  BY DEF Stepping, Moving, Expanding, Shaped, Written
<1>2. /\ Current \in Nat /\ DOMAIN instructions = 1 .. Current /\ 0 \notin DOMAIN instructions
      /\ Current' = Current /\ DOMAIN instructions' = DOMAIN instructions
  <2>1. Current \in Nat /\ DOMAIN instructions = 1 .. Current
    BY <1>1, SequenceFacts DEF Current
  <2>2. Current' = Current /\ DOMAIN instructions' = DOMAIN instructions
    BY <1>1 DEF Written, Current
  <2> QED BY <2>1, <2>2
<1>3. /\ Len(items) \in Nat /\ DOMAIN items = 1 .. Len(items)
      /\ Len(todo) \in Nat \ {0} /\ DOMAIN todo = 1 .. Len(todo)
      /\ \A i \in DOMAIN items : i \in DOMAIN todo' /\ todo'[i] = items[i]
      /\ \A i \in DOMAIN todo' : i \notin DOMAIN items =>
           /\ i > Len(items) /\ i - Len(items) + 1 \in 2 .. Len(todo)
           /\ todo'[i] = todo[i - Len(items) + 1]
      /\ \A j \in 2 .. Len(todo) :
           /\ j + Len(items) - 1 \in DOMAIN todo' /\ j + Len(items) - 1 \notin DOMAIN items
           /\ todo'[j + Len(items) - 1] = todo[j]
      /\ DOMAIN todo' = 1 .. Len(items) + Len(todo) - 1
  BY <1>1, TodoAfter
<1>4. \A i, l : MarkAt(0, i, l) <=> i \in DOMAIN todo /\ Marks(todo[i], l)
  BY <1>2 DEF MarkAt
<1>5. \A i, l : MarkAt(0, i, l)' <=> i \in DOMAIN todo' /\ Marks(todo'[i], l)
  BY <1>2 DEF MarkAt, Marks
<1>6. ASSUME NEW i, NEW l
      PROVE  MarkAt(0, i, l)' <=>
               \/ i \in DOMAIN items /\ Marks(items[i], l)
               \/ /\ i \in Nat /\ i > Len(items) /\ i - Len(items) + 1 \in 2 .. Len(todo)
                  /\ MarkAt(0, i - Len(items) + 1, l)
  <2>1. CASE i \in DOMAIN items
    BY <1>3, <1>5, <2>1
  <2>2. CASE i \notin DOMAIN items
    <3>1. ASSUME i \in DOMAIN todo'
          PROVE  /\ i \in Nat /\ i > Len(items) /\ i - Len(items) + 1 \in 2 .. Len(todo)
                 /\ todo'[i] = todo[i - Len(items) + 1] /\ i - Len(items) + 1 \in DOMAIN todo
      BY <1>3, <2>2, <3>1
    <3>2. ASSUME i \in Nat, i > Len(items), i - Len(items) + 1 \in 2 .. Len(todo)
          PROVE  i \in DOMAIN todo'
      <4>1. (i - Len(items) + 1) + Len(items) - 1 = i
        BY <1>3, <3>2
      <4> QED BY <1>3, <3>2, <4>1
    <3> QED BY <1>4, <1>5, <2>2, <3>1, <3>2
  <2> QED BY <2>1, <2>2
<1>7. ASSUME NEW f, f # 0, NEW i, NEW l
      PROVE  MarkAt(f, i, l)' <=>
               \/ MarkAt(f, i, l)
               \/ /\ f = Current /\ emitted # <<>> /\ i = Len(instructions[f]) + Len(emitted)
                  /\ MarkAt(0, 1, l)
  <2> DEFINE Is(instruction) == IsLabel(instruction) /\ instruction.label = l
  <2>1. MarkAt(f, i, l) <=> f \in DOMAIN instructions /\ i \in DOMAIN instructions[f]
                              /\ Is(instructions[f][i])
    BY <1>7 DEF MarkAt
  <2>2. MarkAt(f, i, l)' <=> f \in DOMAIN instructions /\ i \in DOMAIN instructions'[f]
                               /\ Is(instructions'[f][i])
    BY <1>2, <1>7 DEF MarkAt, IsLabel
  <2>3. CASE f \in DOMAIN instructions /\ f = Current
    <3> DEFINE prior == instructions[f]
    <3>1. IsSequence(prior) /\ instructions'[f] = prior \o emitted
      BY <1>1, <2>3 DEF Written
    <3>2. /\ Len(prior) \in Nat /\ DOMAIN prior = 1 .. Len(prior)
          /\ Len(emitted) \in Nat /\ DOMAIN emitted = 1 .. Len(emitted)
          /\ (emitted # <<>> => Len(emitted) # 0)
      BY <1>1, <3>1, SequenceFacts
    <3>3. /\ DOMAIN (prior \o emitted) = 1 .. Len(prior) + Len(emitted)
          /\ \A k \in 1 .. Len(prior) : (prior \o emitted)[k] = prior[k]
          /\ \A k \in 1 .. Len(prior) + Len(emitted) : k > Len(prior) =>
               (prior \o emitted)[k] = emitted[k - Len(prior)]
      BY <1>1, <3>1, JoinedSequences
    <3>4. MarkAt(0, 1, l) <=> Marks(todo[1], l)
      BY <1>3, <1>4
    <3> HIDE DEF prior, Is
    <3>5. \A k \in DOMAIN emitted : Is(emitted[k]) => k = Len(emitted) /\ Marks(todo[1], l)
      BY <1>1 DEF Faithful, Is
    <3>6. Marks(todo[1], l) => emitted # <<>> /\ Is(emitted[Len(emitted)])
      BY <1>1 DEF Faithful, Is
    <3>7. CASE i \in 1 .. Len(prior)
      <4>1. i # Len(prior) + Len(emitted) \/ emitted = <<>>
        BY <3>2, <3>7
      <4>2. i \in DOMAIN (prior \o emitted) /\ (prior \o emitted)[i] = prior[i]
        BY <3>2, <3>3, <3>7
      <4> QED BY <2>1, <2>2, <2>3, <3>1, <3>2, <3>7, <4>1, <4>2 DEF prior
    <3>8. CASE i \notin 1 .. Len(prior)
      <4>1. ~MarkAt(f, i, l)
        BY <2>1, <3>2, <3>8 DEF prior
      <4>2. ASSUME MarkAt(f, i, l)'
            PROVE  emitted # <<>> /\ i = Len(prior) + Len(emitted) /\ MarkAt(0, 1, l)
        <5>1. i \in 1 .. Len(prior) + Len(emitted) /\ Is((prior \o emitted)[i])
          BY <2>2, <3>1, <3>3, <4>2 DEF prior
        <5>2. i > Len(prior) /\ i - Len(prior) \in DOMAIN emitted /\ Is(emitted[i - Len(prior)])
          BY <3>2, <3>3, <3>8, <5>1
        <5>3. i - Len(prior) = Len(emitted) /\ Marks(todo[1], l)
          BY <3>5, <5>2
        <5> QED BY <3>2, <3>4, <3>6, <5>1, <5>3
      <4>3. ASSUME emitted # <<>>, i = Len(prior) + Len(emitted), MarkAt(0, 1, l)
            PROVE  MarkAt(f, i, l)'
        <5>1. /\ i \in 1 .. Len(prior) + Len(emitted) /\ i > Len(prior)
              /\ i - Len(prior) = Len(emitted)
          BY <3>2, <4>3
        <5>2. Is((prior \o emitted)[i])
          BY <3>3, <3>4, <3>6, <4>3, <5>1
        <5> QED BY <2>2, <2>3, <3>1, <3>3, <5>1, <5>2 DEF prior
      <4> QED BY <2>3, <4>1, <4>2, <4>3 DEF prior
    <3> QED BY <3>7, <3>8
  <2>4. CASE f \in DOMAIN instructions /\ f # Current
    <3>1. instructions'[f] = instructions[f]
      BY <1>1, <2>4 DEF Written
    <3> QED BY <2>1, <2>2, <2>4, <3>1
  <2>5. CASE f \notin DOMAIN instructions
    <3>1. f # Current \/ emitted = <<>>
      BY <1>1, <1>2, <1>7, <2>5 DEF Written
    <3> QED BY <2>1, <2>2, <2>5, <3>1
  <2> QED BY <2>3, <2>4, <2>5
<1> QED BY <1>2, <1>6, <1>7

\* Jumps move with them.
LEMMA JumpsMoved ==
  ASSUME NEW Nodes, Shaped(Nodes), NEW items, NEW emitted, Stepping(Nodes, items, emitted)
  PROVE  /\ \A i, l : JumpAt(0, i, l)' =>
              \/ i \in DOMAIN items /\ JumpsTo(items[i], l)
              \/ JumpAt(0, i - Len(items) + 1, l)
         /\ \A f, i, l : f # 0 /\ JumpAt(f, i, l)' =>
              JumpAt(f, i, l) \/ (f = Current /\ JumpAt(0, 1, l))
<1>1. /\ todo # <<>> /\ Replace(items) /\ IsSequence(items) /\ IsSequence(todo)
      /\ \A f \in DOMAIN instructions : IsSequence(instructions[f])
      /\ Written(emitted) /\ Faithful(emitted) /\ IsSequence(emitted)
  BY DEF Stepping, Moving, Expanding, Shaped, Written
<1>2. 0 \notin DOMAIN instructions /\ DOMAIN instructions' = DOMAIN instructions
  BY <1>1, MarksMoved DEF Written
<1>3. /\ 1 \in DOMAIN todo
      /\ \A i \in DOMAIN items : i \in DOMAIN todo' /\ todo'[i] = items[i]
      /\ \A i \in DOMAIN todo' : i \notin DOMAIN items =>
           /\ i - Len(items) + 1 \in DOMAIN todo /\ todo'[i] = todo[i - Len(items) + 1]
  BY <1>1, TodoAfter
<1>4. \A i, l : JumpAt(0, i, l) <=> i \in DOMAIN todo /\ JumpsTo(todo[i], l)
  BY <1>2 DEF JumpAt
<1>5. \A i, l : JumpAt(0, i, l)' <=> i \in DOMAIN todo' /\ JumpsTo(todo'[i], l)
  BY <1>2 DEF JumpAt, JumpsTo, Emits
<1>6. ASSUME NEW i, NEW l, JumpAt(0, i, l)'
      PROVE  \/ i \in DOMAIN items /\ JumpsTo(items[i], l)
             \/ JumpAt(0, i - Len(items) + 1, l)
  BY <1>3, <1>4, <1>5, <1>6
<1>7. ASSUME NEW f, f # 0, NEW i, NEW l, JumpAt(f, i, l)'
      PROVE  JumpAt(f, i, l) \/ (f = Current /\ JumpAt(0, 1, l))
  <2> DEFINE Is(instruction) == IsBranch(instruction) /\ instruction.label = l
  <2>1. JumpAt(f, i, l) <=> f \in DOMAIN instructions /\ i \in DOMAIN instructions[f]
                              /\ Is(instructions[f][i])
    BY <1>7 DEF JumpAt
  <2>2. f \in DOMAIN instructions /\ i \in DOMAIN instructions'[f] /\ Is(instructions'[f][i])
    BY <1>2, <1>7 DEF JumpAt, IsBranch
  <2>3. CASE f = Current
    <3> DEFINE prior == instructions[f]
    <3>1. IsSequence(prior) /\ instructions'[f] = prior \o emitted
      BY <1>1, <2>2, <2>3 DEF Written
    <3>2. /\ Len(prior) \in Nat /\ DOMAIN prior = 1 .. Len(prior)
          /\ Len(emitted) \in Nat /\ DOMAIN emitted = 1 .. Len(emitted)
      BY <1>1, <3>1, SequenceFacts
    <3>3. /\ DOMAIN (prior \o emitted) = 1 .. Len(prior) + Len(emitted)
          /\ \A k \in 1 .. Len(prior) : (prior \o emitted)[k] = prior[k]
          /\ \A k \in 1 .. Len(prior) + Len(emitted) : k > Len(prior) =>
               (prior \o emitted)[k] = emitted[k - Len(prior)]
      BY <1>1, <3>1, JoinedSequences
    <3> HIDE DEF prior, Is
    <3>4. \A k \in DOMAIN emitted : Is(emitted[k]) => JumpsTo(todo[1], l)
      BY <1>1 DEF Faithful, Is
    <3>5. CASE i \in 1 .. Len(prior)
      <4>1. (prior \o emitted)[i] = prior[i]
        BY <3>3, <3>5
      <4> QED BY <2>1, <2>2, <3>1, <3>2, <3>5, <4>1 DEF prior
    <3>6. CASE i \notin 1 .. Len(prior)
      <4>1. i \in 1 .. Len(prior) + Len(emitted) /\ Is((prior \o emitted)[i])
        BY <2>2, <3>1, <3>3 DEF prior
      <4>2. i - Len(prior) \in DOMAIN emitted /\ Is(emitted[i - Len(prior)])
        BY <3>2, <3>3, <3>6, <4>1
      <4> QED BY <1>3, <1>4, <2>3, <3>4, <4>2
    <3> QED BY <3>5, <3>6
  <2>4. CASE f # Current
    <3>1. instructions'[f] = instructions[f]
      BY <1>1, <2>2, <2>4 DEF Written
    <3> QED BY <2>1, <2>2, <3>1
  <2> QED BY <2>3, <2>4
<1> QED BY <1>6, <1>7

\* What is known stays known.
LEMMA KnownStays ==
  ASSUME NEW Nodes, Shaped(Nodes), NEW items, NEW emitted, Stepping(Nodes, items, emitted),
         NEW l, Known(l)
  PROVE  Known(l)'
<1>1. /\ Current' = Current /\ 0 \notin DOMAIN instructions
      /\ \A i : MarkAt(0, i, l)' <=>
           \/ i \in DOMAIN items /\ Marks(items[i], l)
           \/ /\ i \in Nat /\ i > Len(items) /\ i - Len(items) + 1 \in 2 .. Len(todo)
              /\ MarkAt(0, i - Len(items) + 1, l)
      /\ \A f, i : f # 0 =>
           (MarkAt(f, i, l)' <=>
              \/ MarkAt(f, i, l)
              \/ /\ f = Current /\ emitted # <<>> /\ i = Len(instructions[f]) + Len(emitted)
                 /\ MarkAt(0, 1, l))
  BY MarksMoved
<1>2. \A i : MarkAt(0, i, l) <=> i \in DOMAIN todo /\ Marks(todo[i], l)
  BY <1>1 DEF MarkAt
<1>3. /\ todo # <<>> /\ IsSequence(todo) /\ IsSequence(items) /\ Written(emitted)
      /\ Faithful(emitted)
  BY DEF Stepping, Moving, Shaped, Expanding
<1>4. /\ Len(todo) \in Nat /\ DOMAIN todo = 1 .. Len(todo)
      /\ Len(items) \in Nat
  BY <1>3, SequenceFacts
<1>5. PICK f, i : f \in {0, Current} /\ MarkAt(f, i, l)
  BY DEF Known
<1>6. CASE f # 0
  <2>1. MarkAt(f, i, l)' /\ f \in {0, Current}
    BY <1>1, <1>5, <1>6
  <2> QED BY <1>1, <2>1 DEF Known
<1>7. CASE f = 0 /\ i = 1
  <2>1. MarkAt(0, 1, l) /\ Marks(todo[1], l)
    BY <1>2, <1>5, <1>7
  <2>2. emitted # <<>> /\ Current # 0
    BY <1>3, <2>1 DEF Faithful, Written
  <2>3. PICK g, k : g = Current /\ k = Len(instructions[Current]) + Len(emitted)
    OBVIOUS
  <2>4. MarkAt(g, k, l)'
    BY <1>1, <2>1, <2>2, <2>3
  <2>5. g \in {0, Current'}
    BY <1>1, <2>3
  <2> QED BY <2>4, <2>5 DEF Known
<1>8. CASE f = 0 /\ i # 1
  <2>1. i \in 2 .. Len(todo) /\ MarkAt(0, i, l)
    BY <1>2, <1>4, <1>5, <1>8
  <2> DEFINE j == i + Len(items) - 1
  <2>2. j \in Nat /\ j > Len(items) /\ j - Len(items) + 1 = i
    BY <1>4, <2>1
  <2> HIDE DEF j
  <2>3. MarkAt(0, j, l)'
    BY <1>1, <2>1, <2>2
  <2> QED BY <1>1, <2>3 DEF Known
<1> QED BY <1>6, <1>7, <1>8

-----------------------------------------------------------------------------
\* The conjuncts of the invariant after a step.

\* A new label has the number of the loop that is being visited, or the next
\* number of the counter.
New(l) ==
  /\ Visits(todo[1])
  /\ \/ l.kind \in CounterLabels /\ l.id = label_id /\ label_id' > label_id
     \/ l.kind \in LoopLabels /\ IsLoop(todo[1].node) /\ l.id = labels[todo[1].place]

NewMarks(items) ==
  /\ \A i \in DOMAIN items : \A l : Marks(items[i], l) => New(l)
  /\ \A i, j \in DOMAIN items : \A l : Marks(items[i], l) /\ Marks(items[j], l) => i = j
  /\ label_id' \in Nat /\ label_id' >= label_id

\* Places that are to be visited.
LEMMA HeadPlace ==
  ASSUME NEW Nodes, Shaped(Nodes), NEW i \in DOMAIN todo, Visits(todo[i])
  PROVE  /\ IsPlace(todo[i].place) /\ todo[i].place \in Seq(Nat)
         /\ todo[i].node = NodeAt(todo[i].place) /\ todo[i].node \in Nodes
         /\ Extends(todo[i].place, todo[i].place)
<1>1. Good(Nodes, todo[i])
  BY DEF Shaped
<1>2. IsPlace(todo[i].place) /\ todo[i].node = NodeAt(todo[i].place) /\ todo[i].node \in Nodes
  BY <1>1 DEF Good
<1>3. todo[i].place \in Seq(Nat)
  BY <1>2 DEF IsPlace, Path
<1>4. Extends(todo[i].place, todo[i].place)
  BY <1>3 DEF Extends
<1> QED BY <1>2, <1>3, <1>4

\* What a step leaves of the loops whose visit has begun.
LEMMA BegunStays ==
  ASSUME NEW Nodes, Shaped(Nodes), Apart, NEW items, Moving(Nodes, items),
         NEW p \in Seq(Nat), Begun(p) \/ (Visits(todo[1]) /\ p = todo[1].place)
  PROVE  Begun(p)'
<1>1. /\ IsSequence(todo) /\ todo # <<>> /\ Replace(items) /\ IsSequence(items)
      /\ Visits(todo[1]) \/ items = <<>>
      /\ BelowHead(items)
  BY DEF Moving, Expanding, Shaped
<1>2. /\ 1 \in DOMAIN todo
      /\ \A i \in DOMAIN items : i \in DOMAIN todo' /\ todo'[i] = items[i]
      /\ \A i \in DOMAIN todo' : i \notin DOMAIN items =>
           /\ i - Len(items) + 1 \in DOMAIN todo /\ i - Len(items) + 1 # 1
           /\ todo'[i] = todo[i - Len(items) + 1]
  BY <1>1, TodoAfter
<1>3. ASSUME NEW i \in DOMAIN todo', Visits(todo'[i])
      PROVE  ~Extends(p, todo'[i].place)
  <2>1. CASE i \in DOMAIN items
    <3>0. todo'[i] = items[i] /\ Visits(items[i])
      BY <1>2, <1>3, <2>1
    <3>1. PICK c \in Nat : todo'[i].place = Append(todo[1].place, c) /\ Visits(todo[1])
      BY <1>1, <2>1, <3>0 DEF BelowHead
    <3>2. todo[1].place \in Seq(Nat)
      BY <1>2, <3>1, HeadPlace
    <3>3. p = todo[1].place \/ ~Extends(p, todo[1].place)
      BY <1>2, <3>1 DEF Begun
    <3> QED BY <3>1, <3>2, <3>3, ExtendsChild
  <2>2. CASE i \notin DOMAIN items
    <3>1. PICK j \in DOMAIN todo : j # 1 /\ todo'[i] = todo[j]
      BY <1>2, <2>2
    <3> QED BY <1>2, <1>3, <3>1 DEF Begun, Apart
  <2> QED BY <2>1, <2>2
<1> QED BY <1>3 DEF Begun, Visits

\* Places of trees keep what is said of them.
LEMMA LabelsStay ==
  ASSUME unit' = unit, labels' = labels
  PROVE  (Bound => Bound') /\ \A item, Nodes : Good(Nodes, item) => Good(Nodes, item)'
<1>1. \A p : NodeAt(p)' = NodeAt(p) /\ IsPlace(p)' = IsPlace(p)
  BY SamePlaces
<1>2. ASSUME Bound PROVE Bound'
  <2>1. JumpsBound' /\ LoopsNumbered'
    BY <1>2, SamePlaces DEF Bound, JumpsBound, LoopsNumbered
  <2>2. ASSUME NEW p, IsPlace(p)', IsLoop(NodeAt(p))' \/ IsJump(NodeAt(p))'
        PROVE  p \in DOMAIN labels'
    <3>1. IsPlace(p) /\ (IsLoop(NodeAt(p)) \/ IsJump(NodeAt(p)))
      BY <1>1, <2>2 DEF IsLoop, IsJump
    <3> QED BY <1>2, <3>1 DEF Bound
  <2>3. DOMAIN labels' \subseteq Seq(Nat)
    BY <1>2 DEF Bound
  <2> QED BY <2>1, <2>2, <2>3 DEF Bound
<1>3. ASSUME NEW item, NEW Nodes, Good(Nodes, item) PROVE Good(Nodes, item)'
  <2>1. PICK place : place = item.place
    OBVIOUS
  <2>2. NodeAt(place)' = NodeAt(place) /\ IsPlace(place)' = IsPlace(place)
    BY <1>1
  <2> QED BY <1>3, <2>1, <2>2 DEF Good, Visits, Emits
<1> QED BY <1>2, <1>3

LEMMA GivenStays ==
  ASSUME NEW Nodes, Shaped(Nodes), Apart, Bound,
         NEW items, Moving(Nodes, items), NewMarks(items),
         NEW l, Given(l) \/ New(l)
  PROVE  Given(l)'
<1>1. unit' = unit /\ labels' = labels /\ label_id \in Nat /\ label_id' \in Nat /\ label_id' >= label_id
  BY DEF Moving, Shaped, NewMarks
<1>2. todo # <<>> /\ 1 \in DOMAIN todo
  BY SequenceFacts DEF Moving, Shaped
<1>3. CASE l.kind \in CounterLabels /\ l.id \in Nat /\ l.id < label_id'
  BY <1>3 DEF Given
<1>4. ASSUME l.kind \in LoopLabels, NEW p \in DOMAIN labels, IsLoop(NodeAt(p)), l.id = labels[p],
             Begun(p) \/ (Visits(todo[1]) /\ p = todo[1].place)
      PROVE  Given(l)'
  <2>0. p \in Seq(Nat)
    BY DEF Bound
  <2>1. Begun(p)'
    BY <1>4, <2>0, BegunStays
  <2>2. NodeAt(p)' = NodeAt(p)
    BY <1>1, SamePlaces
  <2>3. p \in DOMAIN labels' /\ IsLoop(NodeAt(p)') /\ l.id = labels'[p]
    BY <1>1, <1>4, <2>2
  <2> QED BY <1>4, <2>1, <2>3 DEF Given, IsLoop
<1>5. CASE Given(l)
  <2>1. CASE l.kind \in CounterLabels /\ l.id \in Nat /\ l.id < label_id
    BY <1>1, <1>3, <2>1
  <2>2. CASE /\ l.kind \in LoopLabels
             /\ \E p \in DOMAIN labels : IsLoop(NodeAt(p)) /\ Begun(p) /\ l.id = labels[p]
    BY <1>4, <2>2
  <2> QED BY <1>5, <2>1, <2>2 DEF Given
<1>6. CASE New(l)
  <2>1. CASE l.kind \in CounterLabels /\ l.id = label_id /\ label_id' > label_id
    BY <1>1, <1>3, <2>1
  <2>2. CASE /\ Visits(todo[1]) /\ l.kind \in LoopLabels /\ IsLoop(todo[1].node)
             /\ l.id = labels[todo[1].place]
    <3>1. IsPlace(todo[1].place) /\ todo[1].node = NodeAt(todo[1].place)
      BY <1>2, <2>2, HeadPlace
    <3>2. todo[1].place \in DOMAIN labels
      BY <2>2, <3>1 DEF Bound
    <3> QED BY <1>4, <2>2, <3>1, <3>2
  <2> QED BY <1>6, <2>1, <2>2 DEF New
<1> QED BY <1>5, <1>6

\* A new label differs from every label there is.
LEMMA NewNotGiven ==
  ASSUME NEW Nodes, Shaped(Nodes), todo # <<>>, Bound, NEW l, Given(l)
  PROVE  ~New(l)
<1> SUFFICES ASSUME New(l) PROVE FALSE
  OBVIOUS
<1>1. 1 \in DOMAIN todo /\ Visits(todo[1]) /\ label_id \in Nat
  BY SequenceFacts DEF Shaped, New
<1>2. /\ IsPlace(todo[1].place) /\ todo[1].node = NodeAt(todo[1].place)
      /\ Extends(todo[1].place, todo[1].place)
  BY <1>1, HeadPlace
<1>3. l.kind \in CounterLabels => l.kind \notin LoopLabels
  BY DEF CounterLabels, LoopLabels
<1>4. CASE l.kind \in CounterLabels /\ l.id = label_id
  BY <1>1, <1>3, <1>4 DEF Given
<1>5. CASE l.kind \in LoopLabels /\ IsLoop(todo[1].node) /\ l.id = labels[todo[1].place]
  <2>1. PICK p \in DOMAIN labels : IsLoop(NodeAt(p)) /\ Begun(p) /\ l.id = labels[p]
    BY <1>3, <1>5 DEF Given
  <2>2. todo[1].place \in DOMAIN labels
    BY <1>2, <1>5 DEF Bound
  <2>3. p # todo[1].place
    BY <1>1, <1>2, <2>1 DEF Begun
  <2> QED BY <1>2, <1>5, <2>1, <2>2, <2>3 DEF Bound, LoopsNumbered
<1> QED BY <1>4, <1>5 DEF New

\* All labels are given, and none twice.
LEMMA MarksAfter ==
  ASSUME NEW Nodes, Shaped(Nodes), Apart, Bound, MarksGiven, MarksUnique,
         NEW items, NEW emitted, Stepping(Nodes, items, emitted), NewMarks(items)
  PROVE  MarksGiven' /\ MarksUnique'
<1>1. /\ Current' = Current
      /\ \A i, l : MarkAt(0, i, l)' <=>
           \/ i \in DOMAIN items /\ Marks(items[i], l)
           \/ /\ i \in Nat /\ i > Len(items) /\ i - Len(items) + 1 \in 2 .. Len(todo)
              /\ MarkAt(0, i - Len(items) + 1, l)
      /\ \A f, i, l : f # 0 =>
           (MarkAt(f, i, l)' <=>
              \/ MarkAt(f, i, l)
              \/ /\ f = Current /\ emitted # <<>> /\ i = Len(instructions[f]) + Len(emitted)
                 /\ MarkAt(0, 1, l))
  BY MarksMoved
<1>2. /\ todo # <<>> /\ IsSequence(todo) /\ Written(emitted) /\ IsSequence(items)
  BY DEF Stepping, Moving, Shaped, Expanding
<1>3. Len(items) \in Nat /\ Len(todo) \in Nat
  BY <1>2, SequenceFacts
\* Where a label was that is not new.
<1> DEFINE Old(f, i, g, j) ==
             IF f = 0 THEN g = 0 /\ i \in Nat /\ j = i - Len(items) + 1 /\ j # 1
             ELSE \/ g = f /\ j = i
                  \/ /\ g = 0 /\ j = 1 /\ f = Current
                     /\ emitted # <<>> /\ i = Len(instructions[f]) + Len(emitted)
           Fresh1(f, i, l) == f = 0 /\ i \in DOMAIN items /\ Marks(items[i], l)
<1>4. ASSUME NEW f, NEW i, NEW l, MarkAt(f, i, l)'
      PROVE  Fresh1(f, i, l) \/ \E g, j : Old(f, i, g, j) /\ MarkAt(g, j, l)
  <2>1. CASE f = 0
    <3>1. CASE i \in DOMAIN items /\ Marks(items[i], l)
      BY <2>1, <3>1
    <3>2. CASE /\ i \in Nat /\ i > Len(items) /\ i - Len(items) + 1 \in 2 .. Len(todo)
               /\ MarkAt(0, i - Len(items) + 1, l)
      <4>1. Old(f, i, 0, i - Len(items) + 1)
        BY <1>3, <2>1, <3>2
      <4> QED BY <3>2, <4>1
    <3> QED BY <1>1, <1>4, <2>1, <3>1, <3>2
  <2>2. CASE f # 0 /\ MarkAt(f, i, l)
    <3>1. Old(f, i, f, i)
      BY <2>2
    <3> QED BY <2>2, <3>1
  <2>3. CASE /\ f # 0 /\ f = Current /\ emitted # <<>> /\ i = Len(instructions[f]) + Len(emitted)
             /\ MarkAt(0, 1, l)
    <3>1. Old(f, i, 0, 1)
      BY <2>3
    <3> QED BY <2>3, <3>1
  <2> QED BY <1>1, <1>4, <2>1, <2>2, <2>3
<1>5. ASSUME NEW f, NEW i, NEW g, NEW j, NEW h, NEW k, Old(f, i, h, k), Old(g, j, h, k)
      PROVE  f = g /\ i = j
  BY <1>3, <1>5
<1> HIDE DEF Old, Fresh1
<1>6. \A f, i, l : MarkAt(f, i, l) => Given(l) /\ ~New(l)
  BY <1>2, NewNotGiven DEF MarksGiven
<1>7. \A f, i, l : Fresh1(f, i, l) => New(l)
  BY DEF Fresh1, NewMarks
<1>8. \A f, i, l : MarkAt(f, i, l)' => Given(l)'
  BY <1>4, <1>6, <1>7, GivenStays DEF Stepping
<1>9. ASSUME NEW f, NEW g, NEW i, NEW j, NEW l, MarkAt(f, i, l)', MarkAt(g, j, l)'
      PROVE  f = g /\ i = j
  <2>1. CASE Fresh1(f, i, l) /\ Fresh1(g, j, l)
    BY <2>1 DEF Fresh1, NewMarks
  <2>2. CASE ~Fresh1(f, i, l) /\ ~Fresh1(g, j, l)
    <3>1. PICK h, k : Old(f, i, h, k) /\ MarkAt(h, k, l)
      BY <1>4, <1>9, <2>2
    <3>2. PICK h2, k2 : Old(g, j, h2, k2) /\ MarkAt(h2, k2, l)
      BY <1>4, <1>9, <2>2
    <3>3. h = h2 /\ k = k2
      BY <3>1, <3>2 DEF MarksUnique
    <3> QED BY <1>5, <3>1, <3>2, <3>3
  <2>3. ~(Fresh1(f, i, l) /\ ~Fresh1(g, j, l)) /\ ~(~Fresh1(f, i, l) /\ Fresh1(g, j, l))
    BY <1>4, <1>6, <1>7, <1>9
  <2> QED BY <2>1, <2>2, <2>3
<1> QED BY <1>8, <1>9 DEF MarksGiven, MarksUnique

\* New jumps go to labels that are known, or new with them.
NewJumps(items) ==
  \A i \in DOMAIN items : \A l : JumpsTo(items[i], l) =>
    Known(l) \/ \E j \in DOMAIN items : Marks(items[j], l)

LEMMA JumpsAfter ==
  ASSUME NEW Nodes, Shaped(Nodes), JumpsKnown,
         NEW items, NEW emitted, Stepping(Nodes, items, emitted), NewJumps(items)
  PROVE  JumpsKnown'
<1>1. /\ Current' = Current
      /\ \A i, l : i \in DOMAIN items /\ Marks(items[i], l) => MarkAt(0, i, l)'
      /\ \A f, i, l : f # 0 /\ MarkAt(f, i, l) => MarkAt(f, i, l)'
  BY MarksMoved
<1>2. /\ \A i, l : JumpAt(0, i, l)' =>
           \/ i \in DOMAIN items /\ JumpsTo(items[i], l)
           \/ JumpAt(0, i - Len(items) + 1, l)
      /\ \A f, i, l : f # 0 /\ JumpAt(f, i, l)' =>
           JumpAt(f, i, l) \/ (f = Current /\ JumpAt(0, 1, l))
  BY JumpsMoved
<1>3. \A l : Known(l) => Known(l)'
  BY KnownStays
<1>4. \A l : (\E j \in DOMAIN items : Marks(items[j], l)) => Known(l)'
  BY <1>1 DEF Known
<1>5. ASSUME NEW f, NEW i, NEW l, JumpAt(f, i, l)', f \in {0, Current}
      PROVE  Known(l)'
  <2>1. \A g, j : g \in {0, Current} /\ JumpAt(g, j, l) => Known(l)
    BY DEF JumpsKnown
  <2>2. CASE f = 0 /\ i \in DOMAIN items /\ JumpsTo(items[i], l)
    BY <1>3, <1>4, <2>2 DEF NewJumps
  <2>3. CASE f = 0 /\ JumpAt(0, i - Len(items) + 1, l)
    BY <1>3, <2>1, <2>3
  <2>4. CASE f # 0
    BY <1>2, <1>3, <1>5, <2>1, <2>4
  <2> QED BY <1>2, <1>5, <2>2, <2>3, <2>4
<1>6. ASSUME NEW f, NEW i, NEW l, JumpAt(f, i, l)', f \notin {0, Current}
      PROVE  \E j : MarkAt(f, j, l)'
  <2>1. JumpAt(f, i, l)
    BY <1>2, <1>6
  <2>2. PICK j : MarkAt(f, j, l)
    BY <1>6, <2>1 DEF JumpsKnown
  <2> QED BY <1>1, <1>6, <2>2
<1> QED BY <1>1, <1>5, <1>6 DEF JumpsKnown

\* The visit of a loop brings its labels.
NewLoop(items) ==
  IsLoop(todo[1].node) =>
    \A i \in DOMAIN items : Visits(items[i]) =>
      /\ \E j \in DOMAIN items : Marks(items[j], Name("break", labels[todo[1].place]))
      /\ \E j \in DOMAIN items : Marks(items[j], Name("continue", labels[todo[1].place]))
NewParts(Nodes, items) ==
  \A i \in DOMAIN items : Visits(items[i]) => \E c : PartItem(Nodes, items[i], c)

\* The labels that a place needs are those of the loop around it.
LEMMA LoopStays ==
  ASSUME unit' = unit, labels' = labels, \A l : Known(l) => Known(l)', NEW p,
         LoopKnown(LoopsAround(p))
  PROVE  LoopKnown(LoopsAround(p))'
<1>1. /\ LoopsAround(p)' = LoopsAround(p)
      /\ Innermost(LoopsAround(p))' = Innermost(LoopsAround(p))
  BY SamePlaces
<1>2. CASE LoopsAround(p) = {}
  BY <1>1, <1>2 DEF LoopKnown
<1>3. CASE LoopsAround(p) # {}
  <2>1. PICK b, c : /\ b = Name("break", labels[Innermost(LoopsAround(p))])
                    /\ c = Name("continue", labels[Innermost(LoopsAround(p))])
    OBVIOUS
  <2>2. Known(b)' /\ Known(c)'
    BY <1>3, <2>1 DEF LoopKnown
  <2>3. /\ b = Name("break", labels'[Innermost(LoopsAround(p))'])
        /\ c = Name("continue", labels'[Innermost(LoopsAround(p))'])
    BY <1>1, <2>1
  <2> QED BY <2>2, <2>3 DEF LoopKnown
<1> QED BY <1>2, <1>3

LEMMA LoopsAfter ==
  ASSUME NEW Nodes, Shaped(Nodes), LoopsKnown,
         NEW items, NEW emitted, Stepping(Nodes, items, emitted), NewParts(Nodes, items), NewLoop(items)
  PROVE  LoopsKnown'
<1>1. /\ Current' = Current
      /\ \A i, l : i \in DOMAIN items /\ Marks(items[i], l) => MarkAt(0, i, l)'
  BY MarksMoved
<1>2. \A l : Known(l) => Known(l)'
  BY KnownStays
<1>3. \A l : (\E j \in DOMAIN items : Marks(items[j], l)) => Known(l)'
  BY <1>1 DEF Known
<1>4. /\ unit' = unit /\ labels' = labels /\ IsSequence(todo) /\ todo # <<>> /\ Replace(items)
      /\ IsSequence(items)
      /\ Visits(todo[1]) \/ items = <<>>
  BY DEF Stepping, Moving, Expanding, Shaped
<1>5. /\ 1 \in DOMAIN todo
      /\ \A i \in DOMAIN items : i \in DOMAIN todo' /\ todo'[i] = items[i]
      /\ \A i \in DOMAIN todo' : i \notin DOMAIN items =>
           i - Len(items) + 1 \in DOMAIN todo /\ todo'[i] = todo[i - Len(items) + 1]
  BY <1>4, TodoAfter
<1>6. ASSUME NEW i \in DOMAIN todo', Visits(todo'[i]), NEW place, place = todo'[i].place
      PROVE  LoopKnown(LoopsAround(place))'
  <2>1. CASE i \notin DOMAIN items
    <3>1. PICK j \in DOMAIN todo : todo'[i] = todo[j]
      BY <1>5, <2>1
    <3>2. LoopKnown(LoopsAround(place))
      BY <1>6, <3>1 DEF LoopsKnown
    <3> QED BY <1>2, <1>4, <3>2, LoopStays
  <2>2. CASE i \in DOMAIN items
    <3>0. todo'[i] = items[i] /\ Visits(items[i]) /\ Visits(todo[1])
      BY <1>4, <1>5, <1>6, <2>2
    <3>1. PICK c : PartItem(Nodes, items[i], c)
      BY <2>2, <3>0 DEF NewParts
    <3>2. PICK p : p = todo[1].place
      OBVIOUS
    <3>3. LoopsAround(place) = LoopsAround(p) \cup (IF IsLoop(todo[1].node) THEN {p} ELSE {})
      BY <1>6, <3>0, <3>1, <3>2 DEF PartItem
    <3>4. CASE ~IsLoop(todo[1].node)
      <4>1. LoopsAround(place) = LoopsAround(p)
        BY <3>3, <3>4
      <4>2. LoopKnown(LoopsAround(place))
        BY <1>5, <3>0, <3>2, <4>1 DEF LoopsKnown
      <4> QED BY <1>2, <1>4, <4>2, LoopStays
    <3>5. CASE IsLoop(todo[1].node)
      <4>1. LoopsAround(place) = LoopsAround(p) \cup {p}
        BY <3>3, <3>5
      <4>2. p \in Seq(Nat) /\ Len(p) \in Nat
        BY <1>5, <3>0, <3>2, HeadPlace
      <4>3. Innermost(LoopsAround(place)) = p
        BY <4>1, <4>2, InnermostLoop
      <4>4. Innermost(LoopsAround(place))' = p
        BY <1>4, <4>3, SamePlaces
      <4>5. PICK b, e : b = Name("break", labels[p]) /\ e = Name("continue", labels[p])
        OBVIOUS
      <4>6. Known(b)' /\ Known(e)'
        BY <1>3, <2>2, <3>0, <3>2, <3>5, <4>5 DEF NewLoop
      <4>7. /\ b = Name("break", labels'[Innermost(LoopsAround(place))'])
            /\ e = Name("continue", labels'[Innermost(LoopsAround(place))'])
        BY <1>4, <4>4, <4>5
      <4> QED BY <4>6, <4>7 DEF LoopKnown
    <3> QED BY <3>4, <3>5
  <2> QED BY <2>1, <2>2
<1>7. ASSUME NEW i \in DOMAIN todo', Visits(todo'[i])
      PROVE  LoopKnown(LoopsAround(todo[i].place))'
  <2>1. PICK place : place = todo'[i].place
    OBVIOUS
  <2>2. LoopKnown(LoopsAround(place))'
    BY <1>6, <1>7, <2>1
  <2>3. LoopsAround(place)' = LoopsAround(todo[i].place)'
    BY <2>1 DEF LoopsAround, NodeAt
  <2> QED BY <2>2, <2>3 DEF LoopKnown, Innermost
<1> QED BY <1>7 DEF LoopsKnown, Visits

\* What is to be visited stays apart.
LEMMA ApartAfter ==
  ASSUME NEW Nodes, Shaped(Nodes), Apart, NEW items, Moving(Nodes, items)
  PROVE  Apart'
<1>1. /\ IsSequence(todo) /\ todo # <<>> /\ Replace(items) /\ IsSequence(items)
      /\ BelowHead(items) /\ Disjoint(items)
  BY DEF Moving, Expanding, Shaped
<1> DEFINE old(i) == i - Len(items) + 1
<1>2. /\ 1 \in DOMAIN todo /\ Len(items) \in Nat
      /\ \A i \in DOMAIN items : i \in DOMAIN todo' /\ todo'[i] = items[i]
      /\ \A i \in DOMAIN todo' : i \notin DOMAIN items =>
           old(i) \in DOMAIN todo /\ old(i) # 1 /\ todo'[i] = todo[old(i)]
      /\ \A i, j \in DOMAIN todo' : i # j => old(i) # old(j)
  <2>1. /\ Len(items) \in Nat /\ Len(todo) \in Nat \ {0} /\ DOMAIN todo = 1 .. Len(todo)
        /\ DOMAIN todo' = 1 .. Len(items) + Len(todo) - 1
        /\ \A i \in DOMAIN items : i \in DOMAIN todo' /\ todo'[i] = items[i]
    BY <1>1, TodoAfter
  <2>2. \A i \in DOMAIN todo' : i \notin DOMAIN items =>
          old(i) \in 2 .. Len(todo) /\ todo'[i] = todo[old(i)]
    BY <1>1, TodoAfter
  <2>3. \A k \in 2 .. Len(todo) : k \in DOMAIN todo /\ k # 1
    BY <2>1
  <2>4. \A i, j \in DOMAIN todo' : i # j => old(i) # old(j)
    BY <2>1
  <2>5. 1 \in DOMAIN todo
    BY <2>1
  <2> HIDE DEF old
  <2> QED BY <2>1, <2>2, <2>3, <2>4, <2>5
<1> HIDE DEF old
<1> DEFINE head == todo[1].place
<1>3. \A i \in DOMAIN items : Visits(items[i]) =>
        Visits(todo[1]) /\ head \in Seq(Nat) /\ \E c \in Nat : items[i].place = Append(head, c)
  BY <1>1, <1>2, HeadPlace DEF BelowHead
<1>4. \A j \in DOMAIN todo : j # 1 /\ Visits(todo[1]) /\ Visits(todo[j]) =>
        ~Extends(head, todo[j].place) /\ ~Extends(todo[j].place, head)
  BY <1>2 DEF Apart
<1> HIDE DEF head
<1>5. ASSUME NEW i \in DOMAIN todo', NEW j \in DOMAIN todo', i # j,
             Visits(todo'[i]), Visits(todo'[j])
      PROVE  ~Extends(todo'[i].place, todo'[j].place)
  <2>1. CASE i \in DOMAIN items /\ j \in DOMAIN items
    <3>1. PICK c \in Nat : todo'[i].place = Append(head, c) /\ head \in Seq(Nat)
      BY <1>2, <1>3, <1>5, <2>1
    <3>2. PICK e \in Nat : todo'[j].place = Append(head, e)
      BY <1>2, <1>3, <1>5, <2>1
    <3>3. todo'[i].place # todo'[j].place
      BY <1>1, <1>2, <1>5, <2>1 DEF Disjoint
    <3>4. ~Extends(head, Append(head, e)) /\ Append(head, e) \in Seq(Nat)
      BY <3>1, ExtendsChild
    <3>5. Extends(Append(head, c), Append(head, e)) => Append(head, e) = Append(head, c)
      BY <3>1, <3>4, ExtendsChild
    <3> QED BY <3>1, <3>2, <3>3, <3>5
  <2>2. CASE i \in DOMAIN items /\ j \notin DOMAIN items
    <3>1. PICK c \in Nat : /\ todo'[i].place = Append(head, c) /\ head \in Seq(Nat)
                           /\ Visits(todo[1])
      BY <1>2, <1>3, <1>5, <2>2
    <3>2. PICK k \in DOMAIN todo : k # 1 /\ todo'[j] = todo[k]
      BY <1>2, <2>2
    <3> DEFINE other == todo[k].place
    <3>3. other \in Seq(Nat)
      BY <1>5, <3>2, HeadPlace
    <3>4. ~Extends(head, other) /\ ~Extends(other, head)
      BY <1>4, <1>5, <3>1, <3>2
    <3>5. Extends(Append(head, c), other) => Extends(head, other) \/ other = Append(head, c)
      BY <3>1, <3>3, ExtendsChild
    <3>6. Extends(Append(head, c), head)
      BY <3>1, ExtendsChild
    <3> QED BY <3>1, <3>2, <3>4, <3>5, <3>6
  <2>3. CASE i \notin DOMAIN items /\ j \in DOMAIN items
    <3>1. PICK c \in Nat : /\ todo'[j].place = Append(head, c) /\ head \in Seq(Nat)
                           /\ Visits(todo[1])
      BY <1>2, <1>3, <1>5, <2>3
    <3>2. PICK k \in DOMAIN todo : k # 1 /\ todo'[i] = todo[k]
      BY <1>2, <2>3
    <3> DEFINE other == todo[k].place
    <3>3. other \in Seq(Nat)
      BY <1>5, <3>2, HeadPlace
    <3>4. ~Extends(other, head)
      BY <1>4, <1>5, <3>1, <3>2
    <3>5. Extends(other, Append(head, c)) => Extends(other, head)
      BY <3>1, <3>3, ExtendsChild
    <3> QED BY <3>1, <3>2, <3>4, <3>5
  <2>4. CASE i \notin DOMAIN items /\ j \notin DOMAIN items
    <3>1. /\ old(i) \in DOMAIN todo /\ todo'[i] = todo[old(i)]
          /\ old(j) \in DOMAIN todo /\ todo'[j] = todo[old(j)] /\ old(i) # old(j)
      BY <1>2, <1>5, <2>4
    <3> QED BY <1>5, <3>1 DEF Apart
  <2> QED BY <2>1, <2>2, <2>3, <2>4
<1> QED BY <1>5 DEF Apart, Visits, Extends

LEMMA GoodAfter ==
  ASSUME NEW Nodes, Shaped(Nodes), NEW items, Moving(Nodes, items)
  PROVE  IsSequence(todo') /\ (\A i \in DOMAIN todo : Good(Nodes, todo[i]))'
<1>1. /\ unit' = unit /\ labels' = labels /\ IsSequence(todo) /\ todo # <<>> /\ Replace(items)
      /\ IsSequence(items) /\ \A i \in DOMAIN items : Good(Nodes, items[i])
  BY DEF Moving, Expanding, Shaped
<1>2. /\ IsSequence(todo')
      /\ \A i \in DOMAIN items : i \in DOMAIN todo' /\ todo'[i] = items[i]
      /\ \A i \in DOMAIN todo' : i \notin DOMAIN items =>
           i - Len(items) + 1 \in DOMAIN todo /\ todo'[i] = todo[i - Len(items) + 1]
  BY <1>1, TodoAfter
<1>3. ASSUME NEW i \in DOMAIN todo' PROVE Good(Nodes, todo[i])'
  <2>1. Good(Nodes, todo'[i])
    <3>1. CASE i \in DOMAIN items
      BY <1>1, <1>2, <3>1
    <3>2. CASE i \notin DOMAIN items
      BY <1>2, <3>2 DEF Shaped
    <3> QED BY <3>1, <3>2
  <2>2. PICK item : item = todo'[i]
    OBVIOUS
  <2>3. Good(Nodes, item)'
    BY <1>1, <2>1, <2>2, LabelsStay
  <2>4. IsPlace(todo[i].place)' = IsPlace(item.place)' /\ NodeAt(todo[i].place)' = NodeAt(item.place)'
    BY <2>2 DEF IsPlace, Path, NodeAt
  <2> QED BY <2>2, <2>3, <2>4 DEF Good, Visits, Emits
<1> QED BY <1>2, <1>3

LEMMA ShapedAfter ==
  ASSUME NEW Nodes, Shaped(Nodes), NEW items, NEW emitted, Stepping(Nodes, items, emitted),
         label_id' \in Nat
  PROVE  Shaped(Nodes)'
<1>1. Moving(Nodes, items) /\ Written(emitted) /\ IsSequence(emitted) /\ IsSequence(instructions')
  BY DEF Stepping, Written
<1>2. IsSequence(todo') /\ (\A i \in DOMAIN todo : Good(Nodes, todo[i]))'
  BY <1>1, GoodAfter
<1>3. ASSUME NEW f \in DOMAIN instructions' PROVE IsSequence(instructions'[f])
  <2>1. /\ f \in DOMAIN instructions /\ IsSequence(instructions[f])
        /\ instructions'[f] = IF f = Current THEN instructions[f] \o emitted ELSE instructions[f]
    BY <1>1 DEF Written, Shaped
  <2> QED BY <1>1, <2>1, JoinedSequences
<1> QED BY <1>1, <1>2, <1>3 DEF Shaped, IsSequence

\* The functions that are left are the last in todo.
LEMMA OneByOneAfter ==
  ASSUME NEW Nodes, Shaped(Nodes), OneByOne, NEW items, NEW emitted, Stepping(Nodes, items, emitted),
         ~FunctionItem(todo[1])
  PROVE  OneByOne' /\ Current # 0
<1>1. /\ unit' = unit /\ IsSequence(todo) /\ todo # <<>> /\ Replace(items)
      /\ IsSequence(items) /\ Written(emitted)
      /\ \A i \in DOMAIN items : ~FunctionItem(items[i])
  BY DEF Stepping, Moving, Expanding, Shaped
<1> DEFINE old(i) == i - Len(items) + 1
<1>2. /\ 1 \in DOMAIN todo /\ DOMAIN items = 1 .. Len(items) /\ Len(items) \in Nat
      /\ \A i \in DOMAIN items : i \in DOMAIN todo' /\ todo'[i] = items[i]
      /\ \A i \in DOMAIN todo' : i \notin DOMAIN items =>
           old(i) \in DOMAIN todo /\ todo'[i] = todo[old(i)] /\ i > Len(items)
      /\ \A i, j \in DOMAIN todo' : i < j => old(i) < old(j)
      /\ DOMAIN todo' \subseteq Nat
  BY <1>1, TodoAfter
<1> HIDE DEF old
<1>3. Current # 0 /\ Current' = Current
  <2>1. Current # 0
    BY <1>2 DEF OneByOne
  <2> QED BY <1>1, <2>1 DEF Written, Current
<1>4. ASSUME NEW i \in DOMAIN todo', NEW j \in DOMAIN todo', i < j, FunctionItem(todo'[i])
      PROVE  FunctionItem(todo'[j])
  <2>1. i \notin DOMAIN items /\ j \notin DOMAIN items
    <3>1. i \notin DOMAIN items
      BY <1>1, <1>2, <1>4
    <3> QED BY <1>2, <1>4, <3>1
  <2>2. old(i) \in DOMAIN todo /\ old(j) \in DOMAIN todo /\ old(i) < old(j)
    BY <1>2, <1>4, <2>1
  <2>3. todo'[i] = todo[old(i)] /\ todo'[j] = todo[old(j)]
    BY <1>2, <2>1
  <2> QED BY <1>4, <2>2, <2>3 DEF OneByOne
<1>5. ASSUME NEW i \in DOMAIN todo', FunctionItem(todo'[i])
      PROVE  (LoopsAround(todo[i].place) = {})'
  <2>1. i \notin DOMAIN items
    BY <1>1, <1>2, <1>5
  <2>2. PICK place : place = todo'[i].place
    OBVIOUS
  <2>3. LoopsAround(place) = {}
    BY <1>2, <1>5, <2>1, <2>2 DEF OneByOne
  <2>4. LoopsAround(place)' = {}
    BY <1>1, <2>3, SamePlaces
  <2>5. LoopsAround(place)' = LoopsAround(todo[i].place)'
    BY <2>2 DEF LoopsAround, NodeAt
  <2> QED BY <2>4, <2>5
<1> QED BY <1>3, <1>4, <1>5 DEF OneByOne, FunctionItem, Visits, IsFunction

\* The invariant after a visit or an emission.
Rewriting(Nodes, items, emitted) ==
  /\ Stepping(Nodes, items, emitted) /\ ~FunctionItem(todo[1])
  /\ NewMarks(items) /\ NewJumps(items) /\ NewLoop(items) /\ NewParts(Nodes, items)

LEMMA WritingAfter ==
  ASSUME NEW Nodes, Writing(Nodes), NEW items, NEW emitted, Rewriting(Nodes, items, emitted)
  PROVE  Writing(Nodes)'
<1>1. /\ Stepping(Nodes, items, emitted) /\ ~FunctionItem(todo[1])
      /\ NewMarks(items) /\ NewJumps(items) /\ NewLoop(items) /\ NewParts(Nodes, items)
  BY DEF Rewriting
<1>2. /\ Shaped(Nodes) /\ Apart /\ OneByOne /\ MarksGiven /\ MarksUnique /\ JumpsKnown
      /\ LoopsKnown /\ Bound
  BY DEF Writing
<1>3. Shaped(Nodes)'
  BY <1>1, <1>2, ShapedAfter DEF NewMarks
<1>4. Apart'
  BY <1>1, <1>2, ApartAfter DEF Stepping
<1>5. OneByOne'
  BY <1>1, <1>2, OneByOneAfter
<1>6. MarksGiven' /\ MarksUnique'
  BY <1>1, <1>2, MarksAfter
<1>7. JumpsKnown'
  BY <1>1, <1>2, JumpsAfter
<1>8. LoopsKnown'
  BY <1>1, <1>2, LoopsAfter
<1>9. Bound'
  BY <1>1, <1>2, LabelsStay DEF Stepping, Moving
<1> QED BY <1>3, <1>4, <1>5, <1>6, <1>7, <1>8, <1>9 DEF Writing

-----------------------------------------------------------------------------
\* The visits.

\* The head of todo when it is a visit of a node of one of some kinds.
LEMMA HeadIsVisit ==
  ASSUME NEW Nodes, Shaped(Nodes), NEW kinds, Visiting(kinds)
  PROVE  /\ todo # <<>> /\ Head(todo) = todo[1] /\ 1 \in DOMAIN todo /\ Visits(todo[1])
         /\ Place = todo[1].place /\ todo[1].node.kind \in kinds
         /\ Good(Nodes, todo[1]) /\ IsPlace(todo[1].place) /\ todo[1].node \in Nodes
         /\ todo[1].node = NodeAt(todo[1].place)
         /\ \A l : ~Marks(todo[1], l) /\ ~JumpsTo(todo[1], l)
<1>1. todo # <<>> /\ Head(todo).do = "visit" /\ Head(todo).node.kind \in kinds
  BY DEF Visiting, Doing
<1>2. Head(todo) = todo[1] /\ 1 \in DOMAIN todo
  BY <1>1, SequenceFacts DEF Shaped
<1>3. Visits(todo[1]) /\ Place = todo[1].place
  BY <1>1, <1>2 DEF Visits, Place
<1>4. Good(Nodes, todo[1])
  BY <1>2 DEF Shaped
<1>5. /\ IsPlace(todo[1].place) /\ todo[1].node \in Nodes /\ todo[1].node = NodeAt(todo[1].place)
  BY <1>3, <1>4 DEF Good
<1>6. todo[1].do # "emit" /\ todo[1].do # "emit with top"
  BY <1>3 DEF Visits
<1>7. \A l : ~Marks(todo[1], l) /\ ~JumpsTo(todo[1], l)
  BY <1>6 DEF Marks, JumpsTo, Emits
<1> QED BY <1>1, <1>2, <1>3, <1>4, <1>5, <1>7

\* The items that visit a part.
LEMMA PartOfHead ==
  ASSUME NEW Nodes, AreTrees(Nodes), AreParsed(Nodes), Shaped(Nodes), NEW kinds, Visiting(kinds),
         NEW c \in Nat \ {0}, Len(todo[1].node.parts) >= c, NEW item, item = Child(c)
  PROVE  PartItem(Nodes, item, c)
<1>1. /\ Good(Nodes, todo[1]) /\ Visits(todo[1]) /\ todo[1].node \in Nodes /\ Head(todo) = todo[1]
  BY HeadIsVisit
<1>2. todo[1].node.parts \in Seq(Nodes)
  BY <1>1 DEF AreTrees
<1>3. c \in DOMAIN todo[1].node.parts
  BY <1>2
<1>4. item = Children(todo[1])[c]
  BY <1>1 DEF Child
<1> QED BY <1>1, <1>3, <1>4, ChildIsPart

\* All items are of one of the four sorts.
Sorted(Nodes, items) ==
  \A i \in DOMAIN items :
    \/ \E c : PartItem(Nodes, items[i], c)
    \/ \E l : MarkItem(Nodes, items[i], l)
    \/ \E l : JumpItem(Nodes, items[i], l)
    \/ PlainItem(Nodes, items[i])

\* A visit that replaces the head of todo by such items, and emits nothing but a
\* call.
LEMMA VisitAfter ==
  ASSUME NEW Nodes, Writing(Nodes), NEW kinds, Visiting(kinds), "function" \notin kinds,
         unit' = unit, labels' = labels,
         NEW emitted, Written(emitted),
         \A i \in DOMAIN emitted : ~IsLabel(emitted[i]) /\ ~IsBranch(emitted[i]),
         NEW items, Replace(items), IsSequence(items), Sorted(Nodes, items), Disjoint(items),
         NewMarks(items), NewJumps(items), NewLoop(items)
  PROVE  Writing(Nodes)'
<1>1. /\ todo # <<>> /\ Visits(todo[1]) /\ todo[1].node.kind \in kinds
      /\ \A l : ~Marks(todo[1], l) /\ ~JumpsTo(todo[1], l)
  BY HeadIsVisit DEF Writing
<1>2. \A i \in DOMAIN items :
        /\ Good(Nodes, items[i]) /\ ~FunctionItem(items[i])
        /\ Visits(items[i]) => \E c : PartItem(Nodes, items[i], c)
  <2> SUFFICES ASSUME NEW i \in DOMAIN items
               PROVE  /\ Good(Nodes, items[i]) /\ ~FunctionItem(items[i])
                      /\ Visits(items[i]) => \E c : PartItem(Nodes, items[i], c)
    OBVIOUS
  <2>1. CASE \E c : PartItem(Nodes, items[i], c)
    BY <2>1 DEF PartItem
  <2>2. CASE \/ \E l : MarkItem(Nodes, items[i], l)
             \/ \E l : JumpItem(Nodes, items[i], l)
             \/ PlainItem(Nodes, items[i])
    <3>1. Good(Nodes, items[i]) /\ ~Visits(items[i])
      BY <2>2 DEF MarkItem, JumpItem, PlainItem
    <3> QED BY <3>1 DEF FunctionItem
  <2> QED BY <2>1, <2>2 DEF Sorted
<1>3. NewParts(Nodes, items)
  BY <1>2 DEF NewParts
<1>4. BelowHead(items)
  <2> SUFFICES ASSUME NEW i \in DOMAIN items, Visits(items[i])
               PROVE  \E c \in Nat : items[i].place = Append(todo[1].place, c)
    BY <1>1 DEF BelowHead
  <2>1. PICK c : PartItem(Nodes, items[i], c)
    BY <1>2
  <2> QED BY <2>1 DEF PartItem
<1>5. Expanding(Nodes, items)
  BY <1>1, <1>2, <1>4 DEF Expanding
<1>6. Faithful(emitted)
  BY <1>1 DEF Faithful
<1>7. Stepping(Nodes, items, emitted)
  BY <1>1, <1>5, <1>6 DEF Stepping, Moving
<1>8. ~FunctionItem(todo[1])
  BY <1>1 DEF FunctionItem, IsFunction
<1>9. Rewriting(Nodes, items, emitted)
  BY <1>3, <1>7, <1>8 DEF Rewriting
<1> QED BY <1>9, WritingAfter

\* Nothing is emitted.
LEMMA NothingWritten ==
  ASSUME NEW Nodes, Shaped(Nodes), instructions' = instructions
  PROVE  Written(<<>>)
<1>1. IsSequence(instructions) /\ \A f \in DOMAIN instructions : IsSequence(instructions[f])
  BY DEF Shaped
<1>2. \A f \in DOMAIN instructions : instructions[f] \o <<>> = instructions[f]
  BY <1>1, SequenceFacts
<1>3. IsSequence(<<>>)
  BY DEF IsSequence
<1> QED BY <1>1, <1>2, <1>3 DEF Written, Current, IsSequence

\* Different parts are at different places.
LEMMA PartsDiffer ==
  ASSUME NEW Nodes, Shaped(Nodes), 1 \in DOMAIN todo, Visits(todo[1]),
         NEW a, NEW b, NEW c, NEW d, PartItem(Nodes, a, c), PartItem(Nodes, b, d), c # d
  PROVE  a.place # b.place
<1>1. PICK p : p = todo[1].place
  OBVIOUS
<1>2. p \in Seq(Nat)
  BY <1>1, HeadPlace
<1>3. a.place = Append(p, c) /\ b.place = Append(p, d) /\ c \in Nat /\ d \in Nat
  BY <1>1 DEF PartItem
<1>4. Append(p, c)[Len(p) + 1] = c /\ Append(p, d)[Len(p) + 1] = d
  BY <1>2, <1>3
<1> QED BY <1>3, <1>4

\* Visits that bring no label and no jump.
Simple(Nodes, items) ==
  /\ IsSequence(items) /\ Disjoint(items)
  /\ \A i \in DOMAIN items : PlainItem(Nodes, items[i]) \/ \E c : PartItem(Nodes, items[i], c)

SimpleKinds == {"compound", "expression", "return", "declaration", "constant", "id", "empty",
                "not", "equal", "call", "assignment", "address", "dereference"}

LEMMA SimpleVisit ==
  ASSUME NEW Nodes, Writing(Nodes), Visiting(SimpleKinds), unit' = unit, labels' = labels,
         label_id' = label_id, NEW emitted, Written(emitted),
         \A i \in DOMAIN emitted : ~IsLabel(emitted[i]) /\ ~IsBranch(emitted[i]),
         NEW items, Replace(items), Simple(Nodes, items)
  PROVE  Writing(Nodes)'
<1>1. \A i \in DOMAIN items : \A l : ~Marks(items[i], l) /\ ~JumpsTo(items[i], l)
  BY DEF Simple, PlainItem, PartItem
<1>2. label_id \in Nat
  BY DEF Writing, Shaped
<1>3. NewMarks(items) /\ NewJumps(items)
  BY <1>1, <1>2 DEF NewMarks, NewJumps
<1>4. \A kind \in SimpleKinds : kind \notin {"while", "dowhile", "for"} /\ kind # "function"
  BY DEF SimpleKinds
<1>5. todo[1].node.kind \in SimpleKinds
  BY HeadIsVisit DEF Writing
<1>6. NewLoop(items)
  BY <1>4, <1>5 DEF NewLoop, IsLoop
<1>7. Sorted(Nodes, items) /\ Disjoint(items) /\ IsSequence(items)
  BY DEF Simple, Sorted
<1>8. "function" \notin SimpleKinds
  BY <1>4
<1> QED BY <1>3, <1>6, <1>7, <1>8, VisitAfter

\* What all visits of code generation have in common.
LEMMA VisitFacts ==
  ASSUME NEW Nodes, AreTrees(Nodes), AreParsed(Nodes), Writing(Nodes), Generating,
         NEW kinds, Visiting(kinds)
  PROVE  /\ unit' = unit /\ labels' = labels /\ Shaped(Nodes)
         /\ 1 \in DOMAIN todo /\ todo # <<>> /\ Visits(todo[1]) /\ Head(todo) = todo[1]
         /\ todo[1].node.kind \in kinds /\ Place = todo[1].place
         /\ todo[1].node \in Nodes /\ todo[1].node = NodeAt(Place) /\ IsPlace(Place)
         /\ label_id \in Nat
         /\ \A c \in Nat \ {0} : Len(todo[1].node.parts) >= c => PartItem(Nodes, Child(c), c)
         /\ instructions' = instructions => Written(<<>>)
<1>1. Shaped(Nodes) /\ label_id \in Nat
  BY DEF Writing, Shaped
<1>2. unit' = unit /\ labels' = labels
  BY DEF Generating, analyzer
<1>3. /\ todo # <<>> /\ Head(todo) = todo[1] /\ 1 \in DOMAIN todo /\ Visits(todo[1])
      /\ Place = todo[1].place /\ todo[1].node.kind \in kinds
      /\ IsPlace(todo[1].place) /\ todo[1].node \in Nodes
      /\ todo[1].node = NodeAt(todo[1].place)
  BY <1>1, HeadIsVisit
<1>4. ASSUME NEW c \in Nat \ {0}, Len(todo[1].node.parts) >= c
      PROVE  PartItem(Nodes, Child(c), c)
  <2>1. PICK item : item = Child(c)
    OBVIOUS
  <2>2. PartItem(Nodes, item, c)
    BY <1>1, <1>4, <2>1, PartOfHead
  <2> QED BY <2>1, <2>2
<1>5. instructions' = instructions => Written(<<>>)
  BY <1>1, NothingWritten
<1> QED BY <1>1, <1>2, <1>3, <1>4, <1>5

\* Kinds of nodes that are told apart.
LEMMA SimpleVisiting ==
  ASSUME NEW kinds, Visiting(kinds), kinds \subseteq SimpleKinds
  PROVE  Visiting(SimpleKinds)
BY DEF Visiting

\* What a sequence visits: all parts, in order.
LEMMA ChildrenSimple ==
  ASSUME NEW Nodes, AreTrees(Nodes), AreParsed(Nodes), Shaped(Nodes), NEW kinds, Visiting(kinds),
         NEW items, items = Children(todo[1])
  PROVE  /\ Simple(Nodes, items) /\ DOMAIN items = DOMAIN todo[1].node.parts
         /\ \A i \in DOMAIN items : PartItem(Nodes, items[i], i)
<1>1. /\ Good(Nodes, todo[1]) /\ Visits(todo[1]) /\ todo[1].node \in Nodes /\ 1 \in DOMAIN todo
  BY HeadIsVisit
<1>2. todo[1].node.parts \in Seq(Nodes)
  BY <1>1 DEF AreTrees
<1>3. DOMAIN items = DOMAIN todo[1].node.parts
  BY DEF Children
<1>4. \A i \in DOMAIN items : PartItem(Nodes, items[i], i)
  BY <1>1, <1>3, ChildIsPart
<1>5. IsSequence(items)
  <2>1. PICK n \in Nat : DOMAIN todo[1].node.parts = 1 .. n
    BY <1>2
  <2>2. items = [i \in 1 .. n |-> Visit(todo[1].node.parts[i], Append(todo[1].place, i))]
    BY <2>1 DEF Children
  <2>3. PICK S : S = {Visit(todo[1].node.parts[i], Append(todo[1].place, i)) : i \in 1 .. n}
    OBVIOUS
  <2>4. items \in [1 .. n -> S]
    BY <2>2, <2>3
  <2>5. items \in Seq(S)
    BY <2>1, <2>4
  <2> QED BY <2>5 DEF IsSequence
<1>6. Disjoint(items)
  BY <1>1, <1>4, PartsDiffer DEF Disjoint
<1> QED BY <1>3, <1>4, <1>5, <1>6 DEF Simple

LEMMA VisitSequenceStep ==
  ASSUME NEW Nodes, AreTrees(Nodes), AreParsed(Nodes), Writing(Nodes), VisitSequence
  PROVE  Writing(Nodes)'
<1>1. /\ Generating /\ Visiting({"compound", "expression"}) /\ Replace(Children(Head(todo)))
      /\ instructions' = instructions /\ label_id' = label_id
  BY DEF VisitSequence, visitor
<1>2. /\ unit' = unit /\ labels' = labels /\ Shaped(Nodes) /\ Head(todo) = todo[1] /\ Written(<<>>)
  BY <1>1, VisitFacts
<1>3. PICK items, nothing : items = Children(todo[1]) /\ nothing = <<>>
  OBVIOUS
<1>4. Simple(Nodes, items)
  BY <1>1, <1>2, <1>3, ChildrenSimple
<1>5. Visiting(SimpleKinds)
  BY <1>1, SimpleVisiting DEF SimpleKinds
<1>6. Replace(items) /\ Written(nothing) /\ DOMAIN nothing = {}
  BY <1>1, <1>2, <1>3
<1> QED BY <1>1, <1>2, <1>4, <1>5, <1>6, SimpleVisit

\* The visits of statements and expressions that need no label replace them by
\* parts and plain items: at most two parts, the first one first.
LEMMA SimpleStep ==
  ASSUME NEW Nodes, AreTrees(Nodes), AreParsed(Nodes), Writing(Nodes), Generating, UNCHANGED label_id,
         UNCHANGED instructions, NEW kinds, kinds \subseteq SimpleKinds, Visiting(kinds),
         NEW items, Replace(items), Simple(Nodes, items)
  PROVE  Writing(Nodes)'
<1>1. unit' = unit /\ labels' = labels /\ Written(<<>>)
  BY VisitFacts
<1>2. Visiting(SimpleKinds)
  BY SimpleVisiting
<1>3. PICK nothing : nothing = <<>>
  OBVIOUS
<1>4. Written(nothing) /\ DOMAIN nothing = {}
  BY <1>1, <1>3
<1> QED BY <1>1, <1>2, <1>4, SimpleVisit

\* The items of a visit, written down one by one.
LEMMA Tuple1 ==
  ASSUME NEW a,
         NEW s, s = <<a>>
  PROVE  /\ IsSequence(s) /\ DOMAIN s = 1 .. 1
         /\ s[1] = a
<1>1. s \in Seq({a})
  OBVIOUS
<1>2. DOMAIN s = 1 .. 1
  OBVIOUS
<1>3. s[1] = a
  OBVIOUS
<1> QED BY <1>1, <1>2, <1>3 DEF IsSequence

LEMMA Tuple2 ==
  ASSUME NEW a, NEW b,
         NEW s, s = <<a, b>>
  PROVE  /\ IsSequence(s) /\ DOMAIN s = 1 .. 2
         /\ s[1] = a /\ s[2] = b
<1>1. s \in Seq({a, b})
  OBVIOUS
<1>2. DOMAIN s = 1 .. 2
  OBVIOUS
<1>3. s[1] = a /\ s[2] = b
  OBVIOUS
<1> QED BY <1>1, <1>2, <1>3 DEF IsSequence

LEMMA Tuple3 ==
  ASSUME NEW a, NEW b, NEW c,
         NEW s, s = <<a, b, c>>
  PROVE  /\ IsSequence(s) /\ DOMAIN s = 1 .. 3
         /\ s[1] = a /\ s[2] = b /\ s[3] = c
<1>1. s \in Seq({a, b, c})
  OBVIOUS
<1>2. DOMAIN s = 1 .. 3
  OBVIOUS
<1>3. s[1] = a /\ s[2] = b /\ s[3] = c
  OBVIOUS
<1> QED BY <1>1, <1>2, <1>3 DEF IsSequence

LEMMA Tuple4 ==
  ASSUME NEW a, NEW b, NEW c, NEW d,
         NEW s, s = <<a, b, c, d>>
  PROVE  /\ IsSequence(s) /\ DOMAIN s = 1 .. 4
         /\ s[1] = a /\ s[2] = b /\ s[3] = c /\ s[4] = d
<1>1. s \in Seq({a, b, c, d})
  OBVIOUS
<1>2. DOMAIN s = 1 .. 4
  OBVIOUS
<1>3. s[1] = a /\ s[2] = b /\ s[3] = c /\ s[4] = d
  OBVIOUS
<1> QED BY <1>1, <1>2, <1>3 DEF IsSequence

LEMMA Tuple6 ==
  ASSUME NEW a, NEW b, NEW c, NEW d, NEW e, NEW f,
         NEW s, s = <<a, b, c, d, e, f>>
  PROVE  /\ IsSequence(s) /\ DOMAIN s = 1 .. 6
         /\ s[1] = a /\ s[2] = b /\ s[3] = c /\ s[4] = d /\ s[5] = e /\ s[6] = f
<1>1. s \in Seq({a, b, c, d, e, f})
  OBVIOUS
<1>2. DOMAIN s = 1 .. 6
  OBVIOUS
<1>3. s[1] = a /\ s[2] = b /\ s[3] = c /\ s[4] = d /\ s[5] = e /\ s[6] = f
  OBVIOUS
<1> QED BY <1>1, <1>2, <1>3 DEF IsSequence

LEMMA Tuple9 ==
  ASSUME NEW a, NEW b, NEW c, NEW d, NEW e, NEW f, NEW g, NEW h, NEW i,
         NEW s, s = <<a, b, c, d, e, f, g, h, i>>
  PROVE  /\ IsSequence(s) /\ DOMAIN s = 1 .. 9
         /\ s[1] = a /\ s[2] = b /\ s[3] = c /\ s[4] = d /\ s[5] = e /\ s[6] = f /\ s[7] = g /\ s[8] = h /\ s[9] = i
<1>1. s \in Seq({a, b, c, d, e, f, g, h, i})
  OBVIOUS
<1>2. DOMAIN s = 1 .. 9
  OBVIOUS
<1>3. s[1] = a /\ s[2] = b /\ s[3] = c /\ s[4] = d /\ s[5] = e /\ s[6] = f /\ s[7] = g /\ s[8] = h /\ s[9] = i
  OBVIOUS
<1> QED BY <1>1, <1>2, <1>3 DEF IsSequence

LEMMA Tuple10 ==
  ASSUME NEW a, NEW b, NEW c, NEW d, NEW e, NEW f, NEW g, NEW h, NEW i, NEW j,
         NEW s, s = <<a, b, c, d, e, f, g, h, i, j>>
  PROVE  /\ IsSequence(s) /\ DOMAIN s = 1 .. 10
         /\ s[1] = a /\ s[2] = b /\ s[3] = c /\ s[4] = d /\ s[5] = e /\ s[6] = f /\ s[7] = g /\ s[8] = h /\ s[9] = i /\ s[10] = j
<1>1. s \in Seq({a, b, c, d, e, f, g, h, i, j})
  OBVIOUS
<1>2. DOMAIN s = 1 .. 10
  OBVIOUS
<1>3. s[1] = a /\ s[2] = b /\ s[3] = c /\ s[4] = d /\ s[5] = e /\ s[6] = f /\ s[7] = g /\ s[8] = h /\ s[9] = i /\ s[10] = j
  OBVIOUS
<1> QED BY <1>1, <1>2, <1>3 DEF IsSequence

LEMMA VisitReturnStep ==
  ASSUME NEW Nodes, AreTrees(Nodes), AreParsed(Nodes), Writing(Nodes), VisitReturn
  PROVE  Writing(Nodes)'
<1> DEFINE return == TAC("return", NoLabel, NoOperand, NoOperand, NoOperand)
<1>1. /\ Generating /\ Visiting({"return"}) /\ instructions' = instructions /\ label_id' = label_id
      /\ Replace(IF Head(todo).node.parts = <<>>
                 THEN <<Emit(return)>> ELSE <<Child(1), EmitWithTop(return)>>)
  BY DEF VisitReturn, visitor
<1>2. /\ Head(todo) = todo[1] /\ Shaped(Nodes) /\ todo[1].node \in Nodes
      /\ 1 \in DOMAIN todo /\ Visits(todo[1])
      /\ \A c \in Nat \ {0} : Len(todo[1].node.parts) >= c => PartItem(Nodes, Child(c), c)
  BY <1>1, VisitFacts
<1>3. \A item : item = Emit(return) \/ item = EmitWithTop(return) => PlainItem(Nodes, item)
  <2>1. "return" \notin Branches \cup {"label"}
    BY DEF Branches
  <2> QED BY <2>1, PlainIsPlain, Zenon
<1> HIDE DEF return
<1>4. CASE todo[1].node.parts = <<>>
  <2>1. PICK items : items = <<Emit(return)>>
    OBVIOUS
  <2>2. Replace(items)
    BY <1>1, <1>2, <1>4, <2>1
  <2>3. IsSequence(items) /\ DOMAIN items = 1 .. 1 /\ items[1] = Emit(return)
    BY <2>1, Tuple1
  <2>4. Simple(Nodes, items)
    BY <1>3, <2>3 DEF Simple, Disjoint
  <2> QED BY <1>1, <2>2, <2>4, SimpleStep DEF SimpleKinds
<1>5. CASE todo[1].node.parts # <<>>
  <2>1. PICK items : items = <<Child(1), EmitWithTop(return)>>
    OBVIOUS
  <2>2. Replace(items)
    BY <1>1, <1>2, <1>5, <2>1
  <2>3. /\ IsSequence(items) /\ DOMAIN items = 1 .. 2
        /\ items[1] = Child(1) /\ items[2] = EmitWithTop(return)
    BY <2>1, Tuple2
  <2>4. Len(todo[1].node.parts) >= 1
    <3>1. todo[1].node.parts \in Seq(Nodes)
      BY <1>2 DEF AreTrees
    <3> QED BY <1>5, <3>1
  <2>5. PartItem(Nodes, items[1], 1) /\ PlainItem(Nodes, items[2])
    BY <1>2, <1>3, <2>3, <2>4
  <2>6. Simple(Nodes, items)
    BY <2>3, <2>5 DEF Simple, Disjoint, PlainItem
  <2> QED BY <1>1, <2>2, <2>6, SimpleStep DEF SimpleKinds
<1> QED BY <1>4, <1>5

LEMMA VisitDeclaratorStep ==
  ASSUME NEW Nodes, AreTrees(Nodes), AreParsed(Nodes), Writing(Nodes), VisitDeclarator
  PROVE  Writing(Nodes)'
<1> DEFINE set == SetToTop(Variable(Head(todo).node.name))
           skipped == Head(todo).node.name \in DOMAIN Static \/ Head(todo).node.parts = <<>>
<1>1. /\ Generating /\ Visiting({"declaration"}) /\ instructions' = instructions
      /\ label_id' = label_id /\ Replace(IF skipped THEN <<>> ELSE <<Child(1), set>>)
  BY DEF VisitDeclarator, visitor
<1>2. /\ Head(todo) = todo[1] /\ Shaped(Nodes) /\ todo[1].node \in Nodes /\ todo[1].node.kind = "declaration"
      /\ \A c \in Nat \ {0} : Len(todo[1].node.parts) >= c => PartItem(Nodes, Child(c), c)
  BY <1>1, VisitFacts
<1>3. PlainItem(Nodes, set)
  <2>1. PICK dst : dst = Variable(Head(todo).node.name)
    OBVIOUS
  <2>2. set = EmitWithTop(TAC("assign", NoLabel, dst, NoOperand, NoOperand))
    BY <2>1 DEF SetToTop, Assign
  <2>3. "assign" \notin Branches \cup {"label"}
    BY DEF Branches
  <2>4. PICK item : item = set
    OBVIOUS
  <2>5. PlainItem(Nodes, item)
    BY <2>2, <2>3, <2>4, PlainIsPlain, Zenon
  <2> QED BY <2>4, <2>5
<1> HIDE DEF set
<1>4. CASE skipped
  <2>1. PICK items : items = <<>>
    OBVIOUS
  <2>2. Replace(items)
    BY <1>1, <1>4, <2>1
  <2>3. Simple(Nodes, items)
    <3>1. items \in Seq({}) /\ DOMAIN items = {}
      BY <2>1
    <3> QED BY <3>1 DEF Simple, Disjoint, IsSequence
  <2> QED BY <1>1, <2>2, <2>3, SimpleStep DEF SimpleKinds
<1>5. CASE ~skipped
  <2>1. PICK items : items = <<Child(1), set>>
    OBVIOUS
  <2>2. Replace(items)
    BY <1>1, <1>5, <2>1
  <2>3. IsSequence(items) /\ DOMAIN items = 1 .. 2 /\ items[1] = Child(1) /\ items[2] = set
    BY <2>1, Tuple2
  <2>4. Len(todo[1].node.parts) >= 1
    <3>1. todo[1].node.parts \in Seq(Nodes)
      BY <1>2 DEF AreTrees
    <3>2. todo[1].node.parts # <<>>
      BY <1>2, <1>5
    <3> QED BY <3>1, <3>2
  <2>5. PartItem(Nodes, items[1], 1) /\ PlainItem(Nodes, items[2])
    BY <1>2, <1>3, <2>3, <2>4
  <2>6. Simple(Nodes, items)
    BY <2>3, <2>5 DEF Simple, Disjoint, PlainItem
  <2> QED BY <1>1, <2>2, <2>6, SimpleStep DEF SimpleKinds
<1> QED BY <1>4, <1>5

LEMMA VisitPrimaryStep ==
  ASSUME NEW Nodes, AreTrees(Nodes), AreParsed(Nodes), Writing(Nodes), VisitPrimary
  PROVE  Writing(Nodes)'
<1>1. /\ Generating /\ Visiting({"constant", "id", "empty"}) /\ instructions' = instructions
      /\ label_id' = label_id
      /\ \E operand : Replace(<<Push(operand)>>)
  BY DEF VisitPrimary, visitor
<1>2. PICK operand : Replace(<<Push(operand)>>)
  BY <1>1
<1>3. PICK items, push : push = Push(operand) /\ items = <<push>>
  OBVIOUS
<1>4. PlainItem(Nodes, push)
  BY <1>3, PlainIsPlain, Zenon
<1>5. IsSequence(items) /\ DOMAIN items = 1 .. 1 /\ items[1] = push
  BY <1>3, Tuple1
<1>6. Simple(Nodes, items)
  BY <1>4, <1>5 DEF Simple, Disjoint
<1>7. {"constant", "id", "empty"} \subseteq SimpleKinds
  BY DEF SimpleKinds
<1> QED BY <1>1, <1>2, <1>3, <1>6, <1>7, SimpleStep

LEMMA VisitUnaryStep ==
  ASSUME NEW Nodes, AreTrees(Nodes), AreParsed(Nodes), Writing(Nodes), VisitUnary
  PROVE  Writing(Nodes)'
<1> DEFINE not  == EmitWithTop(TAC("not", NoLabel, Temporary(temp_count), NoOperand, NoOperand))
           push == Push(Temporary(temp_count))
<1>1. /\ Generating /\ Visiting({"not"}) /\ instructions' = instructions
      /\ label_id' = label_id /\ Replace(<<Child(1), not, push>>)
  BY DEF VisitUnary
<1>2. /\ todo[1].node \in Nodes /\ todo[1].node.kind = "not"
      /\ \A c \in Nat \ {0} : Len(todo[1].node.parts) >= c => PartItem(Nodes, Child(c), c)
  BY <1>1, VisitFacts
<1>3. PlainItem(Nodes, not) /\ PlainItem(Nodes, push)
  <2>1. "not" \notin Branches \cup {"label"}
    BY DEF Branches
  <2>2. PICK dst, item, other : dst = Temporary(temp_count) /\ item = not /\ other = push
    OBVIOUS
  <2>3. PlainItem(Nodes, item) /\ PlainItem(Nodes, other)
    BY <2>1, <2>2, PlainIsPlain, Zenon
  <2> QED BY <2>2, <2>3
<1> HIDE DEF not, push
<1>4. PICK items : items = <<Child(1), not, push>>
  OBVIOUS
<1>5. /\ IsSequence(items) /\ DOMAIN items = 1 .. 3
      /\ items[1] = Child(1) /\ items[2] = not /\ items[3] = push
  BY <1>4, Tuple3
<1>6. Len(todo[1].node.parts) >= 1
  BY <1>2 DEF AreParsed, HasParts
<1>7. PartItem(Nodes, items[1], 1) /\ PlainItem(Nodes, items[2]) /\ PlainItem(Nodes, items[3])
  BY <1>2, <1>3, <1>5, <1>6
<1>8. Simple(Nodes, items)
  BY <1>5, <1>7 DEF Simple, Disjoint, PlainItem
<1> QED BY <1>1, <1>4, <1>8, SimpleStep DEF SimpleKinds

LEMMA VisitBinaryStep ==
  ASSUME NEW Nodes, AreTrees(Nodes), AreParsed(Nodes), Writing(Nodes), VisitBinary
  PROVE  Writing(Nodes)'
<1> DEFINE convert == Do("convert")
           binary  == Do("binary")
<1>1. /\ Generating /\ Visiting({"equal"}) /\ instructions' = instructions
      /\ label_id' = label_id /\ Replace(<<Child(1), convert, Child(2), binary>>)
  BY DEF VisitBinary, visitor
<1>2. /\ todo[1].node \in Nodes /\ todo[1].node.kind = "equal" /\ Shaped(Nodes)
      /\ 1 \in DOMAIN todo /\ Visits(todo[1])
      /\ \A c \in Nat \ {0} : Len(todo[1].node.parts) >= c => PartItem(Nodes, Child(c), c)
  BY <1>1, VisitFacts
<1>3. PlainItem(Nodes, convert) /\ PlainItem(Nodes, binary)
  <2>1. \A op \in {"convert", "binary"} : op \notin {"visit", "emit", "emit with top"}
    OBVIOUS
  <2> QED BY <2>1, PlainIsPlain, Zenon
<1> HIDE DEF convert, binary
<1>4. PICK items : items = <<Child(1), convert, Child(2), binary>>
  OBVIOUS
<1>5. /\ IsSequence(items) /\ DOMAIN items = 1 .. 4
      /\ items[1] = Child(1) /\ items[2] = convert /\ items[3] = Child(2) /\ items[4] = binary
  BY <1>4, Tuple4
<1>6. Len(todo[1].node.parts) >= 2 /\ Len(todo[1].node.parts) >= 1
  <2>1. todo[1].node.parts \in Seq(Nodes)
    BY <1>2 DEF AreTrees
  <2> QED BY <1>2, <2>1 DEF AreParsed, HasParts
<1>7. /\ PartItem(Nodes, items[1], 1) /\ PlainItem(Nodes, items[2])
      /\ PartItem(Nodes, items[3], 2) /\ PlainItem(Nodes, items[4])
  BY <1>2, <1>3, <1>5, <1>6
<1>8. items[1].place # items[3].place
  BY <1>2, <1>7, PartsDiffer
<1>9. Simple(Nodes, items)
  BY <1>5, <1>7, <1>8 DEF Simple, Disjoint, PlainItem
<1> QED BY <1>1, <1>4, <1>9, SimpleStep DEF SimpleKinds

LEMMA VisitAssignmentStep ==
  ASSUME NEW Nodes, AreTrees(Nodes), AreParsed(Nodes), Writing(Nodes), VisitAssignment
  PROVE  Writing(Nodes)'
<1> DEFINE assign == Do("assignment")
<1>1. /\ Generating /\ Visiting({"assignment"}) /\ instructions' = instructions
      /\ label_id' = label_id /\ Replace(<<Child(1), Child(2), assign>>)
  BY DEF VisitAssignment, visitor
<1>2. /\ todo[1].node \in Nodes /\ todo[1].node.kind = "assignment" /\ Shaped(Nodes)
      /\ 1 \in DOMAIN todo /\ Visits(todo[1])
      /\ \A c \in Nat \ {0} : Len(todo[1].node.parts) >= c => PartItem(Nodes, Child(c), c)
  BY <1>1, VisitFacts
<1>3. PlainItem(Nodes, assign)
  <2>1. "assignment" \notin {"visit", "emit", "emit with top"}
    OBVIOUS
  <2> QED BY <2>1, PlainIsPlain, Zenon
<1> HIDE DEF assign
<1>4. PICK items : items = <<Child(1), Child(2), assign>>
  OBVIOUS
<1>5. /\ IsSequence(items) /\ DOMAIN items = 1 .. 3
      /\ items[1] = Child(1) /\ items[2] = Child(2) /\ items[3] = assign
  BY <1>4, Tuple3
<1>6. Len(todo[1].node.parts) >= 2 /\ Len(todo[1].node.parts) >= 1
  <2>1. todo[1].node.parts \in Seq(Nodes)
    BY <1>2 DEF AreTrees
  <2> QED BY <1>2, <2>1 DEF AreParsed, HasParts
<1>7. /\ PartItem(Nodes, items[1], 1) /\ PartItem(Nodes, items[2], 2)
      /\ PlainItem(Nodes, items[3])
  BY <1>2, <1>3, <1>5, <1>6
<1>8. items[1].place # items[2].place
  BY <1>2, <1>7, PartsDiffer
<1>9. Simple(Nodes, items)
  BY <1>5, <1>7, <1>8 DEF Simple, Disjoint, PlainItem
<1> QED BY <1>1, <1>4, <1>9, SimpleStep DEF SimpleKinds

LEMMA VisitPointerStep ==
  ASSUME NEW Nodes, AreTrees(Nodes), AreParsed(Nodes), Writing(Nodes), VisitPointer
  PROVE  Writing(Nodes)'
<1> DEFINE point == Do(Head(todo).node.kind)
<1>1. /\ Generating /\ Visiting({"address", "dereference"}) /\ instructions' = instructions
      /\ label_id' = label_id /\ Replace(<<Child(1), point>>)
  BY DEF VisitPointer, visitor
<1>2. /\ todo[1].node \in Nodes /\ todo[1].node.kind \in {"address", "dereference"}
      /\ Head(todo) = todo[1]
      /\ \A c \in Nat \ {0} : Len(todo[1].node.parts) >= c => PartItem(Nodes, Child(c), c)
  BY <1>1, VisitFacts
<1>3. PlainItem(Nodes, point)
  <2>1. PICK kind : kind = todo[1].node.kind
    OBVIOUS
  <2>2. kind \notin {"visit", "emit", "emit with top"} /\ point = Do(kind)
    BY <1>2, <2>1
  <2>3. PICK item : item = point
    OBVIOUS
  <2>4. PlainItem(Nodes, item)
    BY <2>2, <2>3, PlainIsPlain, Zenon
  <2> QED BY <2>3, <2>4
<1> HIDE DEF point
<1>4. PICK items : items = <<Child(1), point>>
  OBVIOUS
<1>5. IsSequence(items) /\ DOMAIN items = 1 .. 2 /\ items[1] = Child(1) /\ items[2] = point
  BY <1>4, Tuple2
<1>6. Len(todo[1].node.parts) >= 1
  BY <1>2 DEF AreParsed, HasParts
<1>7. PartItem(Nodes, items[1], 1) /\ PlainItem(Nodes, items[2])
  BY <1>2, <1>3, <1>5, <1>6
<1>8. Simple(Nodes, items)
  BY <1>5, <1>7 DEF Simple, Disjoint, PlainItem
<1>9. {"address", "dereference"} \subseteq SimpleKinds
  BY DEF SimpleKinds
<1> QED BY <1>1, <1>4, <1>8, <1>9, SimpleStep

-----------------------------------------------------------------------------
\* The visits that need labels.

LEMMA LabelledStep ==
  ASSUME NEW Nodes, AreTrees(Nodes), AreParsed(Nodes), Writing(Nodes), Generating,
         UNCHANGED instructions, NEW kinds, "function" \notin kinds, Visiting(kinds),
         NEW items, Replace(items), IsSequence(items), Sorted(Nodes, items), Disjoint(items),
         NewMarks(items), NewJumps(items), NewLoop(items)
  PROVE  Writing(Nodes)'
<1>1. unit' = unit /\ labels' = labels /\ Written(<<>>)
  BY VisitFacts
<1>2. PICK nothing : nothing = <<>>
  OBVIOUS
<1>3. Written(nothing) /\ DOMAIN nothing = {}
  BY <1>1, <1>2
<1> QED BY <1>1, <1>3, VisitAfter

LEMMA NameFacts ==
  ASSUME NEW kind, NEW id, NEW l, l = Name(kind, id)
  PROVE  l.kind = kind /\ l.id = id
BY DEF Name

\* The labels of a loop are new when it is visited.
LEMMA LoopLabelsNew ==
  ASSUME Visits(todo[1]), IsLoop(todo[1].node), NEW kind \in LoopLabels, NEW l,
         l = Name(kind, labels[todo[1].place])
  PROVE  New(l)
<1>1. l.kind = kind /\ l.id = labels[todo[1].place]
  BY NameFacts
<1> QED BY <1>1 DEF New

LEMMA VisitWhileStep ==
  ASSUME NEW Nodes, AreTrees(Nodes), AreParsed(Nodes), Writing(Nodes), VisitWhile
  PROVE  Writing(Nodes)'
<1> DEFINE break    == Name("break", labels[Place])
           continue == Name("continue", labels[Place])
<1>1. /\ Generating /\ Visiting({"while"}) /\ instructions' = instructions /\ label_id' = label_id
      /\ Replace(<<Mark(continue), Child(1), BranchIfFalse(break), Child(2), Jump(continue),
                   Mark(break)>>)
  BY DEF VisitWhile, visitor
<1>2. /\ todo[1].node \in Nodes /\ todo[1].node.kind = "while" /\ Shaped(Nodes)
      /\ 1 \in DOMAIN todo /\ Visits(todo[1]) /\ Place = todo[1].place /\ label_id \in Nat
      /\ \A c \in Nat \ {0} : Len(todo[1].node.parts) >= c => PartItem(Nodes, Child(c), c)
  BY <1>1, VisitFacts
<1>3. IsLoop(todo[1].node)
  BY <1>2 DEF IsLoop
<1>4. New(break) /\ New(continue) /\ break # continue
  <2>1. PICK b, c : b = break /\ c = continue
    OBVIOUS
  <2>2. b.kind = "break" /\ c.kind = "continue"
    BY <2>1, NameFacts
  <2>3. New(b) /\ New(c)
    BY <1>2, <1>3, <2>1, LoopLabelsNew DEF LoopLabels
  <2> QED BY <2>1, <2>2, <2>3
<1>5. PICK b, c : b = break /\ c = continue
  OBVIOUS
<1> HIDE DEF break, continue
<1>6. PICK items : items = <<Mark(c), Child(1), BranchIfFalse(b), Child(2), Jump(c), Mark(b)>>
  OBVIOUS
<1>7. /\ IsSequence(items) /\ DOMAIN items = 1 .. 6
      /\ items[1] = Mark(c) /\ items[2] = Child(1) /\ items[3] = BranchIfFalse(b)
      /\ items[4] = Child(2) /\ items[5] = Jump(c) /\ items[6] = Mark(b)
  BY <1>6, Tuple6
<1>8. Len(todo[1].node.parts) >= 2 /\ Len(todo[1].node.parts) >= 1
  <2>1. todo[1].node.parts \in Seq(Nodes)
    BY <1>2 DEF AreTrees
  <2> QED BY <1>2, <2>1 DEF AreParsed, HasParts
<1>9. /\ MarkItem(Nodes, items[1], c) /\ PartItem(Nodes, items[2], 1)
      /\ JumpItem(Nodes, items[3], b) /\ PartItem(Nodes, items[4], 2)
      /\ JumpItem(Nodes, items[5], c) /\ MarkItem(Nodes, items[6], b)
  <2>1. PartItem(Nodes, items[2], 1) /\ PartItem(Nodes, items[4], 2)
    BY <1>2, <1>7, <1>8
  <2>2. MarkItem(Nodes, items[1], c) /\ MarkItem(Nodes, items[6], b)
    BY <1>7, MarkIsMark
  <2>3. JumpItem(Nodes, items[3], b) /\ JumpItem(Nodes, items[5], c)
    BY <1>7, JumpIsJump DEF BranchIfFalse
  <2> QED BY <2>1, <2>2, <2>3
<1>10. items[2].place # items[4].place
  BY <1>2, <1>9, PartsDiffer
<1>11. /\ \A i \in 1 .. 6 : \A m : Marks(items[i], m) <=> (i = 1 /\ m = c) \/ (i = 6 /\ m = b)
       /\ \A i \in 1 .. 6 : \A m : JumpsTo(items[i], m) <=> (i = 3 /\ m = b) \/ (i = 5 /\ m = c)
       /\ \A i \in 1 .. 6 : Visits(items[i]) <=> i \in {2, 4}
  BY <1>9 DEF MarkItem, JumpItem, PartItem
<1>12. NewMarks(items)
  BY <1>1, <1>2, <1>4, <1>5, <1>7, <1>11 DEF NewMarks
<1>13. NewJumps(items) /\ NewLoop(items)
  BY <1>2, <1>5, <1>7, <1>11 DEF NewJumps, NewLoop, break, continue
<1>14. Disjoint(items)
  BY <1>7, <1>10, <1>11 DEF Disjoint
<1>15. Sorted(Nodes, items)
  BY <1>7, <1>9 DEF Sorted
<1>16. Replace(items) /\ "function" \notin {"while"}
  BY <1>1, <1>5, <1>6
<1> QED BY <1>1, <1>7, <1>12, <1>13, <1>14, <1>15, <1>16, LabelledStep

LEMMA VisitDoWhileStep ==
  ASSUME NEW Nodes, AreTrees(Nodes), AreParsed(Nodes), Writing(Nodes), VisitDoWhile
  PROVE  Writing(Nodes)'
<1> DEFINE break == Name("break", labels[Place])
           continue == Name("continue", labels[Place])
           start == Name("start", labels[Place])
<1>1. /\ Generating /\ Visiting({"dowhile"}) /\ instructions' = instructions /\ label_id' = label_id
      /\ Replace(<<Mark(start), Child(2), Mark(continue), Child(1), BranchIf(start),
                   Mark(break)>>)
  BY DEF VisitDoWhile, visitor
<1>2. /\ todo[1].node \in Nodes /\ todo[1].node.kind = "dowhile" /\ Shaped(Nodes)
      /\ 1 \in DOMAIN todo /\ Visits(todo[1]) /\ Place = todo[1].place /\ label_id \in Nat
      /\ \A c \in Nat \ {0} : Len(todo[1].node.parts) >= c => PartItem(Nodes, Child(c), c)
  BY <1>1, VisitFacts
<1>3. IsLoop(todo[1].node)
  BY <1>2 DEF IsLoop
<1>4. PICK b, c, s : b = break /\ c = continue /\ s = start
  OBVIOUS
<1>5. New(b) /\ New(c) /\ New(s) /\ b # c /\ b # s /\ c # s
  <2>1. b.kind = "break" /\ c.kind = "continue" /\ s.kind = "start"
    BY <1>4, NameFacts
  <2>2. New(b) /\ New(c) /\ New(s)
    BY <1>2, <1>3, <1>4, LoopLabelsNew DEF LoopLabels
  <2> QED BY <2>1, <2>2
<1> HIDE DEF break, continue, start
<1>6. PICK items : items = <<Mark(s), Child(2), Mark(c), Child(1), BranchIf(s), Mark(b)>>
  OBVIOUS
<1>7. /\ IsSequence(items) /\ DOMAIN items = 1 .. 6
      /\ items[1] = Mark(s) /\ items[2] = Child(2) /\ items[3] = Mark(c) /\ items[4] = Child(1)
      /\ items[5] = BranchIf(s) /\ items[6] = Mark(b)
  BY <1>6, Tuple6
<1>8. /\ Len(todo[1].node.parts) >= 2 /\ Len(todo[1].node.parts) >= 1
  <2>1. todo[1].node.parts \in Seq(Nodes)
    BY <1>2 DEF AreTrees
  <2> QED BY <1>2, <2>1 DEF AreParsed, HasParts
<1>9. /\ MarkItem(Nodes, items[1], s) /\ PartItem(Nodes, items[2], 2)
      /\ MarkItem(Nodes, items[3], c) /\ PartItem(Nodes, items[4], 1)
      /\ JumpItem(Nodes, items[5], s) /\ MarkItem(Nodes, items[6], b)
  <2>1. /\ PartItem(Nodes, items[2], 2) /\ PartItem(Nodes, items[4], 1)
    BY <1>2, <1>7, <1>8
  <2>2. /\ MarkItem(Nodes, items[1], s) /\ MarkItem(Nodes, items[3], c)
        /\ MarkItem(Nodes, items[6], b)
    BY <1>7, MarkIsMark
  <2>3. JumpItem(Nodes, items[5], s)
    BY <1>7, JumpIsJump DEF BranchIf
  <2> QED BY <2>1, <2>2, <2>3
<1>10. items[2].place # items[4].place
  BY <1>2, <1>9, PartsDiffer
<1>11. /\ \A i \in 1 .. 6 : \A m : Marks(items[i], m) <=>
            (i = 1 /\ m = s) \/ (i = 3 /\ m = c) \/ (i = 6 /\ m = b)
       /\ \A i \in 1 .. 6 : \A m : JumpsTo(items[i], m) <=>
            (i = 5 /\ m = s)
       /\ \A i \in 1 .. 6 : Visits(items[i]) <=> i \in {2, 4}
  BY <1>9 DEF MarkItem, JumpItem, PartItem
<1>12. NewMarks(items)
  BY <1>1, <1>2, <1>4, <1>5, <1>7, <1>11 DEF NewMarks
<1>13. NewJumps(items) /\ NewLoop(items)
  BY <1>2, <1>4, <1>7, <1>11 DEF NewJumps, NewLoop, break, continue, start
<1>14. Disjoint(items)
  BY <1>7, <1>10, <1>11 DEF Disjoint
<1>15. Sorted(Nodes, items)
  BY <1>7, <1>9 DEF Sorted
<1>16. Replace(items) /\ "function" \notin {"dowhile"}
  BY <1>1, <1>4, <1>6
<1> QED BY <1>1, <1>7, <1>12, <1>13, <1>14, <1>15, <1>16, LabelledStep

LEMMA VisitForStep ==
  ASSUME NEW Nodes, AreTrees(Nodes), AreParsed(Nodes), Writing(Nodes), VisitFor
  PROVE  Writing(Nodes)'
<1> DEFINE break == Name("break", labels[Place])
           continue == Name("continue", labels[Place])
           start == Name("start", labels[Place])
<1>1. /\ Generating /\ Visiting({"for"}) /\ instructions' = instructions /\ label_id' = label_id
      /\ Replace(<<Child(1), Mark(start), Child(2), BranchIfFalse(break), Child(4),
                   Mark(continue), Child(3), Jump(start), Mark(break)>>)
  BY DEF VisitFor, visitor
<1>2. /\ todo[1].node \in Nodes /\ todo[1].node.kind = "for" /\ Shaped(Nodes)
      /\ 1 \in DOMAIN todo /\ Visits(todo[1]) /\ Place = todo[1].place /\ label_id \in Nat
      /\ \A c \in Nat \ {0} : Len(todo[1].node.parts) >= c => PartItem(Nodes, Child(c), c)
  BY <1>1, VisitFacts
<1>3. IsLoop(todo[1].node)
  BY <1>2 DEF IsLoop
<1>4. PICK b, c, s : b = break /\ c = continue /\ s = start
  OBVIOUS
<1>5. New(b) /\ New(c) /\ New(s) /\ b # c /\ b # s /\ c # s
  <2>1. b.kind = "break" /\ c.kind = "continue" /\ s.kind = "start"
    BY <1>4, NameFacts
  <2>2. New(b) /\ New(c) /\ New(s)
    BY <1>2, <1>3, <1>4, LoopLabelsNew DEF LoopLabels
  <2> QED BY <2>1, <2>2
<1> HIDE DEF break, continue, start
<1>6. PICK items : items = <<Child(1), Mark(s), Child(2), BranchIfFalse(b), Child(4), Mark(c),
                            Child(3), Jump(s), Mark(b)>>
  OBVIOUS
<1>7. /\ IsSequence(items) /\ DOMAIN items = 1 .. 9
      /\ items[1] = Child(1) /\ items[2] = Mark(s) /\ items[3] = Child(2)
      /\ items[4] = BranchIfFalse(b) /\ items[5] = Child(4) /\ items[6] = Mark(c)
      /\ items[7] = Child(3) /\ items[8] = Jump(s) /\ items[9] = Mark(b)
  BY <1>6, Tuple9
<1>8. /\ Len(todo[1].node.parts) >= 4 /\ Len(todo[1].node.parts) >= 3
      /\ Len(todo[1].node.parts) >= 2 /\ Len(todo[1].node.parts) >= 1
  <2>1. todo[1].node.parts \in Seq(Nodes)
    BY <1>2 DEF AreTrees
  <2> QED BY <1>2, <2>1 DEF AreParsed, HasParts
<1>9. /\ PartItem(Nodes, items[1], 1) /\ MarkItem(Nodes, items[2], s)
      /\ PartItem(Nodes, items[3], 2) /\ JumpItem(Nodes, items[4], b)
      /\ PartItem(Nodes, items[5], 4) /\ MarkItem(Nodes, items[6], c)
      /\ PartItem(Nodes, items[7], 3) /\ JumpItem(Nodes, items[8], s)
      /\ MarkItem(Nodes, items[9], b)
  <2>1. /\ PartItem(Nodes, items[1], 1) /\ PartItem(Nodes, items[3], 2)
        /\ PartItem(Nodes, items[5], 4) /\ PartItem(Nodes, items[7], 3)
    BY <1>2, <1>7, <1>8
  <2>2. /\ MarkItem(Nodes, items[2], s) /\ MarkItem(Nodes, items[6], c)
        /\ MarkItem(Nodes, items[9], b)
    BY <1>7, MarkIsMark
  <2>3. /\ JumpItem(Nodes, items[4], b) /\ JumpItem(Nodes, items[8], s)
    BY <1>7, JumpIsJump DEF BranchIfFalse
  <2> QED BY <2>1, <2>2, <2>3
<1>10. /\ items[1].place # items[3].place /\ items[1].place # items[5].place
       /\ items[1].place # items[7].place /\ items[3].place # items[5].place
       /\ items[3].place # items[7].place /\ items[5].place # items[7].place
  BY <1>2, <1>9, PartsDiffer
<1>11. /\ \A i \in 1 .. 9 : \A m : Marks(items[i], m) <=>
            (i = 2 /\ m = s) \/ (i = 6 /\ m = c) \/ (i = 9 /\ m = b)
       /\ \A i \in 1 .. 9 : \A m : JumpsTo(items[i], m) <=>
            (i = 4 /\ m = b) \/ (i = 8 /\ m = s)
       /\ \A i \in 1 .. 9 : Visits(items[i]) <=> i \in {1, 3, 5, 7}
  BY <1>9 DEF MarkItem, JumpItem, PartItem
<1>12. NewMarks(items)
  BY <1>1, <1>2, <1>4, <1>5, <1>7, <1>11 DEF NewMarks
<1>13. NewJumps(items) /\ NewLoop(items)
  BY <1>2, <1>4, <1>7, <1>11 DEF NewJumps, NewLoop, break, continue, start
<1>14. Disjoint(items)
  BY <1>7, <1>10, <1>11 DEF Disjoint
<1>15. Sorted(Nodes, items)
  BY <1>7, <1>9 DEF Sorted
<1>16. Replace(items) /\ "function" \notin {"for"}
  BY <1>1, <1>4, <1>6
<1> QED BY <1>1, <1>7, <1>12, <1>13, <1>14, <1>15, <1>16, LabelledStep

\* A label with the next number is new.
LEMMA CounterLabelsNew ==
  ASSUME Visits(todo[1]), label_id \in Nat, label_id' = label_id + 1, NEW kind \in CounterLabels,
         NEW l, l = Name(kind, label_id)
  PROVE  New(l)
<1>1. l.kind = kind /\ l.id = label_id
  BY NameFacts
<1>2. label_id' > label_id
  OBVIOUS
<1> QED BY <1>1, <1>2 DEF New

LEMMA MovesArePlain ==
  ASSUME NEW Nodes, NEW dst, NEW n, NEW item,
         item = Set(dst, n) \/ item = SetToTop(dst) \/ item = Push(dst)
  PROVE  PlainItem(Nodes, item)
<1>1. "assign" \notin Branches \cup {"label"}
  BY DEF Branches
<1>2. CASE item = Set(dst, n)
  <2>1. PICK src : src = Number(n)
    OBVIOUS
  <2>2. item = Emit(TAC("assign", NoLabel, dst, src, NoOperand))
    BY <1>2, <2>1 DEF Set, Assign
  <2> QED BY <1>1, <2>2, PlainIsPlain, Zenon
<1>3. CASE item = SetToTop(dst)
  <2>1. item = EmitWithTop(TAC("assign", NoLabel, dst, NoOperand, NoOperand))
    BY <1>3 DEF SetToTop, Assign
  <2> QED BY <1>1, <2>1, PlainIsPlain, Zenon
<1>4. CASE item = Push(dst)
  BY <1>4, PlainIsPlain, Zenon
<1> QED BY <1>2, <1>3, <1>4

LEMMA ShortCircuitStep ==
  ASSUME NEW Nodes, AreTrees(Nodes), AreParsed(Nodes), Writing(Nodes),
         NEW kind \in {"or", "and"}, NEW op \in {"if", "iffalse"}, NEW target \in {"true", "false"},
         NEW through, NEW jumped, ShortCircuit(kind, op, target, through, jumped)
  PROVE  Writing(Nodes)'
<1> DEFINE short == Name(target, label_id)
           end   == Name("end", label_id)
           value == Temporary(temp_count)
           test  == EmitWithTop(Branch(op, short, NoOperand))
<1>1. /\ Generating /\ Visiting({kind}) /\ instructions' = instructions /\ label_id' = label_id + 1
      /\ Replace(<<Child(1), test, Child(2), test, Set(value, through), Jump(end),
                   Mark(short), Set(value, jumped), Mark(end), Push(value)>>)
  BY DEF ShortCircuit
<1>2. /\ todo[1].node \in Nodes /\ todo[1].node.kind \in {kind} /\ Shaped(Nodes)
      /\ 1 \in DOMAIN todo /\ Visits(todo[1]) /\ label_id \in Nat
      /\ \A c \in Nat \ {0} : Len(todo[1].node.parts) >= c => PartItem(Nodes, Child(c), c)
  BY <1>1, VisitFacts
<1>4. PICK s, e, v, branch : /\ s = short /\ e = end /\ v = value
                              /\ branch = EmitWithTop(Branch(op, s, NoOperand))
  OBVIOUS
<1>3. \A item : /\ \A n : item = Set(v, n) => PlainItem(Nodes, item)
                /\ item = Push(v) => PlainItem(Nodes, item)
  BY MovesArePlain
<1>5. New(s) /\ New(e) /\ s # e
  <2>1. s.kind = target /\ e.kind = "end"
    BY <1>4, NameFacts
  <2>2. New(s) /\ New(e)
    BY <1>1, <1>2, <1>4, CounterLabelsNew DEF CounterLabels
  <2> QED BY <2>1, <2>2
<1> HIDE DEF short, end, value, test
<1>6. PICK items : items = <<Child(1), branch, Child(2), branch, Set(v, through), Jump(e),
                            Mark(s), Set(v, jumped), Mark(e), Push(v)>>
  OBVIOUS
<1>7. /\ IsSequence(items) /\ DOMAIN items = 1 .. 10
      /\ items[1] = Child(1) /\ items[2] = branch /\ items[3] = Child(2) /\ items[4] = branch
      /\ items[5] = Set(v, through) /\ items[6] = Jump(e) /\ items[7] = Mark(s)
      /\ items[8] = Set(v, jumped) /\ items[9] = Mark(e) /\ items[10] = Push(v)
  BY <1>6, Tuple10
<1>8. /\ Len(todo[1].node.parts) >= 2 /\ Len(todo[1].node.parts) >= 1
  <2>1. todo[1].node.parts \in Seq(Nodes)
    BY <1>2 DEF AreTrees
  <2> QED BY <1>2, <2>1 DEF AreParsed, HasParts
<1>9. /\ PartItem(Nodes, items[1], 1) /\ JumpItem(Nodes, items[2], s)
      /\ PartItem(Nodes, items[3], 2) /\ JumpItem(Nodes, items[4], s)
      /\ PlainItem(Nodes, items[5]) /\ JumpItem(Nodes, items[6], e)
      /\ MarkItem(Nodes, items[7], s) /\ PlainItem(Nodes, items[8])
      /\ MarkItem(Nodes, items[9], e) /\ PlainItem(Nodes, items[10])
  <2>1. /\ PartItem(Nodes, items[1], 1) /\ PartItem(Nodes, items[3], 2)
    BY <1>2, <1>7, <1>8
  <2>2. /\ MarkItem(Nodes, items[7], s) /\ MarkItem(Nodes, items[9], e)
    BY <1>7, MarkIsMark
  <2>3. /\ JumpItem(Nodes, items[2], s) /\ JumpItem(Nodes, items[4], s)
        /\ JumpItem(Nodes, items[6], e)
    BY <1>4, <1>7, JumpIsJump
  <2>4. /\ PlainItem(Nodes, items[5]) /\ PlainItem(Nodes, items[8])
        /\ PlainItem(Nodes, items[10])
    BY <1>3, <1>7
  <2> QED BY <2>1, <2>2, <2>3, <2>4
<1>10. items[1].place # items[3].place
  BY <1>2, <1>9, PartsDiffer
<1>11. /\ \A i \in 1 .. 10 : \A m : Marks(items[i], m) <=>
            (i = 7 /\ m = s) \/ (i = 9 /\ m = e)
       /\ \A i \in 1 .. 10 : \A m : JumpsTo(items[i], m) <=>
            (i = 2 /\ m = s) \/ (i = 4 /\ m = s) \/ (i = 6 /\ m = e)
       /\ \A i \in 1 .. 10 : Visits(items[i]) <=> i \in {1, 3}
  BY <1>9 DEF MarkItem, JumpItem, PartItem, PlainItem
<1>17. ~IsLoop(todo[1].node)
  BY <1>2 DEF IsLoop
<1>12. NewMarks(items)
  BY <1>1, <1>2, <1>5, <1>7, <1>11 DEF NewMarks
<1>13. NewJumps(items) /\ NewLoop(items)
  BY <1>2, <1>7, <1>11, <1>17 DEF NewJumps, NewLoop
<1>14. Disjoint(items)
  BY <1>7, <1>10, <1>11 DEF Disjoint
<1>15. Sorted(Nodes, items)
  BY <1>7, <1>9 DEF Sorted
<1>16. Replace(items) /\ "function" \notin {kind}
  BY <1>1, <1>4, <1>6 DEF test
<1> QED BY <1>1, <1>7, <1>12, <1>13, <1>14, <1>15, <1>16, LabelledStep

LEMMA VisitConditionalStep ==
  ASSUME NEW Nodes, AreTrees(Nodes), AreParsed(Nodes), Writing(Nodes),
         VisitConditional
  PROVE  Writing(Nodes)'
<1> DEFINE else  == Name("else", label_id)
           end   == Name("end", label_id)
           value == Temporary(temp_count)
<1>1. /\ Generating /\ Visiting({"conditional"}) /\ instructions' = instructions /\ label_id' = label_id + 1
      /\ Replace(<<Child(1), BranchIfFalse(else), Child(2), SetToTop(value), Jump(end),
                   Mark(else), Child(3), SetToTop(value), Mark(end), Push(value)>>)
  BY DEF VisitConditional
<1>2. /\ todo[1].node \in Nodes /\ todo[1].node.kind \in {"conditional"} /\ Shaped(Nodes)
      /\ 1 \in DOMAIN todo /\ Visits(todo[1]) /\ label_id \in Nat
      /\ \A c \in Nat \ {0} : Len(todo[1].node.parts) >= c => PartItem(Nodes, Child(c), c)
  BY <1>1, VisitFacts
<1>4. PICK s, e, v : s = else /\ e = end /\ v = value
  OBVIOUS
<1>3. \A item : item = SetToTop(v) \/ item = Push(v) => PlainItem(Nodes, item)
  BY MovesArePlain
<1>5. New(s) /\ New(e) /\ s # e
  <2>1. s.kind = "else" /\ e.kind = "end"
    BY <1>4, NameFacts
  <2>2. New(s) /\ New(e)
    BY <1>1, <1>2, <1>4, CounterLabelsNew DEF CounterLabels
  <2> QED BY <2>1, <2>2
<1> HIDE DEF else, end, value
<1>6. PICK items : items = <<Child(1), BranchIfFalse(s), Child(2), SetToTop(v), Jump(e), Mark(s),
                            Child(3), SetToTop(v), Mark(e), Push(v)>>
  OBVIOUS
<1>7. /\ IsSequence(items) /\ DOMAIN items = 1 .. 10
      /\ items[1] = Child(1) /\ items[2] = BranchIfFalse(s) /\ items[3] = Child(2)
      /\ items[4] = SetToTop(v) /\ items[5] = Jump(e) /\ items[6] = Mark(s)
      /\ items[7] = Child(3) /\ items[8] = SetToTop(v) /\ items[9] = Mark(e)
      /\ items[10] = Push(v)
  BY <1>6, Tuple10
<1>8. /\ Len(todo[1].node.parts) >= 3 /\ Len(todo[1].node.parts) >= 2
      /\ Len(todo[1].node.parts) >= 1
  <2>1. todo[1].node.parts \in Seq(Nodes)
    BY <1>2 DEF AreTrees
  <2> QED BY <1>2, <2>1 DEF AreParsed, HasParts
<1>9. /\ PartItem(Nodes, items[1], 1) /\ JumpItem(Nodes, items[2], s)
      /\ PartItem(Nodes, items[3], 2) /\ PlainItem(Nodes, items[4])
      /\ JumpItem(Nodes, items[5], e) /\ MarkItem(Nodes, items[6], s)
      /\ PartItem(Nodes, items[7], 3) /\ PlainItem(Nodes, items[8])
      /\ MarkItem(Nodes, items[9], e) /\ PlainItem(Nodes, items[10])
  <2>1. /\ PartItem(Nodes, items[1], 1) /\ PartItem(Nodes, items[3], 2)
        /\ PartItem(Nodes, items[7], 3)
    BY <1>2, <1>7, <1>8
  <2>2. /\ MarkItem(Nodes, items[6], s) /\ MarkItem(Nodes, items[9], e)
    BY <1>7, MarkIsMark
  <2>3. /\ JumpItem(Nodes, items[2], s) /\ JumpItem(Nodes, items[5], e)
    BY <1>7, JumpIsJump DEF BranchIfFalse
  <2>4. /\ PlainItem(Nodes, items[4]) /\ PlainItem(Nodes, items[8])
        /\ PlainItem(Nodes, items[10])
    BY <1>3, <1>7
  <2> QED BY <2>1, <2>2, <2>3, <2>4
<1>10. /\ items[1].place # items[3].place /\ items[1].place # items[7].place
       /\ items[3].place # items[7].place
  BY <1>2, <1>9, PartsDiffer
<1>11. /\ \A i \in 1 .. 10 : \A m : Marks(items[i], m) <=>
            (i = 6 /\ m = s) \/ (i = 9 /\ m = e)
       /\ \A i \in 1 .. 10 : \A m : JumpsTo(items[i], m) <=>
            (i = 2 /\ m = s) \/ (i = 5 /\ m = e)
       /\ \A i \in 1 .. 10 : Visits(items[i]) <=> i \in {1, 3, 7}
  BY <1>9 DEF MarkItem, JumpItem, PartItem, PlainItem
<1>17. ~IsLoop(todo[1].node)
  BY <1>2 DEF IsLoop
<1>12. NewMarks(items)
  BY <1>1, <1>2, <1>5, <1>7, <1>11 DEF NewMarks
<1>13. NewJumps(items) /\ NewLoop(items)
  BY <1>2, <1>7, <1>11, <1>17 DEF NewJumps, NewLoop
<1>14. Disjoint(items)
  BY <1>7, <1>10, <1>11 DEF Disjoint
<1>15. Sorted(Nodes, items)
  BY <1>7, <1>9 DEF Sorted
<1>16. Replace(items) /\ "function" \notin {"conditional"}
  BY <1>1, <1>4, <1>6
<1> QED BY <1>1, <1>7, <1>12, <1>13, <1>14, <1>15, <1>16, LabelledStep

LEMMA Tuple5 ==
  ASSUME NEW a, NEW b, NEW c, NEW d, NEW e,
         NEW s, s = <<a, b, c, d, e>>
  PROVE  /\ IsSequence(s) /\ DOMAIN s = 1 .. 5 /\ Len(s) = 5
         /\ s[1] = a /\ s[2] = b /\ s[3] = c /\ s[4] = d /\ s[5] = e
<1>1. s \in Seq({a, b, c, d, e})
  OBVIOUS
<1>2. DOMAIN s = 1 .. 5 /\ Len(s) = 5
  OBVIOUS
<1>3. s[1] = a /\ s[2] = b /\ s[3] = c /\ s[4] = d /\ s[5] = e
  OBVIOUS
<1> QED BY <1>1, <1>2, <1>3 DEF IsSequence

\* The items of a selection without and with an else.
IsSelection(s, a, b, c, d, e, f, g, more) ==
  (more = <<>> \/ more = <<f>>) /\ s = <<a, b, c, d, e>> \o more \o <<g>>

LEMMA SelectionItems ==
  ASSUME NEW a, NEW b, NEW c, NEW d, NEW e, NEW f, NEW g, NEW more, NEW s,
         IsSelection(s, a, b, c, d, e, f, g, more)
  PROVE  /\ IsSequence(s) /\ s[1] = a /\ s[2] = b /\ s[3] = c /\ s[4] = d /\ s[5] = e
         /\ more = <<>>  => DOMAIN s = 1 .. 6 /\ s[6] = g
         /\ more = <<f>> => DOMAIN s = 1 .. 7 /\ s[6] = f /\ s[7] = g
<1>0. (more = <<>> \/ more = <<f>>) /\ s = <<a, b, c, d, e>> \o more \o <<g>>
  BY DEF IsSelection
<1>1. PICK front, last : front = <<a, b, c, d, e>> /\ last = <<g>>
  OBVIOUS
<1>2. /\ IsSequence(front) /\ DOMAIN front = 1 .. 5 /\ Len(front) = 5
      /\ front[1] = a /\ front[2] = b /\ front[3] = c /\ front[4] = d /\ front[5] = e
  BY <1>1, Tuple5
<1>3. IsSequence(last) /\ Len(last) = 1 /\ last[1] = g
  BY <1>1, Tuple1
<1>4. /\ IsSequence(more) /\ Len(more) \in Nat
      /\ more = <<>> => Len(more) = 0
      /\ more = <<f>> => Len(more) = 1 /\ more[1] = f
  <2>1. CASE more = <<>>
    <3>1. IsSequence(<<>>) /\ Len(<<>>) = 0 /\ <<>> # <<f>>
      BY DEF IsSequence
    <3> QED BY <2>1, <3>1
  <2>2. CASE more = <<f>>
    <3>1. IsSequence(more) /\ Len(more) = 1 /\ more[1] = f /\ more # <<>>
      BY <2>2, Tuple1
    <3> QED BY <2>2, <3>1
  <2> QED BY <1>0, <2>1, <2>2
<1>5. PICK most : most = front \o more
  OBVIOUS
<1>6. /\ IsSequence(most) /\ Len(most) = Len(front) + Len(more)
      /\ \A i \in 1 .. Len(front) : most[i] = front[i]
      /\ \A i \in 1 .. Len(front) + Len(more) : i > Len(front) => most[i] = more[i - Len(front)]
  BY <1>2, <1>4, <1>5, JoinedSequences
<1>7. s = most \o last
  BY <1>0, <1>1, <1>5
<1>8. /\ IsSequence(s) /\ DOMAIN s = 1 .. Len(most) + Len(last)
      /\ \A i \in 1 .. Len(most) : s[i] = most[i]
      /\ \A i \in 1 .. Len(most) + Len(last) : i > Len(most) => s[i] = last[i - Len(most)]
  <2>1. IsSequence(most) /\ IsSequence(last)
    BY <1>3, <1>6
  <2>2. /\ IsSequence(most \o last) /\ DOMAIN (most \o last) = 1 .. Len(most) + Len(last)
        /\ \A i \in 1 .. Len(most) : (most \o last)[i] = most[i]
        /\ \A i \in 1 .. Len(most) + Len(last) : i > Len(most) =>
             (most \o last)[i] = last[i - Len(most)]
    BY <2>1, JoinedSequences
  <2> QED BY <1>7, <2>2, Zenon
<1>9. \A i \in 1 .. 5 : s[i] = front[i]
  BY <1>2, <1>4, <1>6, <1>8
<1>10. more = <<>>  => DOMAIN s = 1 .. 6 /\ s[6] = g
  BY <1>2, <1>3, <1>4, <1>6, <1>8
<1>11. more = <<f>> => DOMAIN s = 1 .. 7 /\ s[6] = f /\ s[7] = g
  BY <1>2, <1>3, <1>4, <1>6, <1>8
<1> QED BY <1>2, <1>8, <1>9, <1>10, <1>11

LEMMA VisitSelectionStep ==
  ASSUME NEW Nodes, AreTrees(Nodes), AreParsed(Nodes), Writing(Nodes), VisitSelection
  PROVE  Writing(Nodes)'
<1> DEFINE else == Name("else", label_id)
           end  == Name("end", label_id)
<1>1. /\ Generating /\ Visiting({"if", "ifelse"}) /\ instructions' = instructions
      /\ label_id' = label_id + 1
      /\ Replace(<<Child(1), BranchIfFalse(else), Child(2), Jump(end), Mark(else)>>
                 \o (IF Head(todo).node.kind = "ifelse" THEN <<Child(3)>> ELSE <<>>)
                 \o <<Mark(end)>>)
  BY DEF VisitSelection
<1>2. /\ todo[1].node \in Nodes /\ todo[1].node.kind \in {"if", "ifelse"} /\ Shaped(Nodes)
      /\ 1 \in DOMAIN todo /\ Visits(todo[1]) /\ label_id \in Nat /\ Head(todo) = todo[1]
      /\ \A c \in Nat \ {0} : Len(todo[1].node.parts) >= c => PartItem(Nodes, Child(c), c)
  BY <1>1, VisitFacts
<1>3. PICK s, e : s = else /\ e = end
  OBVIOUS
<1>4. New(s) /\ New(e) /\ s # e
  <2>1. s.kind = "else" /\ e.kind = "end"
    BY <1>3, NameFacts
  <2>2. New(s) /\ New(e)
    BY <1>1, <1>2, <1>3, CounterLabelsNew DEF CounterLabels
  <2> QED BY <2>1, <2>2
<1> HIDE DEF else, end
<1>5. PICK more : more = IF todo[1].node.kind = "ifelse" THEN <<Child(3)>> ELSE <<>>
  OBVIOUS
<1>6. PICK items : items = <<Child(1), BranchIfFalse(s), Child(2), Jump(e), Mark(s)>> \o more
                             \o <<Mark(e)>>
  OBVIOUS
<1>7. more \in {<<>>, <<Child(3)>>}
  BY <1>5
<1>20. PICK c1, c2, c3, m1, m2, m3, m4 :
         /\ c1 = Child(1) /\ c2 = Child(2) /\ c3 = Child(3) /\ m1 = BranchIfFalse(s)
         /\ m2 = Jump(e) /\ m3 = Mark(s) /\ m4 = Mark(e)
  OBVIOUS
<1>21. IsSelection(items, c1, m1, c2, m2, m3, c3, m4, more)
  BY <1>6, <1>7, <1>20 DEF IsSelection
<1>22. /\ IsSequence(items)
       /\ items[1] = c1 /\ items[2] = m1 /\ items[3] = c2 /\ items[4] = m2 /\ items[5] = m3
       /\ more = <<>> => DOMAIN items = 1 .. 6 /\ items[6] = m4
       /\ more = <<c3>> => DOMAIN items = 1 .. 7 /\ items[6] = c3 /\ items[7] = m4
  BY <1>21, SelectionItems
<1>8. /\ IsSequence(items)
      /\ items[1] = Child(1) /\ items[2] = BranchIfFalse(s) /\ items[3] = Child(2)
      /\ items[4] = Jump(e) /\ items[5] = Mark(s)
      /\ more = <<>> => DOMAIN items = 1 .. 6 /\ items[6] = Mark(e)
      /\ more = <<Child(3)>> => DOMAIN items = 1 .. 7 /\ items[6] = Child(3) /\ items[7] = Mark(e)
  BY <1>20, <1>22
<1>9. /\ Len(todo[1].node.parts) >= 2 /\ Len(todo[1].node.parts) >= 1
      /\ more # <<>> => Len(todo[1].node.parts) >= 3
  <2>1. todo[1].node.parts \in Seq(Nodes)
    BY <1>2 DEF AreTrees
  <2>2. todo[1].node.kind = "if" => more = <<>>
    BY <1>5
  <2> QED BY <1>2, <2>1, <2>2 DEF AreParsed, HasParts
<1>10. PICK n \in {6, 7} : DOMAIN items = 1 .. n /\ (more = <<>> <=> n = 6)
  <2>1. <<Child(3)>> # <<>>
    OBVIOUS
  <2> QED BY <1>7, <1>8, <2>1
<1>11. /\ PartItem(Nodes, items[1], 1) /\ JumpItem(Nodes, items[2], s)
       /\ PartItem(Nodes, items[3], 2) /\ JumpItem(Nodes, items[4], e)
       /\ MarkItem(Nodes, items[5], s) /\ MarkItem(Nodes, items[n], e)
       /\ n = 7 => PartItem(Nodes, items[6], 3)
  <2>1. PartItem(Nodes, items[1], 1) /\ PartItem(Nodes, items[3], 2)
    BY <1>2, <1>8, <1>9
  <2>2. n = 7 => PartItem(Nodes, items[6], 3)
    BY <1>2, <1>7, <1>8, <1>9, <1>10
  <2>3. items[n] = Mark(e)
    BY <1>7, <1>8, <1>10
  <2>4. MarkItem(Nodes, items[5], s) /\ MarkItem(Nodes, items[n], e)
    BY <1>8, <2>3, MarkIsMark
  <2>5. JumpItem(Nodes, items[2], s) /\ JumpItem(Nodes, items[4], e)
    BY <1>8, JumpIsJump DEF BranchIfFalse
  <2> QED BY <2>1, <2>2, <2>4, <2>5
<1>12. /\ items[1].place # items[3].place
       /\ n = 7 => items[1].place # items[6].place /\ items[3].place # items[6].place
  BY <1>2, <1>11, PartsDiffer
<1>13. /\ \A i \in 1 .. n : \A m : Marks(items[i], m) <=> (i = 5 /\ m = s) \/ (i = n /\ m = e)
       /\ \A i \in 1 .. n : \A m : JumpsTo(items[i], m) <=> (i = 2 /\ m = s) \/ (i = 4 /\ m = e)
       /\ \A i \in 1 .. n : Visits(items[i]) <=> i \in {1, 3} \/ (i = 6 /\ n = 7)
  BY <1>10, <1>11 DEF MarkItem, JumpItem, PartItem
<1>14. ~IsLoop(todo[1].node)
  BY <1>2 DEF IsLoop
<1>15. NewMarks(items)
  BY <1>1, <1>2, <1>4, <1>10, <1>13 DEF NewMarks
<1>16. NewJumps(items) /\ NewLoop(items)
  <2>1. Marks(items[5], s) /\ Marks(items[n], e) /\ 5 \in 1 .. n /\ n \in 1 .. n
    BY <1>10, <1>13
  <2>2. \A i \in 1 .. n : \A m : JumpsTo(items[i], m) => \E j \in 1 .. n : Marks(items[j], m)
    BY <1>13, <2>1
  <2>3. NewJumps(items)
    BY <1>10, <2>2 DEF NewJumps
  <2> QED BY <1>14, <2>3 DEF NewLoop
<1>17. Disjoint(items)
  BY <1>10, <1>12, <1>13 DEF Disjoint
<1>18. Sorted(Nodes, items)
  <2>1. \A i \in 1 .. n : i \in {1, 2, 3, 4, 5, n} \/ (i = 6 /\ n = 7)
    BY <1>10
  <2> QED BY <1>10, <1>11, <2>1 DEF Sorted
<1>19. Replace(items) /\ "function" \notin {"if", "ifelse"}
  BY <1>1, <1>2, <1>3, <1>5, <1>6
<1> QED BY <1>1, <1>8, <1>15, <1>16, <1>17, <1>18, <1>19, LabelledStep

\* A jump goes to a label of the loop around it, which is known.
LEMMA VisitJumpStep ==
  ASSUME NEW Nodes, AreTrees(Nodes), AreParsed(Nodes), Writing(Nodes), VisitJump
  PROVE  Writing(Nodes)'
<1>1. /\ Generating /\ Visiting({"break", "continue"}) /\ instructions' = instructions
      /\ label_id' = label_id /\ Replace(<<Jump(Name(Head(todo).node.kind, labels[Place]))>>)
  BY DEF VisitJump, visitor
<1>2. /\ todo[1].node \in Nodes /\ todo[1].node.kind \in {"break", "continue"} /\ Shaped(Nodes)
      /\ 1 \in DOMAIN todo /\ Visits(todo[1]) /\ label_id \in Nat /\ Head(todo) = todo[1]
      /\ Place = todo[1].place /\ todo[1].node = NodeAt(Place) /\ IsPlace(Place)
  BY <1>1, VisitFacts
<1>3. Bound /\ LoopsKnown
  BY DEF Writing
<1>4. IsJump(NodeAt(Place)) /\ ~IsLoop(todo[1].node)
  BY <1>2 DEF IsJump, IsLoop
<1>5. Place \in DOMAIN labels
  BY <1>2, <1>3, <1>4 DEF Bound
<1>6. /\ LoopsAround(Place) # {}
      /\ labels[Place] = labels[Innermost(LoopsAround(Place))]
  BY <1>3, <1>4, <1>5 DEF Bound, JumpsBound
<1>7. PICK p : p = Place
  OBVIOUS
<1>8. LoopKnown(LoopsAround(p))
  BY <1>2, <1>3, <1>7 DEF LoopsKnown
<1>9. PICK l : l = Name(todo[1].node.kind, labels[p])
  OBVIOUS
<1>10. Known(l)
  <2>1. CASE todo[1].node.kind = "break"
    BY <1>6, <1>7, <1>8, <1>9, <2>1 DEF LoopKnown
  <2>2. CASE todo[1].node.kind = "continue"
    BY <1>6, <1>7, <1>8, <1>9, <2>2 DEF LoopKnown
  <2> QED BY <1>2, <2>1, <2>2
<1>11. PICK items : items = <<Jump(l)>>
  OBVIOUS
<1>12. IsSequence(items) /\ DOMAIN items = 1 .. 1 /\ items[1] = Jump(l)
  BY <1>11, Tuple1
<1>13. JumpItem(Nodes, items[1], l)
  BY <1>12, JumpIsJump
<1>14. NewMarks(items) /\ Disjoint(items)
  BY <1>1, <1>2, <1>12, <1>13 DEF NewMarks, Disjoint, JumpItem
<1>15. NewJumps(items) /\ NewLoop(items)
  <2>1. \A m : JumpsTo(items[1], m) => m = l
    BY <1>13 DEF JumpItem
  <2>2. \A m : JumpsTo(items[1], m) => Known(m)
    BY <1>10, <2>1
  <2>3. \A i \in DOMAIN items : i = 1
    BY <1>12
  <2>4. NewJumps(items)
    BY <2>2, <2>3 DEF NewJumps
  <2>5. ~IsLoop(todo[1].node)
    BY <1>4
  <2>6. NewLoop(items)
    BY <2>5 DEF NewLoop
  <2> QED BY <2>4, <2>6
<1>16. Sorted(Nodes, items)
  BY <1>12, <1>13 DEF Sorted
<1>17. Replace(items)
  <2>1. Replace(<<Jump(Name(todo[1].node.kind, labels[todo[1].place]))>>)
    BY <1>1, <1>2
  <2> QED BY <1>2, <1>7, <1>9, <1>11, <2>1, Zenon
<1>18. "function" \notin {"break", "continue"}
  OBVIOUS
<1> QED BY <1>1, <1>12, <1>14, <1>15, <1>16, <1>17, <1>18, LabelledStep

-----------------------------------------------------------------------------
\* What is emitted.

\* Appended code is written to the last function.
LEMMA CodeWritten ==
  ASSUME NEW Nodes, Shaped(Nodes), Current # 0, NEW emitted, IsSequence(emitted), Code(emitted)
  PROVE  Written(emitted)
<1>1. PICK S : instructions \in Seq(S)
  BY DEF Shaped, IsSequence
<1>2. PICK T : T = S \cup {Last(instructions) \o emitted}
  OBVIOUS
<1>3. instructions \in Seq(T) /\ Last(instructions) \o emitted \in T
  BY <1>1, <1>2
<1>4. Len(instructions) \in Nat \ {0} /\ DOMAIN instructions = 1 .. Len(instructions)
  BY <1>3, SequenceEnds DEF Current
<1>5. /\ Front(instructions) \in Seq(T) /\ Len(Front(instructions)) = Len(instructions) - 1
      /\ \A k \in 1 .. Len(instructions) - 1 : Front(instructions)[k] = instructions[k]
      /\ Last(instructions) = instructions[Len(instructions)]
  BY <1>3, <1>4 DEF Front, Last
<1>6. PICK front, last : front = Front(instructions) /\ last = Last(instructions) \o emitted
  OBVIOUS
<1>7. instructions' = Append(front, last)
  BY <1>6 DEF Code
<1>8. /\ Append(front, last) \in Seq(T) /\ Len(Append(front, last)) = Len(instructions)
      /\ DOMAIN Append(front, last) = 1 .. Len(instructions)
      /\ \A k \in 1 .. Len(instructions) - 1 : Append(front, last)[k] = front[k]
      /\ Append(front, last)[Len(instructions)] = last
  <2>1. front \in Seq(T) /\ last \in T /\ Len(front) = Len(instructions) - 1
    BY <1>3, <1>5, <1>6
  <2>2. /\ Len(front) \in Nat /\ Append(front, last) \in Seq(T)
        /\ Len(Append(front, last)) = Len(front) + 1 /\ Append(front, last)[Len(front) + 1] = last
        /\ \A k \in 1 .. Len(front) : Append(front, last)[k] = front[k]
        /\ DOMAIN Append(front, last) = 1 .. Len(Append(front, last))
    BY <2>1, SequenceEnds
  <2>3. Len(front) + 1 = Len(instructions)
    BY <1>4, <2>1
  <2> QED BY <2>1, <2>2, <2>3
<1>9. ASSUME NEW f \in DOMAIN instructions
      PROVE  instructions'[f] = IF f = Current THEN instructions[f] \o emitted ELSE instructions[f]
  <2>1. CASE f = Len(instructions)
    BY <1>5, <1>6, <1>7, <1>8, <2>1 DEF Current
  <2>2. CASE f # Len(instructions)
    <3>1. f \in 1 .. Len(instructions) - 1
      BY <1>4, <2>2
    <3> QED BY <1>5, <1>6, <1>7, <1>8, <2>2, <3>1 DEF Current
  <2> QED BY <2>1, <2>2
<1>10. IsSequence(instructions')
  BY <1>7, <1>8 DEF IsSequence
<1> QED BY <1>4, <1>7, <1>8, <1>9, <1>10 DEF Written, Current

\* Code is being written when there is something else to do than to begin a
\* function.
LEMMA WritingCode ==
  ASSUME NEW Nodes, Shaped(Nodes), OneByOne, todo # <<>>, ~FunctionItem(todo[1])
  PROVE  Current # 0
<1>1. 1 \in DOMAIN todo
  BY SequenceFacts DEF Shaped
<1> QED BY <1>1 DEF OneByOne

\* The call of a function is emitted when it is visited.
LEMMA VisitCallStep ==
  ASSUME NEW Nodes, AreTrees(Nodes), AreParsed(Nodes), Writing(Nodes), VisitCall
  PROVE  Writing(Nodes)'
<1> DEFINE call == CallFunction(Head(todo).node.name, Temporary(temp_count))
<1>1. /\ Generating /\ Visiting({"call"}) /\ label_id' = label_id /\ Replace(<<>>)
      /\ instructions' = Append(Front(instructions), Append(Last(instructions), call))
  BY DEF VisitCall
<1>2. /\ unit' = unit /\ labels' = labels /\ Shaped(Nodes) /\ todo # <<>>
      /\ todo[1].node.kind \in {"call"}
  BY <1>1, VisitFacts
<1>3. Current # 0
  BY <1>2, WritingCode DEF Writing, FunctionItem, IsFunction
<1>4. call.op = "call"
  BY DEF CallFunction, TAC
<1> HIDE DEF call
<1>5. PICK emitted : emitted = <<call>>
  OBVIOUS
<1>6. IsSequence(emitted) /\ DOMAIN emitted = 1 .. 1 /\ emitted[1] = call
  BY <1>5, Tuple1
<1>7. Code(emitted)
  <2>1. PICK last : last = Last(instructions)
    OBVIOUS
  <2>2. IsSequence(last)
    <3>1. Len(instructions) \in DOMAIN instructions
      BY <1>2, <1>3, SequenceFacts DEF Shaped, Current
    <3> QED BY <1>2, <2>1, <3>1 DEF Last, Shaped
  <2>3. Append(last, call) = last \o emitted
    <3>1. PICK S : last \in Seq(S)
      BY <2>2 DEF IsSequence
    <3>2. last \in Seq(S \cup {call}) /\ call \in S \cup {call}
      BY <3>1
    <3> QED BY <1>5, <3>2
  <2> QED BY <1>1, <2>1, <2>3 DEF Code
<1>8. Written(emitted)
  BY <1>2, <1>3, <1>6, <1>7, CodeWritten
<1>9. \A i \in DOMAIN emitted : ~IsLabel(emitted[i]) /\ ~IsBranch(emitted[i])
  BY <1>4, <1>6 DEF IsLabel, IsBranch, Branches
<1>10. PICK items : items = <<>>
  OBVIOUS
<1>11. Simple(Nodes, items)
  BY <1>10 DEF Simple, IsSequence, Disjoint
<1>12. Visiting(SimpleKinds) /\ Replace(items)
  BY <1>1, <1>10, SimpleVisiting DEF SimpleKinds
<1> QED BY <1>1, <1>2, <1>8, <1>9, <1>11, <1>12, SimpleVisit

\* The head of todo is done when what it stands for has been emitted.
LEMMA EmissionAfter ==
  ASSUME NEW Nodes, Writing(Nodes), Generating, NEW what, Doing(what), what # "visit",
         Replace(<<>>), label_id' = label_id, NEW emitted, Written(emitted), Faithful(emitted)
  PROVE  Writing(Nodes)'
<1>1. unit' = unit /\ labels' = labels /\ Shaped(Nodes) /\ label_id \in Nat
  BY DEF Generating, analyzer, Writing, Shaped
<1>2. todo # <<>> /\ ~Visits(todo[1])
  <2>1. Head(todo) = todo[1]
    BY <1>1, SequenceFacts DEF Shaped, Doing
  <2> QED BY <2>1 DEF Doing, Visits
<1>3. PICK items : items = <<>>
  OBVIOUS
<1>4. IsSequence(items) /\ DOMAIN items = {}
  BY <1>3 DEF IsSequence
<1>5. Expanding(Nodes, items)
  BY <1>3, <1>4 DEF Expanding, BelowHead, Disjoint
<1>6. Stepping(Nodes, items, emitted)
  BY <1>1, <1>2, <1>3, <1>5 DEF Stepping, Moving
<1>7. NewMarks(items) /\ NewJumps(items) /\ NewLoop(items) /\ NewParts(Nodes, items)
  BY <1>1, <1>4 DEF NewMarks, NewJumps, NewLoop, NewParts
<1>8. ~FunctionItem(todo[1])
  BY <1>2 DEF FunctionItem
<1>9. Rewriting(Nodes, items, emitted)
  BY <1>6, <1>7, <1>8 DEF Rewriting
<1> QED BY <1>9, WritingAfter

LEMMA EmissionFacts ==
  ASSUME NEW Nodes, Writing(Nodes), NEW what, Doing(what), what # "visit"
  PROVE  /\ Shaped(Nodes) /\ todo # <<>> /\ Head(todo) = todo[1] /\ todo[1].do = what
         /\ Good(Nodes, todo[1]) /\ Current # 0
<1>1. Shaped(Nodes) /\ todo # <<>> /\ OneByOne
  BY DEF Writing, Doing
<1>2. Head(todo) = todo[1] /\ 1 \in DOMAIN todo
  BY <1>1, SequenceFacts DEF Shaped
<1>3. todo[1].do = what
  BY <1>2 DEF Doing
<1>4. Good(Nodes, todo[1])
  BY <1>1, <1>2 DEF Shaped
<1>5. ~FunctionItem(todo[1])
  BY <1>3 DEF FunctionItem, Visits
<1> QED BY <1>1, <1>2, <1>3, <1>4, <1>5, WritingCode

\* Nothing that is written is a label or a jump, or only the last instruction,
\* which is the one of the head of todo.
PlainCode(emitted) == \A i \in DOMAIN emitted : ~IsLabel(emitted[i]) /\ ~IsBranch(emitted[i])

LEMMA PlainEmission ==
  ASSUME NEW Nodes, Writing(Nodes), Generating, NEW what, Doing(what),
         what \notin {"visit", "emit", "emit with top"},
         Replace(<<>>), label_id' = label_id, NEW emitted, Written(emitted), PlainCode(emitted)
  PROVE  Writing(Nodes)'
<1>1. todo[1].do = what
  BY EmissionFacts
<1>2. \A l : ~Marks(todo[1], l)
  BY <1>1 DEF Marks
<1>3. Faithful(emitted)
  BY <1>2 DEF Faithful, PlainCode
<1> QED BY <1>3, EmissionAfter

\* The instruction that loads the operand.
LEMMA LoadIsPlain ==
  ASSUME NEW item, item = Top.code
  PROVE  IsSequence(item) /\ Len(item) \in Nat /\ DOMAIN item = 1 .. Len(item) /\ PlainCode(item)
<1>1. PICK dst, pointer : dst = Temporary(temp_count) /\ pointer = Last(stack).operand
  OBVIOUS
<1>2. item = <<>> \/ item = <<Load(dst, pointer)>>
  <2>1. CASE ~Last(stack).is_address
    BY <2>1 DEF Top, LValueConvert
  <2>2. CASE Last(stack).is_address
    BY <1>1, <2>2 DEF Top, LValueConvert
  <2> QED BY <2>1, <2>2
<1>3. CASE item = <<>>
  BY <1>3 DEF IsSequence, PlainCode
<1>4. CASE item = <<Load(dst, pointer)>>
  <2>1. PICK load : load = Load(dst, pointer)
    OBVIOUS
  <2>2. load.op = "load"
    BY <2>1 DEF Load, TAC
  <2>3. IsSequence(item) /\ DOMAIN item = 1 .. 1 /\ item[1] = load
    BY <1>4, <2>1, Tuple1
  <2>4. PlainCode(item)
    BY <2>2, <2>3 DEF PlainCode, IsLabel, IsBranch, Branches
  <2> QED BY <2>3, <2>4, SequenceFacts
<1> QED BY <1>2, <1>3, <1>4

IsAppended(emitted, item, last) == emitted = Append(item, last)
EndsWith(emitted, item, last) ==
  /\ IsSequence(emitted) /\ emitted # <<>> /\ Len(emitted) = Len(item) + 1
  /\ Len(item) \in Nat /\ DOMAIN item = 1 .. Len(item)
  /\ DOMAIN emitted = 1 .. Len(item) + 1 /\ emitted[Len(item) + 1] = last
  /\ \A i \in 1 .. Len(item) : emitted[i] = item[i]

LEMMA AppendedCode ==
  ASSUME NEW item, IsSequence(item), NEW last, NEW emitted, IsAppended(emitted, item, last)
  PROVE  EndsWith(emitted, item, last)
<1>1. PICK S : item \in Seq(S)
  BY DEF IsSequence
<1>2. item \in Seq(S \cup {last}) /\ last \in S \cup {last}
  BY <1>1
<1>3. PICK T : T = S \cup {last}
  OBVIOUS
<1>4. item \in Seq(T) /\ last \in T
  BY <1>2, <1>3
<1>7. emitted = Append(item, last)
  BY DEF IsAppended
<1>5. /\ emitted \in Seq(T) /\ Len(emitted) = Len(item) + 1 /\ Len(item) \in Nat
      /\ DOMAIN item = 1 .. Len(item) /\ DOMAIN emitted = 1 .. Len(item) + 1
      /\ emitted[Len(item) + 1] = last
      /\ \A i \in 1 .. Len(item) : emitted[i] = item[i]
  <2>1. /\ Append(item, last) \in Seq(T) /\ Len(item) \in Nat /\ DOMAIN item = 1 .. Len(item)
        /\ Len(Append(item, last)) = Len(item) + 1 /\ Append(item, last)[Len(item) + 1] = last
        /\ \A k \in 1 .. Len(item) : Append(item, last)[k] = item[k]
        /\ DOMAIN Append(item, last) = 1 .. Len(Append(item, last))
    BY <1>4, SequenceEnds
  <2> QED BY <1>7, <2>1
<1>6. emitted # <<>>
  BY <1>5
<1> QED BY <1>5, <1>6 DEF IsSequence, EndsWith

\* The instruction of the head of todo, after the one that loads its operand.
IsOfHead(instruction) ==
  /\ instruction.op = todo[1].instruction.op
  /\ instruction.label = todo[1].instruction.label

LEMMA BeforeLast ==
  ASSUME NEW n \in Nat, NEW i \in 1 .. n + 1, i # n + 1
  PROVE  i \in 1 .. n
OBVIOUS

LEMMA LoadedEmission ==
  ASSUME NEW Nodes, Writing(Nodes), NEW what \in {"emit", "emit with top"}, Doing(what),
         NEW item, IsSequence(item), PlainCode(item), NEW last,
         IsOfHead(last), NEW emitted, IsAppended(emitted, item, last)
  PROVE  IsSequence(emitted) /\ Faithful(emitted)
<1>1. /\ IsSequence(emitted) /\ emitted # <<>> /\ Len(emitted) = Len(item) + 1
      /\ Len(item) \in Nat /\ DOMAIN item = 1 .. Len(item)
      /\ DOMAIN emitted = 1 .. Len(item) + 1 /\ emitted[Len(item) + 1] = last
      /\ \A i \in 1 .. Len(item) : emitted[i] = item[i]
  <2>1. EndsWith(emitted, item, last)
    BY AppendedCode, Zenon
  <2> QED BY <2>1, Zenon DEF EndsWith
<1>2. todo[1].do = what /\ Good(Nodes, todo[1])
  BY EmissionFacts
<1>3. Emits(todo[1]) /\ (what = "emit with top" => ~IsLabel(todo[1].instruction))
  BY <1>2 DEF Emits, Good
<1>4. /\ IsLabel(last) <=> IsLabel(todo[1].instruction)
      /\ IsBranch(last) <=> IsBranch(todo[1].instruction)
  BY DEF IsOfHead, IsLabel, IsBranch
<1>5. \A l : /\ Marks(todo[1], l) <=> IsLabel(last) /\ last.label = l
             /\ JumpsTo(todo[1], l) <=> IsBranch(last) /\ last.label = l
  BY <1>2, <1>3, <1>4 DEF IsOfHead, Marks, JumpsTo
<1>6. \A i \in DOMAIN emitted : IsLabel(emitted[i]) \/ IsBranch(emitted[i]) => i = Len(emitted)
  <2> SUFFICES ASSUME NEW i \in DOMAIN emitted, i # Len(emitted)
               PROVE  ~IsLabel(emitted[i]) /\ ~IsBranch(emitted[i])
    OBVIOUS
  <2>1. i \in 1 .. Len(item) /\ i \in DOMAIN item
    <3>1. Len(item) \in Nat /\ i \in 1 .. Len(item) + 1 /\ i # Len(item) + 1
      BY <1>1, Zenon
    <3>2. i \in 1 .. Len(item)
      BY <3>1, BeforeLast, Zenon
    <3> QED BY <1>1, <3>2, Zenon
  <2>2. emitted[i] = item[i]
    BY <1>1, <2>1
  <2> QED BY <2>1, <2>2 DEF PlainCode
<1>7. emitted[Len(emitted)] = last
  BY <1>1
<1>8. Faithful(emitted)
  BY <1>1, <1>5, <1>6, <1>7 DEF Faithful
<1> QED BY <1>1, <1>8

LEMMA EmitInstructionStep ==
  ASSUME NEW Nodes, Writing(Nodes), EmitInstruction
  PROVE  Writing(Nodes)'
<1>1. /\ Generating /\ Doing("emit") /\ label_id' = label_id /\ Replace(<<>>)
      /\ Code(<<Head(todo).instruction>>)
  BY DEF EmitInstruction
<1>2. Shaped(Nodes) /\ Head(todo) = todo[1] /\ Current # 0
  BY <1>1, EmissionFacts
<1>3. PICK nothing, last, emitted :
        /\ nothing = <<>> /\ last = todo[1].instruction /\ emitted = <<last>>
  OBVIOUS
<1>4. IsSequence(nothing) /\ PlainCode(nothing)
  BY <1>3 DEF IsSequence, PlainCode
<1>5. IsAppended(emitted, nothing, last)
  BY <1>3 DEF IsAppended
<1>6. IsOfHead(last)
  BY <1>3 DEF IsOfHead
<1>7. IsSequence(emitted) /\ Faithful(emitted)
  BY <1>1, <1>4, <1>5, <1>6, LoadedEmission
<1>8. Written(emitted)
  BY <1>1, <1>2, <1>3, <1>7, CodeWritten
<1> QED BY <1>1, <1>7, <1>8, EmissionAfter

LEMMA EmitInstructionWithTopStep ==
  ASSUME NEW Nodes, Writing(Nodes), EmitInstructionWithTop
  PROVE  Writing(Nodes)'
<1>1. /\ Generating /\ Doing("emit with top") /\ label_id' = label_id /\ Replace(<<>>)
      /\ Code(Append(Top.code, [Head(todo).instruction EXCEPT !.lhs = Top.operand]))
  BY DEF EmitInstructionWithTop
<1>2. /\ Shaped(Nodes) /\ Head(todo) = todo[1] /\ Current # 0 /\ Good(Nodes, todo[1])
      /\ todo[1].do = "emit with top"
  BY <1>1, EmissionFacts
<1>3. PICK item, operand, last, emitted :
        /\ item = Top.code /\ operand = Top.operand
        /\ last = [todo[1].instruction EXCEPT !.lhs = operand] /\ emitted = Append(item, last)
  OBVIOUS
<1>4. IsSequence(item) /\ PlainCode(item)
  BY <1>3, LoadIsPlain
<1>5. IsAppended(emitted, item, last)
  BY <1>3 DEF IsAppended
<1>6. IsOfHead(last)
  <2>1. PICK op, l, dst, lhs, rhs : todo[1].instruction = TAC(op, l, dst, lhs, rhs)
    BY <1>2 DEF Good, Emits
  <2> DEFINE tac == TAC(op, l, dst, lhs, rhs)
  <2>2. [tac EXCEPT !.lhs = operand].op = tac.op /\ [tac EXCEPT !.lhs = operand].label = tac.label
    BY DEF TAC
  <2> QED BY <1>3, <2>1, <2>2 DEF IsOfHead
<1>7. IsSequence(emitted) /\ Faithful(emitted)
  BY <1>1, <1>4, <1>5, <1>6, LoadedEmission
<1>8. Written(emitted)
  <2>1. Code(emitted)
    BY <1>1, <1>2, <1>3
  <2> QED BY <1>2, <1>7, <2>1, CodeWritten
<1> QED BY <1>1, <1>7, <1>8, EmissionAfter

LEMMA PushOperandStep ==
  ASSUME NEW Nodes, Writing(Nodes), PushOperand
  PROVE  Writing(Nodes)'
<1>1. /\ Generating /\ Doing("push") /\ label_id' = label_id /\ Replace(<<>>)
      /\ instructions' = instructions
  BY DEF PushOperand
<1>2. PICK nothing : nothing = <<>>
  OBVIOUS
<1>3. Written(nothing) /\ PlainCode(nothing)
  BY <1>1, <1>2, NothingWritten DEF Writing, PlainCode
<1> QED BY <1>1, <1>3, PlainEmission

LEMMA ConvertTopStep ==
  ASSUME NEW Nodes, Writing(Nodes), ConvertTop
  PROVE  Writing(Nodes)'
<1>1. /\ Generating /\ (Doing("convert") \/ Doing("dereference")) /\ label_id' = label_id
      /\ Replace(<<>>) /\ Code(Top.code)
  BY DEF ConvertTop
<1>2. PICK what \in {"convert", "dereference"} : Doing(what)
  BY <1>1
<1>3. PICK emitted : emitted = Top.code
  OBVIOUS
<1>4. IsSequence(emitted) /\ PlainCode(emitted)
  BY <1>3, LoadIsPlain
<1>5. Written(emitted)
  BY <1>1, <1>2, <1>3, <1>4, EmissionFacts, CodeWritten
<1> QED BY <1>1, <1>2, <1>4, <1>5, PlainEmission

\* An operation whose operand is loaded first.
LEMMA OperationIsPlain ==
  ASSUME NEW last, last.op \notin Branches \cup {"label"}, NEW item, item = Top.code,
         NEW emitted, IsAppended(emitted, item, last)
  PROVE  IsSequence(emitted) /\ PlainCode(emitted)
<1>1. IsSequence(item) /\ Len(item) \in Nat /\ DOMAIN item = 1 .. Len(item) /\ PlainCode(item)
  BY LoadIsPlain
<1>2. EndsWith(emitted, item, last)
  BY <1>1, AppendedCode, Zenon
<1>3. PICK n \in Nat : n = Len(item)
  BY <1>1
<1>4. /\ IsSequence(emitted) /\ DOMAIN emitted = 1 .. n + 1 /\ emitted[n + 1] = last
      /\ DOMAIN item = 1 .. n /\ \A i \in 1 .. n : emitted[i] = item[i]
  BY <1>2, <1>3, Zenon DEF EndsWith
<1>5. ~IsLabel(last) /\ ~IsBranch(last)
  BY DEF IsLabel, IsBranch
<1>6. ASSUME NEW i \in 1 .. n + 1 PROVE ~IsLabel(emitted[i]) /\ ~IsBranch(emitted[i])
  <2>1. CASE i = n + 1
    BY <1>4, <1>5, <2>1
  <2>2. CASE i # n + 1
    <3>1. i \in 1 .. n
      BY <2>2, BeforeLast, Zenon
    <3> QED BY <1>1, <1>4, <3>1 DEF PlainCode
  <2> QED BY <2>1, <2>2
<1> QED BY <1>4, <1>6 DEF PlainCode

LEMMA EmitBinaryStep ==
  ASSUME NEW Nodes, Writing(Nodes), EmitBinary
  PROVE  Writing(Nodes)'
<1>1. PICK dst, lhs, rhs :
        /\ Generating /\ Doing("binary") /\ label_id' = label_id /\ Replace(<<>>)
        /\ Code(Append(Top.code, TAC("equal", NoLabel, dst, lhs, rhs)))
  BY DEF EmitBinary
<1>2. PICK item, last, emitted :
        /\ item = Top.code /\ last = TAC("equal", NoLabel, dst, lhs, rhs)
        /\ emitted = Append(item, last)
  OBVIOUS
<1>3. last.op \notin Branches \cup {"label"}
  BY <1>2 DEF TAC, Branches
<1>4. IsSequence(emitted) /\ PlainCode(emitted)
  BY <1>2, <1>3, OperationIsPlain DEF IsAppended
<1>5. Written(emitted)
  BY <1>1, <1>2, <1>4, EmissionFacts, CodeWritten
<1> QED BY <1>1, <1>4, <1>5, PlainEmission

LEMMA EmitAssignmentStep ==
  ASSUME NEW Nodes, Writing(Nodes), EmitAssignment
  PROVE  Writing(Nodes)'
<1>1. PICK item, last, emitted :
        /\ Generating /\ Doing("assignment") /\ label_id' = label_id /\ Replace(<<>>)
        /\ item = Top.code
        /\ \E dst, src : last = Store(dst, src) \/ last = Assign(dst, src)
        /\ emitted = Append(item, last) /\ Code(emitted)
  BY DEF EmitAssignment
<1>2. last.op \notin Branches \cup {"label"}
  <2>1. PICK dst, src : last = Store(dst, src) \/ last = Assign(dst, src)
    BY <1>1
  <2>2. Store(dst, src).op = "store" /\ Assign(dst, src).op = "assign"
    BY DEF Store, Assign, TAC
  <2> QED BY <2>1, <2>2 DEF Branches
<1>3. IsSequence(emitted) /\ PlainCode(emitted)
  BY <1>1, <1>2, OperationIsPlain DEF IsAppended
<1>4. Written(emitted)
  BY <1>1, <1>3, EmissionFacts, CodeWritten
<1> QED BY <1>1, <1>3, <1>4, PlainEmission

LEMMA EmitAddressStep ==
  ASSUME NEW Nodes, Writing(Nodes), EmitAddress
  PROVE  Writing(Nodes)'
<1>1. /\ Generating /\ Doing("address") /\ label_id' = label_id /\ Replace(<<>>)
      /\ \/ instructions' = instructions
         \/ Code(<<TakeAddress(Temporary(temp_count), Last(stack).operand)>>)
  BY DEF EmitAddress
<1>2. CASE instructions' = instructions
  <2>1. PICK nothing : nothing = <<>>
    OBVIOUS
  <2>2. Written(nothing) /\ PlainCode(nothing)
    BY <1>2, <2>1, NothingWritten DEF Writing, PlainCode
  <2> QED BY <1>1, <2>2, PlainEmission
<1>3. CASE Code(<<TakeAddress(Temporary(temp_count), Last(stack).operand)>>)
  <2>1. PICK dst, src : dst = Temporary(temp_count) /\ src = Last(stack).operand
    OBVIOUS
  <2>2. PICK take, emitted : take = TakeAddress(dst, src) /\ emitted = <<take>>
    OBVIOUS
  <2>3. take.op = "address"
    BY <2>2 DEF TakeAddress, TAC
  <2>4. IsSequence(emitted) /\ DOMAIN emitted = 1 .. 1 /\ emitted[1] = take
    BY <2>2, Tuple1
  <2>5. PlainCode(emitted)
    BY <2>3, <2>4 DEF PlainCode, IsLabel, IsBranch, Branches
  <2>6. Code(emitted)
    BY <1>3, <2>1, <2>2
  <2>7. Written(emitted)
    BY <1>1, <2>4, <2>6, EmissionFacts, CodeWritten
  <2> QED BY <1>1, <2>5, <2>7, PlainEmission
<1> QED BY <1>1, <1>2, <1>3

-----------------------------------------------------------------------------
\* A function is begun.

\* Nothing is left of the function before it: todo has no label and no jump, and
\* nothing is needed of a loop.
OnlyFunctions == \A i \in DOMAIN todo : FunctionItem(todo[i])

LEMMA FunctionsOnly ==
  ASSUME NEW Nodes, Shaped(Nodes), OneByOne, OnlyFunctions
  PROVE  /\ 0 \notin DOMAIN instructions
         /\ \A i, l : ~MarkAt(0, i, l) /\ ~JumpAt(0, i, l)
         /\ \A i \in DOMAIN todo : Visits(todo[i]) /\ LoopsAround(todo[i].place) = {}
<1>1. 0 \notin DOMAIN instructions
  <2>1. DOMAIN instructions = 1 .. Len(instructions) /\ Len(instructions) \in Nat
    BY SequenceFacts DEF Shaped
  <2> QED BY <2>1
<1>2. \A i \in DOMAIN todo : Visits(todo[i]) /\ LoopsAround(todo[i].place) = {}
  BY DEF OnlyFunctions, OneByOne, FunctionItem
<1>3. \A i \in DOMAIN todo : todo[i].do # "emit" /\ todo[i].do # "emit with top"
  BY <1>2 DEF Visits
<1>4. \A i \in DOMAIN todo : \A l : ~Marks(todo[i], l) /\ ~JumpsTo(todo[i], l)
  BY <1>3 DEF Marks, JumpsTo, Emits
<1>5. \A i, l : ~MarkAt(0, i, l) /\ ~JumpAt(0, i, l)
  BY <1>1, <1>4 DEF MarkAt, JumpAt
<1> QED BY <1>1, <1>2, <1>5

\* The code of the functions before stays, the new one has no label or jump yet.
LEMMA FunctionBegun ==
  ASSUME NEW Nodes, Shaped(Nodes), NEW first, ~IsLabel(first), ~IsBranch(first),
         instructions' = Append(instructions, <<first>>)
  PROVE  /\ Current \in Nat /\ Current' = Current + 1
         /\ IsSequence(instructions') /\ \A f \in DOMAIN instructions' : IsSequence(instructions'[f])
         /\ 0 \notin DOMAIN instructions'
         /\ \A f, i, l : f # 0 => /\ MarkAt(f, i, l)' <=> MarkAt(f, i, l)
                                  /\ JumpAt(f, i, l)' <=> JumpAt(f, i, l)
         /\ \A i, l : ~JumpAt(Current + 1, i, l)
<1>1. PICK S : instructions \in Seq(S)
  BY DEF Shaped, IsSequence
<1>2. PICK last : last = <<first>>
  OBVIOUS
<1>3. PICK T : T = S \cup {last}
  OBVIOUS
<1>4. instructions \in Seq(T) /\ last \in T
  BY <1>1, <1>3
<1>5. instructions' = Append(instructions, last)
  BY <1>2
<1>6. /\ Current \in Nat /\ DOMAIN instructions = 1 .. Current
      /\ instructions' \in Seq(T) /\ Len(instructions') = Current + 1
      /\ instructions'[Current + 1] = last
      /\ \A f \in 1 .. Current : instructions'[f] = instructions[f]
  BY <1>4, <1>5, SequenceEnds DEF Current
<1>7. DOMAIN instructions' = 1 .. Current + 1
  BY <1>6
<1>8. IsSequence(last) /\ DOMAIN last = 1 .. 1 /\ last[1] = first
  BY <1>2, Tuple1
<1>9. IsSequence(instructions') /\ \A f \in DOMAIN instructions' : IsSequence(instructions'[f])
  <2>1. ASSUME NEW f \in 1 .. Current + 1 PROVE IsSequence(instructions'[f])
    <3>1. CASE f = Current + 1
      BY <1>6, <1>8, <3>1
    <3>2. CASE f # Current + 1
      <4>1. f \in 1 .. Current
        BY <1>6, <3>2, BeforeLast, Zenon
      <4> QED BY <1>6, <4>1 DEF Shaped
    <3> QED BY <3>1, <3>2
  <2> QED BY <1>6, <1>7, <2>1 DEF IsSequence
<1>10. ASSUME NEW f, f # 0, NEW i, NEW l
       PROVE  /\ MarkAt(f, i, l)' <=> MarkAt(f, i, l)
              /\ JumpAt(f, i, l)' <=> JumpAt(f, i, l)
  <2>1. CASE f \in 1 .. Current
    <3>1. f \in DOMAIN instructions /\ f \in DOMAIN instructions' /\ instructions'[f] = instructions[f]
      BY <1>6, <1>7, <2>1
    <3> QED BY <1>10, <3>1 DEF MarkAt, JumpAt, IsLabel, IsBranch
  <2>2. CASE f = Current + 1
    <3>1. f \notin DOMAIN instructions /\ f \in DOMAIN instructions' /\ instructions'[f] = last
      BY <1>6, <1>7, <2>2
    <3>2. \A k \in DOMAIN last : ~IsLabel(last[k]) /\ ~IsBranch(last[k])
      BY <1>8
    <3> QED BY <1>10, <3>1, <3>2 DEF MarkAt, JumpAt, IsLabel, IsBranch
  <2>3. CASE f \notin 1 .. Current + 1
    <3>1. f \notin DOMAIN instructions /\ f \notin DOMAIN instructions'
      BY <1>6, <1>7, <2>3
    <3> QED BY <1>10, <3>1 DEF MarkAt, JumpAt
  <2>4. f \in 1 .. Current + 1 => f \in 1 .. Current \/ f = Current + 1
    BY <1>6
  <2> QED BY <2>1, <2>2, <2>3, <2>4
<1>11. \A i, l : ~JumpAt(Current + 1, i, l)
  BY <1>6 DEF JumpAt
<1>12. Current' = Current + 1 /\ 0 \notin DOMAIN instructions'
  BY <1>6, <1>7 DEF Current
<1> QED BY <1>6, <1>9, <1>10, <1>11, <1>12

\* The parts of a function, before those that are left.
AreParts(items) == items = Children(todo[1]) /\ Replace(items)
Entering(Nodes, items) ==
  /\ Moving(Nodes, items)
  /\ \A i \in DOMAIN todo' :
       \/ \E j \in DOMAIN items : i = j /\ todo'[i] = items[j] /\ ~FunctionItem(items[j])
       \/ i > Len(items) /\ i \notin DOMAIN items /\ FunctionItem(todo'[i])
  /\ \A i \in DOMAIN todo' :
       /\ Visits(todo'[i]) /\ LoopsAround(todo'[i].place) = {}
       /\ \A l : ~Marks(todo'[i], l) /\ ~JumpsTo(todo'[i], l)
  /\ Len(items) \in Nat /\ DOMAIN items = 1 .. Len(items)

LEMMA FunctionParts ==
  ASSUME NEW Nodes, AreTrees(Nodes), AreParsed(Nodes), Shaped(Nodes), OneByOne, OnlyFunctions,
         unit' = unit, labels' = labels, Visiting({"function"}),
         NEW items, AreParts(items)
  PROVE  Entering(Nodes, items)
<1>1. /\ Visits(todo[1]) /\ todo # <<>> /\ 1 \in DOMAIN todo /\ todo[1].node.kind \in {"function"}
  BY HeadIsVisit
<1>2. Simple(Nodes, items) /\ \A i \in DOMAIN items : PartItem(Nodes, items[i], i)
  BY ChildrenSimple DEF AreParts
<1>3. IsSequence(items) /\ IsSequence(todo) /\ Disjoint(items) /\ Replace(items)
  BY <1>2 DEF Simple, Shaped, AreParts
<1>4. /\ Len(items) \in Nat /\ DOMAIN items = 1 .. Len(items)
      /\ \A i \in DOMAIN items : i \in DOMAIN todo' /\ todo'[i] = items[i]
      /\ \A i \in DOMAIN todo' : i \notin DOMAIN items =>
           /\ i > Len(items) /\ i - Len(items) + 1 \in DOMAIN todo
           /\ todo'[i] = todo[i - Len(items) + 1]
  BY <1>1, <1>3, TodoAfter
<1>5. LoopsAround(todo[1].place) = {} /\ ~IsLoop(todo[1].node)
  BY <1>1, FunctionsOnly DEF IsLoop
<1>6. \A i \in DOMAIN items : /\ Good(Nodes, items[i]) /\ ~FunctionItem(items[i])
                              /\ Visits(items[i]) /\ LoopsAround(items[i].place) = {}
  <2> SUFFICES ASSUME NEW i \in DOMAIN items
               PROVE  /\ Good(Nodes, items[i]) /\ ~FunctionItem(items[i])
                      /\ Visits(items[i]) /\ LoopsAround(items[i].place) = {}
    OBVIOUS
  <2>1. /\ Good(Nodes, items[i]) /\ ~FunctionItem(items[i]) /\ Visits(items[i])
        /\ LoopsAround(items[i].place)
             = LoopsAround(todo[1].place) \cup (IF IsLoop(todo[1].node) THEN {todo[1].place} ELSE {})
    BY <1>2 DEF PartItem
  <2>2. LoopsAround(items[i].place) = {}
    BY <1>5, <2>1
  <2> QED BY <2>1, <2>2
<1>7. BelowHead(items)
  BY <1>1, <1>2 DEF BelowHead, PartItem
<1>8. Expanding(Nodes, items)
  BY <1>1, <1>3, <1>6, <1>7 DEF Expanding
<1>9. Moving(Nodes, items)
  BY <1>1, <1>3, <1>8 DEF Moving
<1>10. \A i \in DOMAIN todo' : i \notin DOMAIN items =>
         /\ i > Len(items) /\ FunctionItem(todo'[i])
         /\ Visits(todo'[i]) /\ LoopsAround(todo'[i].place) = {}
  BY <1>4, FunctionsOnly DEF OnlyFunctions
<1>11. \A i \in DOMAIN todo' : Visits(todo'[i]) /\ LoopsAround(todo'[i].place) = {}
  BY <1>4, <1>6, <1>10
<1>12. \A i \in DOMAIN todo' : todo'[i].do # "emit" /\ todo'[i].do # "emit with top"
  BY <1>11 DEF Visits
<1>13. \A i \in DOMAIN todo' : \A l : ~Marks(todo'[i], l) /\ ~JumpsTo(todo'[i], l)
  BY <1>12 DEF Marks, JumpsTo, Emits
<1>14. ASSUME NEW i \in DOMAIN todo'
       PROVE  \/ \E j \in DOMAIN items : i = j /\ todo'[i] = items[j] /\ ~FunctionItem(items[j])
              \/ i > Len(items) /\ i \notin DOMAIN items /\ FunctionItem(todo'[i])
  BY <1>4, <1>6, <1>10
<1> QED BY <1>4, <1>9, <1>11, <1>13, <1>14 DEF Entering

LEMMA VisitFunctionDefinitionStep ==
  ASSUME NEW Nodes, AreTrees(Nodes), AreParsed(Nodes), Writing(Nodes), VisitFunctionDefinition
  PROVE  Writing(Nodes)'
<1>1. /\ Generating /\ Visiting({"function"}) /\ label_id' = label_id
      /\ Replace(Children(Head(todo))) /\ instructions' = Append(instructions, <<Function(Place[1])>>)
  BY DEF VisitFunctionDefinition
<1>2. /\ unit' = unit /\ labels' = labels /\ Shaped(Nodes) /\ Head(todo) = todo[1] /\ todo # <<>>
      /\ Visits(todo[1]) /\ todo[1].node.kind \in {"function"} /\ 1 \in DOMAIN todo
      /\ label_id \in Nat
  BY <1>1, VisitFacts
<1>3. Apart /\ OneByOne /\ MarksGiven /\ MarksUnique /\ JumpsKnown /\ LoopsKnown /\ Bound
  BY DEF Writing
<1>4. OnlyFunctions
  <2>1. FunctionItem(todo[1])
    BY <1>2 DEF FunctionItem, IsFunction
  <2>2. \A j \in DOMAIN todo : j = 1 \/ 1 < j
    BY <1>2, SequenceFacts DEF Shaped
  <2> QED BY <1>2, <1>3, <2>1, <2>2 DEF OnlyFunctions, OneByOne
<1>5. PICK items : items = Children(todo[1])
  OBVIOUS
<1>6. Replace(items)
  BY <1>1, <1>2, <1>5
<1>7. /\ Moving(Nodes, items)
      /\ \A i \in DOMAIN todo' :
           \/ \E j \in DOMAIN items : i = j /\ todo'[i] = items[j] /\ ~FunctionItem(items[j])
           \/ i > Len(items) /\ i \notin DOMAIN items /\ FunctionItem(todo'[i])
      /\ \A i \in DOMAIN todo' :
           /\ Visits(todo'[i]) /\ LoopsAround(todo'[i].place) = {}
           /\ \A l : ~Marks(todo'[i], l) /\ ~JumpsTo(todo'[i], l)
      /\ Len(items) \in Nat /\ DOMAIN items = 1 .. Len(items)
  <2>1. AreParts(items)
    BY <1>5, <1>6 DEF AreParts
  <2>2. Entering(Nodes, items)
    BY <1>1, <1>2, <1>3, <1>4, <2>1, FunctionParts
  <2> QED BY <2>2, Zenon DEF Entering
<1>8. PICK first : first = Function(Place[1])
  OBVIOUS
<1>9. ~IsLabel(first) /\ ~IsBranch(first)
  <2>1. first.op = "function"
    BY <1>8 DEF Function, TAC
  <2> QED BY <2>1 DEF IsLabel, IsBranch, Branches
<1>10. instructions' = Append(instructions, <<first>>)
  BY <1>1, <1>8
<1>11. /\ Current \in Nat /\ Current' = Current + 1
       /\ IsSequence(instructions') /\ \A f \in DOMAIN instructions' : IsSequence(instructions'[f])
       /\ 0 \notin DOMAIN instructions'
       /\ \A f, i, l : f # 0 => /\ MarkAt(f, i, l)' <=> MarkAt(f, i, l)
                                /\ JumpAt(f, i, l)' <=> JumpAt(f, i, l)
       /\ \A i, l : ~JumpAt(Current + 1, i, l)
  BY <1>2, <1>9, <1>10, FunctionBegun
<1>12. \A i, l : ~MarkAt(0, i, l) /\ ~JumpAt(0, i, l)
  BY <1>2, <1>3, <1>4, FunctionsOnly
<1>13. \A i, l : ~MarkAt(0, i, l)' /\ ~JumpAt(0, i, l)'
  BY <1>7, <1>11 DEF MarkAt, JumpAt, Marks, JumpsTo, Emits
<1>14. Shaped(Nodes)'
  <2>1. IsSequence(todo') /\ (\A i \in DOMAIN todo : Good(Nodes, todo[i]))'
    BY <1>2, <1>7, GoodAfter
  <2> QED BY <1>1, <1>2, <1>11, <2>1 DEF Shaped, IsSequence
<1>15. Apart'
  BY <1>2, <1>3, <1>7, ApartAfter
<1>16. \A i \in DOMAIN todo' : (LoopsAround(todo[i].place) = {})'
  <2>2. ASSUME NEW i \in DOMAIN todo' PROVE (LoopsAround(todo[i].place) = {})'
    <3>1. PICK place : place = todo'[i].place
      OBVIOUS
    <3>2. LoopsAround(place) = {}
      BY <1>7, <3>1
    <3>3. LoopsAround(place)' = {}
      BY <1>2, <3>2, SamePlaces
    <3>4. LoopsAround(place)' = LoopsAround(todo[i].place)'
      BY <3>1 DEF LoopsAround, NodeAt
    <3> QED BY <3>3, <3>4
  <2> QED BY <2>2
<1>17. OneByOne'
  <2>1. ASSUME NEW i \in DOMAIN todo', NEW j \in DOMAIN todo', i < j, FunctionItem(todo'[i])
        PROVE  FunctionItem(todo'[j])
    <3>1. i > Len(items)
      BY <1>7, <2>1
    <3>2. j \notin DOMAIN items
      <4>1. DOMAIN todo' \subseteq Nat
        BY <1>14, SequenceFacts DEF Shaped, IsSequence
      <4> QED BY <1>7, <2>1, <3>1, <4>1
    <3> QED BY <1>7, <3>2
  <2>3. Current' # 0
    BY <1>11
  <2> QED BY <1>16, <2>1, <2>3 DEF OneByOne, FunctionItem, Visits, IsFunction
<1>18. MarksGiven' /\ MarksUnique'
  <2>1. NewMarks(items)
    <3>1. \A i \in DOMAIN items : \E j \in DOMAIN todo' : todo'[j] = items[i]
      BY <1>2, <1>6, <1>7, TodoAfter DEF Moving, Expanding, Shaped
    <3>2. \A i \in DOMAIN items : \A l : ~Marks(items[i], l)
      BY <1>7, <3>1
    <3> QED BY <1>1, <1>2, <3>2 DEF NewMarks
  <2>2. \A f, i, l : MarkAt(f, i, l)' => f # 0 /\ MarkAt(f, i, l)
    BY <1>11, <1>13
  <2>3. MarksUnique'
    BY <1>3, <2>2 DEF MarksUnique
  <2>4. \A f, i, l : MarkAt(f, i, l)' => Given(l)'
    BY <1>2, <1>3, <1>7, <2>1, <2>2, GivenStays DEF MarksGiven
  <2> QED BY <2>3, <2>4 DEF MarksGiven
<1>19. JumpsKnown'
  <2>1. ASSUME NEW f, NEW i, NEW l, JumpAt(f, i, l)'
        PROVE  f # 0 /\ f # Current' /\ \E j : MarkAt(f, j, l)'
    <3>1. f # 0 /\ JumpAt(f, i, l) /\ f # Current'
      BY <1>11, <1>13, <2>1
    <3>2. \E j : MarkAt(f, j, l)
      <4>1. CASE f \in {0, Current}
        <5>1. Known(l)
          BY <1>3, <3>1, <4>1 DEF JumpsKnown
        <5>2. PICK g, j : g \in {0, Current} /\ MarkAt(g, j, l)
          BY <5>1 DEF Known
        <5>3. g = f
          BY <1>12, <3>1, <4>1, <5>2
        <5> QED BY <5>2, <5>3
      <4>2. CASE f \notin {0, Current}
        BY <1>3, <3>1, <4>2 DEF JumpsKnown
      <4> QED BY <4>1, <4>2
    <3> QED BY <1>11, <3>1, <3>2
  <2> QED BY <2>1 DEF JumpsKnown
<1>20. LoopsKnown'
  BY <1>16 DEF LoopsKnown, LoopKnown
<1>21. Bound'
  BY <1>2, <1>3, LabelsStay
<1> QED BY <1>14, <1>15, <1>17, <1>18, <1>19, <1>20, <1>21 DEF Writing

-----------------------------------------------------------------------------
\* Before code is generated: the analysis passes every loop and every jump.

\* A place is in the tree of a function.
LEMMA PlaceInFunction ==
  ASSUME NEW p, IsPlace(p)
  PROVE  p[1] \in DOMAIN unit /\ Extends(p, <<p[1]>>)
<1>1. PICK nodes : Path(p, nodes)
  BY DEF IsPlace
<1>2. Len(p) \in Nat \ {0} /\ p[1] \in DOMAIN unit
  BY <1>1 DEF Path
<1>3. PICK f : f = p[1]
  OBVIOUS
<1>4. Len(<<f>>) = 1 /\ <<f>>[1] = f
  OBVIOUS
<1>5. Len(<<f>>) <= Len(p) /\ \A k \in 1 .. Len(<<f>>) : p[k] = <<f>>[k]
  BY <1>2, <1>3, <1>4
<1> QED BY <1>2, <1>3, <1>5 DEF Extends

\* A place below another is the place of a part or below it.
LEMMA PlaceInPart ==
  ASSUME NEW p, IsPlace(p), NEW q, IsPlace(q), Extends(p, q), p # q
  PROVE  \E c \in DOMAIN NodeAt(q).parts : c \in Nat /\ Extends(p, Append(q, c))
<1>1. PICK nodes : Path(p, nodes)
  BY DEF IsPlace
<1>2. PICK n : n = Len(q)
  OBVIOUS
<1>3. /\ p \in Seq(Nat) /\ Len(p) \in Nat \ {0} /\ q \in Seq(Nat) /\ n \in Nat \ {0}
      /\ DOMAIN nodes = 1 .. Len(p) /\ p[1] \in DOMAIN unit /\ nodes[1] = unit[p[1]]
      /\ \A k \in 2 .. Len(p) :
           p[k] \in DOMAIN nodes[k - 1].parts /\ nodes[k] = nodes[k - 1].parts[p[k]]
  BY <1>1, <1>2 DEF IsPlace, Path
<1>4. n <= Len(p) /\ \A k \in 1 .. n : p[k] = q[k]
  BY <1>2 DEF Extends
<1>5. n # Len(p)
  BY <1>2, <1>3, <1>4, SeqEqual
<1>6. PICK above : above = [k \in 1 .. n |-> nodes[k]]
  OBVIOUS
<1>7. DOMAIN above = 1 .. n /\ \A k \in 1 .. n : above[k] = nodes[k]
  BY <1>6
<1>8. above = [k \in 1 .. n |-> above[k]]
  BY <1>6, <1>7
<1>9. Path(q, above)
  <2>1. q[1] \in DOMAIN unit /\ above[1] = unit[q[1]]
    <3>1. 1 \in 1 .. n
      BY <1>3
    <3>2. q[1] = p[1] /\ above[1] = nodes[1]
      BY <1>4, <1>7, <3>1
    <3> QED BY <1>3, <3>2
  <2>2. ASSUME NEW k \in 2 .. n
        PROVE  q[k] \in DOMAIN above[k - 1].parts /\ above[k] = above[k - 1].parts[q[k]]
    <3>1. k \in 2 .. Len(p) /\ k \in 1 .. n /\ k - 1 \in 1 .. n
      BY <1>3, <1>4
    <3> QED BY <1>3, <1>4, <1>7, <3>1
  <2> QED BY <1>2, <1>3, <1>7, <1>8, <2>1, <2>2 DEF Path
<1>10. NodeAt(q) = nodes[n]
  <2>1. n \in 1 .. n
    BY <1>3
  <2> QED BY <1>2, <1>7, <1>9, <2>1, PathNode
<1>11. PICK c : c = p[n + 1]
  OBVIOUS
<1>12. c \in DOMAIN NodeAt(q).parts /\ c \in Nat /\ n + 1 <= Len(p)
  <2>1. n + 1 \in 2 .. Len(p) /\ (n + 1) - 1 = n /\ n + 1 \in DOMAIN p
    BY <1>3, <1>4, <1>5
  <2> QED BY <1>3, <1>10, <1>11, <2>1
<1>13. /\ Len(Append(q, c)) = n + 1 /\ Append(q, c)[n + 1] = c
       /\ \A k \in 1 .. n : Append(q, c)[k] = q[k]
  BY <1>2, <1>3, <1>12
<1>14. \A k \in 1 .. n + 1 : k \in 1 .. n \/ k = n + 1
  BY <1>3
<1>15. \A k \in 1 .. n + 1 : p[k] = Append(q, c)[k]
  BY <1>4, <1>11, <1>13, <1>14
<1> QED BY <1>12, <1>13, <1>15 DEF Extends

\* What of the tree at the head of todo is to be labelled is labelled or
\* reported, or in one of the trees that replace it.
ToLabel(p) == IsPlace(p) /\ (IsLoop(NodeAt(p)) \/ IsJump(NodeAt(p)))
VisitedBy(items, p) == \E i \in DOMAIN items : Visits(items[i]) /\ Extends(p, items[i].place)
HeadCovered(items) ==
  \A p : ToLabel(p) /\ Visits(todo[1]) /\ Extends(p, todo[1].place) =>
    p \in DOMAIN labels' \cup errors' \/ VisitedBy(items, p)

LEMMA CoveredAfter ==
  ASSUME Covered, IsSequence(todo), todo # <<>>, unit' = unit,
         instructions' = instructions, label_id' = label_id,
         NEW items, IsSequence(items), Replace(items),
         DOMAIN labels \subseteq DOMAIN labels', errors \subseteq errors', HeadCovered(items)
  PROVE  Covered'
<1>1. instructions' = <<>> /\ label_id' = 0
  BY DEF Covered
<1>2. ASSUME NEW p, ToLabel(p)
      PROVE  p \in DOMAIN labels' \cup errors' \/ VisitedBy(todo', p)
  <2>1. CASE p \in DOMAIN labels \cup errors
    BY <2>1
  <2>2. CASE p \notin DOMAIN labels \cup errors
    <3>1. PICK i \in DOMAIN todo : Visits(todo[i]) /\ Extends(p, todo[i].place)
      BY <1>2, <2>2 DEF Covered, ToLabel
    <3>2. CASE i = 1
      <4>1. p \in DOMAIN labels' \cup errors' \/ VisitedBy(items, p)
        BY <1>2, <3>1, <3>2 DEF HeadCovered
      <4>2. \A j \in DOMAIN items : j \in DOMAIN todo' /\ todo'[j] = items[j]
        BY TodoAfter
      <4> QED BY <4>1, <4>2 DEF VisitedBy
    <3>3. CASE i # 1
      <4>1. Len(todo) \in Nat /\ DOMAIN todo = 1 .. Len(todo)
        BY SequenceFacts
      <4>2. i \in 2 .. Len(todo)
        BY <3>3, <4>1
      <4>3. PICK j : j \in DOMAIN todo' /\ todo'[j] = todo[i]
        BY <4>2, TodoAfter
      <4> QED BY <3>1, <4>3 DEF VisitedBy
    <3> QED BY <3>2, <3>3
  <2> QED BY <2>1, <2>2
<1>3. \A p : ToLabel(p)' = ToLabel(p)
  BY SamePlaces DEF ToLabel
<1> QED BY <1>1, <1>2, <1>3 DEF Covered, ToLabel, VisitedBy, Visits, Extends

\* The steps of the analysis.
LEMMA AnalysisFacts ==
  ASSUME NEW Nodes, Walking(Nodes), todo # <<>>
  PROVE  /\ IsSequence(todo) /\ 1 \in DOMAIN todo /\ Head(todo) = todo[1]
         /\ Visits(todo[1]) => /\ IsPlace(todo[1].place) /\ todo[1].place \in Seq(Nat)
                               /\ todo[1].node = NodeAt(todo[1].place) /\ todo[1].node \in Nodes
<1>1. todo \in Seq(Entries(Nodes))
  BY DEF Walking
<1>2. IsSequence(todo) /\ 1 \in DOMAIN todo /\ Head(todo) = todo[1] /\ todo[1] \in Entries(Nodes)
  BY <1>1 DEF IsSequence
<1>3. Visits(todo[1]) => todo[1].node \in Nodes /\ todo[1].place \in Seq(Nat)
  BY <1>2, EntryFacts
<1>4. Visits(todo[1]) => IsPlace(todo[1].place) /\ todo[1].node = NodeAt(todo[1].place)
  BY <1>2 DEF Walking, Located
<1> QED BY <1>2, <1>3, <1>4

\* The parts of a node hold what is below it.
LEMMA PartsCover ==
  ASSUME NEW Nodes, Walking(Nodes), todo # <<>>, Visits(todo[1]),
         NEW parts, parts = Children(todo[1]),
         NEW p, IsPlace(p), Extends(p, todo[1].place), p # todo[1].place
  PROVE  VisitedBy(parts, p)
<1>1. IsPlace(todo[1].place) /\ todo[1].node = NodeAt(todo[1].place)
  BY AnalysisFacts
<1>2. PICK c \in DOMAIN todo[1].node.parts : Extends(p, Append(todo[1].place, c))
  BY <1>1, PlaceInPart
<1>3. c \in DOMAIN parts /\ parts[c] = Visit(todo[1].node.parts[c], Append(todo[1].place, c))
  BY DEF Children
<1>4. Visits(parts[c]) /\ parts[c].place = Append(todo[1].place, c)
  BY <1>3 DEF Visits, Visit
<1> QED BY <1>2, <1>3, <1>4 DEF VisitedBy

LEMMA AnalyzeOtherCovers ==
  ASSUME NEW Nodes, AreTrees(Nodes), Walking(Nodes), Covered, AnalyzeOther
  PROVE  Covered'
<1>1. /\ unit' = unit /\ labels' = labels /\ errors' = errors
      /\ instructions' = instructions /\ label_id' = label_id
      /\ Replace(Children(Head(todo))) /\ todo # <<>> /\ Head(todo).do = "visit"
      /\ ~IsLoop(Head(todo).node) /\ ~IsJump(Head(todo).node)
  BY DEF AnalyzeOther, Analyzing, analyzer, visitor, Doing
<1>2. IsSequence(todo) /\ Head(todo) = todo[1] /\ Visits(todo[1])
  BY <1>1, AnalysisFacts DEF Visits
<1>3. todo[1].node = NodeAt(todo[1].place)
  BY <1>1, <1>2, AnalysisFacts
<1>4. PICK items : items = Children(todo[1])
  OBVIOUS
<1>5. IsSequence(items)
  BY <1>1, <1>2, <1>4, ChildrenFacts DEF IsSequence
<1>6. HeadCovered(items)
  BY <1>1, <1>2, <1>3, <1>4, PartsCover DEF HeadCovered, ToLabel
<1>7. Replace(items)
  BY <1>1, <1>2, <1>4
<1> QED BY <1>1, <1>2, <1>5, <1>6, <1>7, CoveredAfter

LEMMA AnalyzeLoopCovers ==
  ASSUME NEW Nodes, AreTrees(Nodes), Walking(Nodes), Covered, AnalyzeLoop
  PROVE  Covered'
<1>1. /\ unit' = unit /\ SetLabel(loop_id_counter) /\ errors' = errors
      /\ instructions' = instructions /\ label_id' = label_id
      /\ Replace(Children(Head(todo)) \o <<Do("leave loop")>>)
      /\ todo # <<>> /\ Head(todo).do = "visit"
  BY DEF AnalyzeLoop, Analyzing, visitor, Visiting, Doing
<1>2. IsSequence(todo) /\ Head(todo) = todo[1] /\ Visits(todo[1])
  BY <1>1, AnalysisFacts DEF Visits
<1>3. DOMAIN labels' = DOMAIN labels \cup {todo[1].place}
  BY <1>1, <1>2 DEF SetLabel, Place
<1>4. PICK parts, last : parts = Children(todo[1]) /\ last = <<Do("leave loop")>>
  OBVIOUS
<1>5. IsSequence(parts)
  BY <1>1, <1>2, <1>4, ChildrenFacts DEF IsSequence
<1>6. IsSequence(last)
  BY <1>4, Tuple1
<1>7. PICK items : items = parts \o last
  OBVIOUS
<1>8. /\ IsSequence(items) /\ DOMAIN items = 1 .. Len(parts) + Len(last)
      /\ \A i \in 1 .. Len(parts) : items[i] = parts[i]
  BY <1>5, <1>6, <1>7, JoinedSequences
<1>9. /\ DOMAIN parts = 1 .. Len(parts) /\ Len(parts) \in Nat /\ Len(last) \in Nat
  BY <1>5, <1>6, SequenceFacts
<1>10. \A i \in DOMAIN parts : i \in DOMAIN items /\ items[i] = parts[i]
  BY <1>8, <1>9
<1>11. HeadCovered(items)
  <2> SUFFICES ASSUME NEW p, IsPlace(p), Extends(p, todo[1].place), p # todo[1].place
               PROVE  VisitedBy(items, p)
    BY <1>3 DEF HeadCovered, ToLabel
  <2>1. VisitedBy(parts, p)
    BY <1>1, <1>2, <1>4, PartsCover
  <2> QED BY <1>10, <2>1 DEF VisitedBy
<1>12. Replace(items)
  BY <1>1, <1>2, <1>4, <1>7
<1> QED BY <1>1, <1>2, <1>3, <1>8, <1>11, <1>12, CoveredAfter

LEMMA LeaveLoopCovers ==
  ASSUME NEW Nodes, Walking(Nodes), Covered, LeaveLoop
  PROVE  Covered'
<1>1. /\ unit' = unit /\ labels' = labels /\ errors' = errors
      /\ instructions' = instructions /\ label_id' = label_id
      /\ Replace(<<>>) /\ todo # <<>> /\ Head(todo).do = "leave loop"
  BY DEF LeaveLoop, Analyzing, visitor, Doing
<1>2. IsSequence(todo) /\ ~Visits(todo[1])
  BY <1>1, AnalysisFacts DEF Visits
<1>3. PICK items : items = <<>>
  OBVIOUS
<1>4. IsSequence(items) /\ Replace(items)
  <2>1. IsSequence(items)
    BY <1>3 DEF IsSequence
  <2> QED BY <1>1, <1>3, <2>1
<1>5. HeadCovered(items)
  BY <1>2 DEF HeadCovered
<1> QED BY <1>1, <1>2, <1>4, <1>5, CoveredAfter

LEMMA AnalyzeJumpCovers ==
  ASSUME NEW Nodes, AreParsed(Nodes), Walking(Nodes), Covered, AnalyzeJump
  PROVE  Covered'
<1>1. /\ unit' = unit /\ instructions' = instructions /\ label_id' = label_id
      /\ Replace(<<>>) /\ todo # <<>> /\ Head(todo).do = "visit" /\ IsJump(Head(todo).node)
      /\ IF loop_ids = <<>> THEN errors' = errors \cup {Place} /\ labels' = labels
         ELSE SetLabel(Last(loop_ids)) /\ errors' = errors
  BY DEF AnalyzeJump, Analyzing, visitor, Visiting, Doing, IsJump
<1>2. IsSequence(todo) /\ Head(todo) = todo[1] /\ Visits(todo[1])
  BY <1>1, AnalysisFacts DEF Visits
<1>3. /\ IsPlace(todo[1].place) /\ todo[1].node = NodeAt(todo[1].place) /\ todo[1].node \in Nodes
  BY <1>1, <1>2, AnalysisFacts
<1>4. todo[1].node.parts = <<>>
  BY <1>1, <1>2, <1>3 DEF AreParsed
<1>5. /\ DOMAIN labels \subseteq DOMAIN labels' /\ errors \subseteq errors'
      /\ todo[1].place \in DOMAIN labels' \cup errors'
  <2>1. CASE loop_ids = <<>>
    BY <1>1, <1>2, <2>1 DEF Place
  <2>2. CASE loop_ids # <<>>
    BY <1>1, <1>2, <2>2 DEF SetLabel, Place
  <2> QED BY <2>1, <2>2
<1>6. PICK items : items = <<>>
  OBVIOUS
<1>7. HeadCovered(items)
  <2> SUFFICES ASSUME NEW p, IsPlace(p), Extends(p, todo[1].place)
               PROVE  p = todo[1].place
    BY <1>5 DEF HeadCovered, ToLabel
  <2>1. \A c : c \notin DOMAIN todo[1].node.parts
    BY <1>4
  <2> QED BY <1>3, <2>1, PlaceInPart
<1>8. IsSequence(items) /\ Replace(items)
  BY <1>1, <1>6 DEF IsSequence
<1> QED BY <1>1, <1>2, <1>5, <1>7, <1>8, CoveredAfter

-----------------------------------------------------------------------------
\* From the one to the other, and to the end.

\* The visitor starts with nothing but functions.
Starting(Nodes) ==
  /\ unit \in Seq(Nodes) /\ unit \in Programs /\ todo = Functions
  /\ instructions = <<>> /\ label_id = 0 /\ Bound

LEMMA StartsWriting ==
  ASSUME NEW Nodes, AreParsed(Nodes), Starting(Nodes)
  PROVE  Writing(Nodes)
<1>1. /\ unit \in Seq(Nodes) /\ unit \in Programs /\ todo = Functions
      /\ instructions = <<>> /\ label_id = 0 /\ Bound
  BY DEF Starting
<1>2. DOMAIN unit = 1 .. Len(unit) /\ Len(unit) \in Nat
  BY <1>1
<1>3. todo = [i \in 1 .. Len(unit) |-> Visit(unit[i], <<i>>)] /\ DOMAIN todo = 1 .. Len(unit)
  BY <1>1, <1>2 DEF Functions
<1>4. ASSUME NEW i \in DOMAIN todo
      PROVE  /\ i \in DOMAIN unit /\ i \in Nat /\ todo[i].place = <<i>>
             /\ todo[i].node = unit[i] /\ Visits(todo[i]) /\ unit[i] \in Nodes
             /\ LoopsAround(<<i>>) = {} /\ IsPlace(<<i>>) /\ NodeAt(<<i>>) = unit[i]
             /\ IsFunction(unit[i])
  <2>1. i \in DOMAIN unit /\ i \in Nat /\ unit[i] \in Nodes
    BY <1>1, <1>2, <1>3
  <2>2. todo[i] = [do |-> "visit", node |-> unit[i], place |-> <<i>>]
    BY <1>3 DEF Visit
  <2>3. todo[i].do = "visit" /\ todo[i].place = <<i>> /\ todo[i].node = unit[i]
    BY <2>2
  <2>4. LoopsAround(<<i>>) = {} /\ IsPlace(<<i>>) /\ NodeAt(<<i>>) = unit[i]
    BY <2>1, FunctionPlace
  <2>5. IsFunction(unit[i])
    BY <1>1, <2>1 DEF AreParsed
  <2> QED BY <2>1, <2>3, <2>4, <2>5 DEF Visits
<1>5. \A i \in DOMAIN todo :
        /\ Visits(todo[i]) /\ FunctionItem(todo[i]) /\ LoopsAround(todo[i].place) = {}
        /\ IsPlace(todo[i].place) /\ todo[i].node = NodeAt(todo[i].place) /\ todo[i].node \in Nodes
  BY <1>4 DEF FunctionItem
<1>6. \A i \in DOMAIN todo : todo[i].do # "emit" /\ todo[i].do # "emit with top"
  BY <1>5 DEF Visits
<1>7. \A i \in DOMAIN todo : /\ Good(Nodes, todo[i])
                             /\ \A l : ~Marks(todo[i], l) /\ ~JumpsTo(todo[i], l)
  BY <1>5, <1>6 DEF Good, Emits, Marks, JumpsTo
<1>8. IsSequence(todo)
  <2>1. PICK S : S = {todo[i] : i \in 1 .. Len(unit)}
    OBVIOUS
  <2>2. todo \in Seq(S)
    BY <1>2, <1>3, <2>1
  <2> QED BY <2>2 DEF IsSequence
<1>9. IsSequence(instructions) /\ DOMAIN instructions = {} /\ Current = 0
  BY <1>1 DEF IsSequence, Current
<1>10. Shaped(Nodes)
  BY <1>1, <1>7, <1>8, <1>9 DEF Shaped
<1>11. Apart
  <2>1. ASSUME NEW i \in DOMAIN todo, NEW j \in DOMAIN todo, i # j
        PROVE  ~Extends(todo[i].place, todo[j].place)
    <3>1. todo[i].place = <<i>> /\ todo[j].place = <<j>>
      BY <1>4
    <3> QED BY <2>1, <3>1 DEF Extends
  <2> QED BY <2>1 DEF Apart
<1>12. OneByOne
  BY <1>5 DEF OneByOne
<1>13. \A f, i, l : ~MarkAt(f, i, l) /\ ~JumpAt(f, i, l)
  BY <1>7, <1>9 DEF MarkAt, JumpAt
<1>14. MarksGiven /\ MarksUnique /\ JumpsKnown
  BY <1>13 DEF MarksGiven, MarksUnique, JumpsKnown
<1>15. LoopsKnown
  BY <1>5 DEF LoopsKnown, LoopKnown
<1> QED BY <1>1, <1>10, <1>11, <1>12, <1>14, <1>15 DEF Writing

\* When nothing is left to do, every jump has its label.
LEMMA WrittenResolves ==
  ASSUME NEW Nodes, Writing(Nodes), todo = <<>>
  PROVE  JumpsResolve
<1> DEFINE marks == {m \in UNION {{f} \X DOMAIN instructions[f] : f \in DOMAIN instructions} :
                      IsLabel(instructions[m[1]][m[2]])}
           label(m) == instructions[m[1]][m[2]].label
<1>1. MarksUnique /\ JumpsKnown /\ IsSequence(instructions)
  BY DEF Writing, Shaped
<1>2. 0 \notin DOMAIN instructions
  BY <1>1, SequenceFacts
<1>3. \A f, i, l : ~(f = 0 /\ i \in DOMAIN todo)
  OBVIOUS
<1>4. \A f, i, l : MarkAt(f, i, l) <=>
        /\ f \in DOMAIN instructions /\ i \in DOMAIN instructions[f]
        /\ IsLabel(instructions[f][i]) /\ instructions[f][i].label = l
  BY <1>3 DEF MarkAt
<1>5. ASSUME NEW m \in marks
      PROVE  m = <<m[1], m[2]>> /\ MarkAt(m[1], m[2], label(m))
  <2>1. PICK f \in DOMAIN instructions : m \in {f} \X DOMAIN instructions[f]
    OBVIOUS
  <2>2. m = <<m[1], m[2]>> /\ m[1] = f /\ m[2] \in DOMAIN instructions[f]
    BY <2>1
  <2> QED BY <1>4, <2>2
<1>6. ASSUME NEW f, NEW i, NEW l, MarkAt(f, i, l)
      PROVE  \E m \in marks : m[1] = f /\ label(m) = l
  <2>1. /\ f \in DOMAIN instructions /\ i \in DOMAIN instructions[f]
        /\ IsLabel(instructions[f][i]) /\ instructions[f][i].label = l
    BY <1>4, <1>6
  <2>2. <<f, i>> \in marks
    BY <2>1
  <2> QED BY <2>1, <2>2
<1> HIDE DEF marks
<1>7. \A m, n \in marks : label(m) = label(n) => m = n
  <2> SUFFICES ASSUME NEW m \in marks, NEW n \in marks, label(m) = label(n) PROVE m = n
    OBVIOUS
  <2>1. MarkAt(m[1], m[2], label(m)) /\ MarkAt(n[1], n[2], label(m))
    BY <1>5
  <2>2. m[1] = n[1] /\ m[2] = n[2]
    BY <1>1, <2>1 DEF MarksUnique
  <2> QED BY <1>5, <2>2
<1>8. ASSUME NEW f \in DOMAIN instructions, NEW i \in DOMAIN instructions[f],
             IsBranch(instructions[f][i])
      PROVE  \E m \in marks : m[1] = f /\ label(m) = instructions[f][i].label
  <2>1. PICK l : l = instructions[f][i].label
    OBVIOUS
  <2>2. JumpAt(f, i, l) /\ f # 0
    BY <1>2, <1>8, <2>1 DEF JumpAt
  <2>3. \E j : MarkAt(f, j, l)
    <3>1. CASE f = Current
      <4>1. PICK g, j : g \in {0, Current} /\ MarkAt(g, j, l)
        BY <1>1, <2>2, <3>1 DEF JumpsKnown, Known
      <4>2. g = f
        BY <1>2, <1>4, <3>1, <4>1
      <4> QED BY <4>1, <4>2
    <3>2. CASE f # Current
      BY <1>1, <2>2, <3>2 DEF JumpsKnown
    <3> QED BY <3>1, <3>2
  <2> QED BY <1>6, <2>1, <2>3
<1> QED BY <1>7, <1>8 DEF JumpsResolve, marks

\* Both also in the next state.
LEMMA StateFacts ==
  /\ \A Nodes : AreParsed(Nodes) /\ Starting(Nodes) => Writing(Nodes)
  /\ \A Nodes : Writing(Nodes) /\ todo = <<>> => JumpsResolve
BY StartsWriting, WrittenResolves

LEMMA NextStateFacts ==
  (/\ \A Nodes : AreParsed(Nodes) /\ Starting(Nodes) => Writing(Nodes)
   /\ \A Nodes : Writing(Nodes) /\ todo = <<>> => JumpsResolve)'
BY StateFacts, PTL

\* What nothing changes.
LEMMA WritingKept ==
  ASSUME NEW Nodes, Writing(Nodes), UNCHANGED <<unit, labels, todo, instructions, label_id>>
  PROVE  Writing(Nodes)'
<1>1. /\ unit' = unit /\ labels' = labels /\ todo' = todo
      /\ instructions' = instructions /\ label_id' = label_id
  OBVIOUS
<1>2. Shaped(Nodes)'
  <2>1. ASSUME NEW i \in DOMAIN todo' PROVE Good(Nodes, todo[i])'
    <3>1. PICK item : item = todo'[i]
      OBVIOUS
    <3>2. Good(Nodes, item)
      BY <1>1, <2>1, <3>1 DEF Writing, Shaped
    <3>3. Good(Nodes, item)'
      BY <1>1, <3>2, LabelsStay
    <3>4. IsPlace(todo[i].place)' = IsPlace(item.place)' /\ NodeAt(todo[i].place)' = NodeAt(item.place)'
      BY <3>1 DEF IsPlace, Path, NodeAt
    <3> QED BY <3>1, <3>3, <3>4 DEF Good, Visits, Emits
  <2>2. (\A i \in DOMAIN todo : Good(Nodes, todo[i]))'
    BY <2>1
  <2> QED BY <1>1, <2>2 DEF Writing, Shaped, IsSequence
<1>3. \A i : LoopsAround(todo[i].place)' = LoopsAround(todo[i].place)
  <2>1. ASSUME NEW i PROVE LoopsAround(todo[i].place)' = LoopsAround(todo[i].place)
    BY <1>1 DEF LoopsAround, NodeAt
  <2> QED BY <2>1
<1>4. \A i : FunctionItem(todo[i])' = FunctionItem(todo[i])
  BY <1>1 DEF FunctionItem, Visits, IsFunction
<1>5. Apart' /\ OneByOne'
  BY <1>1, <1>3, <1>4 DEF Writing, Apart, OneByOne, Visits, Extends, Current
<1>6. \A f, i, l : /\ MarkAt(f, i, l)' = MarkAt(f, i, l) /\ JumpAt(f, i, l)' = JumpAt(f, i, l)
                  /\ Given(l)' = Given(l)
  BY <1>1 DEF MarkAt, JumpAt, Given, Begun, Marks, JumpsTo, Emits, IsLabel, IsBranch, Visits, Extends,
              IsLoop, NodeAt
<1>7. MarksGiven' /\ MarksUnique'
  BY <1>6 DEF Writing, MarksGiven, MarksUnique
<1>8. Current' = Current /\ \A l : Known(l)' = Known(l)
  BY <1>1, <1>6 DEF Current, Known
<1>9. JumpsKnown'
  BY <1>6, <1>8 DEF Writing, JumpsKnown
<1>10. LoopsKnown'
  <2>1. ASSUME NEW i \in DOMAIN todo', Visits(todo'[i]) PROVE LoopKnown(LoopsAround(todo[i].place))'
    <3>1. PICK p : p = todo'[i].place
      OBVIOUS
    <3>2. LoopKnown(LoopsAround(p))
      BY <1>1, <2>1, <3>1 DEF Writing, LoopsKnown
    <3>3. LoopKnown(LoopsAround(p))'
      BY <1>1, <1>8, <3>2, LoopStays
    <3>4. LoopsAround(p)' = LoopsAround(todo[i].place)'
      BY <3>1 DEF LoopsAround, NodeAt
    <3> QED BY <3>3, <3>4 DEF LoopKnown, Innermost
  <2> QED BY <2>1 DEF LoopsKnown, Visits
<1>11. Bound'
  BY <1>1, LabelsStay DEF Writing
<1> QED BY <1>2, <1>5, <1>7, <1>9, <1>10, <1>11 DEF Writing

\* The parts of the invariant, phase by phase.
LEMMA StartsJInv ==
  ASSUME NEW Nodes, AreTrees(Nodes), Init
  PROVE  JInv(Nodes)
<1>1. /\ unit \in Programs /\ unit \in Seq(Nodes) /\ phase = "analyze" /\ todo = Functions
      /\ instructions = <<>> /\ label_id = 0
  BY DEF Init, Initially, AreTrees
<1>2. Covered
  <2> SUFFICES ASSUME NEW p, IsPlace(p)
               PROVE  \E i \in DOMAIN todo : Visits(todo[i]) /\ Extends(p, todo[i].place)
    BY <1>1 DEF Covered
  <2>1. PICK i : i = p[1]
    OBVIOUS
  <2>2. i \in DOMAIN unit /\ Extends(p, <<i>>)
    BY <2>1, PlaceInFunction
  <2>3. i \in DOMAIN todo /\ todo[i] = Visit(unit[i], <<i>>)
    BY <1>1, <2>2 DEF Functions
  <2>4. Visits(todo[i]) /\ todo[i].place = <<i>>
    BY <2>3 DEF Visits, Visit
  <2> QED BY <2>2, <2>3, <2>4
<1> QED BY <1>1, <1>2 DEF JInv

LEMMA AnalysisJInv ==
  ASSUME NEW Nodes, AreTrees(Nodes), AreParsed(Nodes), IInv(Nodes), JInv(Nodes), Analysis
  PROVE  JInv(Nodes)'
<1>1. phase = "analyze" /\ unit' = unit
  BY DEF Analysis, AnalyzeLoop, LeaveLoop, AnalyzeJump, AnalyzeOther, Analyzing, FinishAnalysis
<1>2. Walking(Nodes) /\ Labelled /\ Covered /\ unit \in Seq(Nodes) /\ unit \in Programs
  BY <1>1 DEF IInv, JInv
<1>3. CASE ~FinishAnalysis
  <2>1. Covered'
    BY <1>2, <1>3, AnalyzeLoopCovers, LeaveLoopCovers, AnalyzeJumpCovers, AnalyzeOtherCovers
    DEF Analysis
  <2>2. phase' = "analyze"
    BY <1>1, <1>3 DEF Analysis, AnalyzeLoop, LeaveLoop, AnalyzeJump, AnalyzeOther, Analyzing
  <2> QED BY <1>1, <1>2, <2>1, <2>2 DEF JInv
<1>4. CASE FinishAnalysis
  <2>1. /\ todo = <<>> /\ labels' = labels /\ instructions' = instructions /\ label_id' = label_id
        /\ phase' = IF errors = {} THEN "visit" ELSE "rejected"
        /\ errors = {} => todo' = Functions
    BY <1>4 DEF FinishAnalysis, analyzer, visitor
  <2>2. CASE errors = {}
    <3>1. \A p : IsPlace(p) /\ (IsLoop(NodeAt(p)) \/ IsJump(NodeAt(p))) => p \in DOMAIN labels
      <4>1. \A i : i \notin DOMAIN todo
        BY <2>1
      <4> QED BY <1>2, <2>2, <4>1 DEF Covered
    <3>2. Bound
      BY <1>2, <3>1 DEF Bound, Labelled, NumbersUsed
    <3>3. Bound'
      BY <1>1, <2>1, <3>2, LabelsStay
    <3>4. Functions' = Functions /\ instructions = <<>> /\ label_id = 0
      BY <1>1, <1>2 DEF Functions, Covered
    <3>5. Starting(Nodes)'
      BY <1>1, <1>2, <2>1, <2>2, <3>3, <3>4 DEF Starting
    <3>6. Writing(Nodes)'
      BY <3>5, NextStateFacts
    <3> QED BY <1>1, <1>2, <2>1, <2>2, <3>6 DEF JInv
  <2>3. CASE errors # {}
    BY <1>1, <1>2, <2>1, <2>3 DEF JInv
  <2> QED BY <2>2, <2>3
<1> QED BY <1>3, <1>4

\* One of the actions that generate code.
LEMMA GenerationStep ==
  ASSUME NEW Nodes, AreTrees(Nodes), AreParsed(Nodes), Writing(Nodes), Compile,
         ~Analysis, ~FinishGeneration
  PROVE  Writing(Nodes)'
<1>1. CASE VisitFunctionDefinition
  BY <1>1, VisitFunctionDefinitionStep
<1>2. CASE VisitSequence \/ VisitReturn \/ VisitDeclarator \/ VisitPrimary \/ VisitUnary \/ VisitBinary
  BY <1>2, VisitSequenceStep, VisitReturnStep, VisitDeclaratorStep, VisitPrimaryStep,
     VisitUnaryStep, VisitBinaryStep
<1>3. CASE VisitAssignment \/ VisitPointer \/ VisitCall
  BY <1>3, VisitAssignmentStep, VisitPointerStep, VisitCallStep
<1>4. CASE VisitWhile \/ VisitDoWhile \/ VisitFor
  BY <1>4, VisitWhileStep, VisitDoWhileStep, VisitForStep
<1>5. CASE VisitSelection \/ VisitConditional \/ VisitJump
  BY <1>5, VisitSelectionStep, VisitConditionalStep, VisitJumpStep
<1>6. CASE ProcessBinaryOr
  BY <1>6, ShortCircuitStep DEF ProcessBinaryOr
<1>7. CASE ProcessBinaryAnd
  BY <1>7, ShortCircuitStep DEF ProcessBinaryAnd
<1>8. CASE EmitInstruction \/ EmitInstructionWithTop \/ PushOperand \/ ConvertTop
  BY <1>8, EmitInstructionStep, EmitInstructionWithTopStep, PushOperandStep, ConvertTopStep
<1>9. CASE EmitBinary \/ EmitAssignment \/ EmitAddress
  BY <1>9, EmitBinaryStep, EmitAssignmentStep, EmitAddressStep
<1> QED
  BY <1>1, <1>2, <1>3, <1>4, <1>5, <1>6, <1>7, <1>8, <1>9, Zenon DEF Compile, Analysis

LEMMA StepJInv ==
  ASSUME NEW Nodes, AreTrees(Nodes), AreParsed(Nodes), IInv(Nodes), JInv(Nodes), [Next]_vars
  PROVE  JInv(Nodes)'
<1>1. unit \in Seq(Nodes) /\ unit \in Programs
  BY DEF JInv
<1>2. CASE Compiling /\ Analysis
  BY <1>2, AnalysisJInv
<1>3. CASE Compiling /\ FinishGeneration
  <2>1. /\ phase = "visit" /\ phase' = "compiled" /\ todo = <<>> /\ unit' = unit /\ todo' = todo
        /\ labels' = labels /\ instructions' = instructions /\ label_id' = label_id
    BY <1>3 DEF FinishGeneration, analyzer, visitor
  <2>2. Writing(Nodes)
    BY <2>1 DEF JInv
  <2>3. Writing(Nodes)' /\ todo' = <<>>
    BY <2>1, <2>2, WritingKept
  <2>4. JumpsResolve'
    BY <2>3, NextStateFacts
  <2> QED BY <1>1, <2>1, <2>4 DEF JInv
<1>4. CASE Compiling /\ ~Analysis /\ ~FinishGeneration
  <2>1. Generating
    BY <1>4, IsGenerating DEF Compiling
  <2>2. phase = "visit" /\ phase' = "visit" /\ unit' = unit
    BY <2>1 DEF Generating
  <2>3. Writing(Nodes)
    BY <2>2 DEF JInv
  <2>4. Writing(Nodes)'
    BY <1>4, <2>3, GenerationStep DEF Compiling
  <2> QED BY <1>1, <2>2, <2>4 DEF JInv
<1>5. CASE Optimizing
  <2>1. phase' = "compiled" /\ unit' = unit /\ optimize'
    BY <1>5 DEF Optimizing
  <2> QED BY <1>1, <2>1 DEF JInv
<1>6. CASE Execute \/ RunSilently \/ \E v \in Answers : CallReturns(v)
  <2>1. phase' = "run" /\ unit' = unit
    BY <1>6 DEF Execute, RunSilently, CallReturns, compiler
  <2> QED BY <1>1, <2>1 DEF JInv
<1>7. CASE Stopped \/ UNCHANGED vars
  <2>1. /\ unit' = unit /\ phase' = phase /\ todo' = todo /\ labels' = labels /\ errors' = errors
        /\ instructions' = instructions /\ label_id' = label_id /\ optimize' = optimize
    BY <1>7 DEF Stopped, vars, compiler, analyzer, visitor, optimizing
  <2>2. Covered => Covered'
    <3>1. \A p : IsPlace(p)' = IsPlace(p) /\ NodeAt(p)' = NodeAt(p)
      BY <2>1, SamePlaces
    <3> QED BY <2>1, <3>1 DEF Covered, Visits, Extends
  <2>3. Writing(Nodes) => Writing(Nodes)'
    BY <2>1, WritingKept
  <2>4. JumpsResolve => JumpsResolve'
    BY <2>1 DEF JumpsResolve
  <2> QED BY <1>1, <2>1, <2>2, <2>3, <2>4 DEF JInv
<1> QED BY <1>2, <1>3, <1>4, <1>5, <1>6, <1>7 DEF Next

\* For all programs that the parser can build, the code as the visitor leaves
\* it: no label is defined twice, in one function or in two, and every goto, if
\* and iffalse goes to a label of its own function.
THEOREM GeneratedJumpsResolve ==
  ASSUME NEW CONSTANT Nodes, AreTrees(Nodes), AreParsed(Nodes)
  PROVE  Spec => [](~optimize => JumpsResolve)
<1> DEFINE Inv == IInv(Nodes) /\ JInv(Nodes)
<1>1. Init => Inv
  BY StartsWalking, StartsJInv
<1>2. Inv /\ [Next]_vars => Inv'
  BY StepIInv, StepJInv
<1>3. Inv => (~optimize => JumpsResolve)
  BY DEF JInv, JumpsResolve
<1> QED BY <1>1, <1>2, <1>3, PTL DEF Spec
=============================================================================
