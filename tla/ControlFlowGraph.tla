-------------------------- MODULE ControlFlowGraph ---------------------------
(* The control-flow graph of a function and the passes that simplify it.       *)
(* A graph is its blocks, in the order of the code, and the edges as they were *)
(* when BuildEdges last ran: two of the passes change blocks and leave the     *)
(* edges behind.                                                               *)
EXTENDS ThreeAddressCode, SequencesExt

Block(label, instructions) == [label |-> label, instructions |-> instructions]

\* The first two blocks are the empty entry and exit (entry_index, exit_index).
EntryBlock == 1
ExitBlock  == 2
Initial    == <<Block(NoLabel, <<>>), Block(NoLabel, <<>>)>>
Inner(blocks) == ExitBlock + 1 .. Len(blocks)

EndsBlock(instruction) == IsBranch(instruction) \/ instruction.op = "return"

\* A label starts a block and a branch or return ends it.
StartsBlock(instructions, i) ==
  i = 1 \/ IsLabel(instructions[i]) \/ EndsBlock(instructions[i - 1])

\* The places of a sequence that satisfy a test, in order.
PlacesOf(seq, Test(_)) == SelectSeq([i \in DOMAIN seq |-> i], Test)

BuildBlocks(instructions) ==
  LET starts == PlacesOf(instructions, LAMBDA i : StartsBlock(instructions, i))
      end(n) == IF n = Len(starts) THEN Len(instructions) ELSE starts[n + 1] - 1
      block(n) == LET first == instructions[starts[n]]
                  IN  Block(IF IsLabel(first) THEN first.label ELSE NoLabel,
                            SubSeq(instructions, starts[n], end(n)))
  IN  Initial \o [n \in DOMAIN starts |-> block(n)]

\* label_to_block_: the last block with the label; asking for a label that is
\* not there inserts it with index 0, the entry.
LabelToBlock(blocks, label) ==
  LET labelled == {k \in DOMAIN blocks : blocks[k].label = label}
  IN  IF labelled = {} THEN EntryBlock ELSE Max(labelled)

SuccessorsOf(blocks, k) ==
  LET last == Last(blocks[k].instructions)
      next == IF k < Len(blocks) THEN k + 1 ELSE ExitBlock
  IN  CASE last.op = "goto"               -> {LabelToBlock(blocks, last.label)}
        [] last.op \in {"if", "iffalse"} -> {next, LabelToBlock(blocks, last.label)}
        [] last.op = "return"            -> {ExitBlock}
        [] OTHER                         -> {next}

BuildEdges(blocks) ==
  IF Len(blocks) = 2 THEN {<<EntryBlock, ExitBlock>>}
  ELSE {<<EntryBlock, ExitBlock + 1>>} \cup
       UNION {{k} \X SuccessorsOf(blocks, k) : k \in Inner(blocks)}

Graph(blocks) == [blocks |-> blocks, edges |-> BuildEdges(blocks)]
NoGraph       == Graph(Initial)

Successors(graph, k)   == {e[2] : e \in {d \in graph.edges : d[1] = k}}
Predecessors(graph, k) == {e[1] : e \in {d \in graph.edges : d[2] = k}}

GetInstructions(graph) ==
  FlattenSeq([k \in DOMAIN graph.blocks |-> graph.blocks[k].instructions])

-----------------------------------------------------------------------------
\* The passes.

\* MarkAliveBlocks: the blocks reached from the entry along n edges.
AliveBlocks(graph) ==
  LET alive[n \in Nat] ==
        IF n = 0 THEN {EntryBlock}
        ELSE UNION {{k} \cup Successors(graph, k) : k \in alive[n - 1]}
  IN  alive[Len(graph.blocks)]

\* Entry and exit are kept, and the edges are built anew.  (\o <<>> makes TLC
\* evaluate the sequence before the edges are taken from it.)
RemoveBlocks(graph, removed) ==
  LET kept == PlacesOf(graph.blocks, LAMBDA k : k <= ExitBlock \/ k \notin removed)
  IN  Graph([n \in DOMAIN kept |-> graph.blocks[kept[n]]] \o <<>>)

RemoveUnreachableBlocks(graph) ==
  RemoveBlocks(graph, DOMAIN graph.blocks \ AliveBlocks(graph))

RemoveEmptyBlocks(graph) ==
  RemoveBlocks(graph, {k \in DOMAIN graph.blocks : graph.blocks[k].instructions = <<>>})

\* Mutant: every goto that goes forward.
RemoveForwardGotos(graph) ==
  LET redundant(k) ==
        LET code == graph.blocks[k].instructions
        IN  /\ k \in Inner(graph.blocks)
            /\ code # <<>> /\ Last(code).op = "goto"
            /\ Min(Successors(graph, k)) >= k + 1
  IN  [graph EXCEPT !.blocks = [k \in DOMAIN @ |->
         IF redundant(k) THEN [@[k] EXCEPT !.instructions = Front(@)] ELSE @[k]]]

\* A goto to the block that follows.
RemoveRedundantGotos(graph) ==
  LET redundant(k) ==
        LET code == graph.blocks[k].instructions
        IN  /\ k \in Inner(graph.blocks)
            /\ code # <<>> /\ Last(code).op = "goto"
            /\ Min(Successors(graph, k)) = k + 1
  IN  [graph EXCEPT !.blocks = [k \in DOMAIN @ |->
         IF redundant(k) THEN [@[k] EXCEPT !.instructions = Front(@)] ELSE @[k]]]

\* A label only reached from the block before it, which runs into it.  The loop
\* sees the block before as it has left it, without its label if it lost it.
RemoveRedundantLabels(graph) ==
  LET code(k) == graph.blocks[k].instructions
      redundant[k \in DOMAIN graph.blocks] ==
        /\ k \in Inner(graph.blocks)
        /\ code(k) # <<>> /\ IsLabel(Head(code(k)))
        /\ Predecessors(graph, k) = {k - 1}
        /\ k - 1 \in Inner(graph.blocks)
        /\ Len(code(k - 1)) > (IF redundant[k - 1] THEN 1 ELSE 0)
        /\ ~IsBranch(Last(code(k - 1)))
  IN  [graph EXCEPT !.blocks = [k \in DOMAIN @ |->
         IF redundant[k] THEN [@[k] EXCEPT !.instructions = Tail(@)] ELSE @[k]]]
=============================================================================
