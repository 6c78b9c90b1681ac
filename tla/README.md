# A TLA+ model of the mlcc compiler

mlcc compiles a subset of C to AArch64 assembly. This directory holds TLA+ modules that model its
components, configurations that check them with TLC, and proofs checked by TLAPS.

## 1. Inventory

The compiler is one sequential C++ program; several processes of it may run at once (a parallel
build). A file goes through these parts, in this order.

| Part | Source | State it keeps | Operations |
|---|---|---|---|
| Driver, `main` | `main.cpp`, `src/driver` | the file names, `exit_code`, the shared temporary file | preprocess, compile, assemble, clean up |
| Lexer, parser | `grammar/` | generated; the set of specifiers of the declaration being read | types literals, counts specifiers, builds the tree |
| Syntax tree | `src/ast` | the tree; ids, types and loop labels are written into it | accessors, `Accept` |
| Symbol table and resolver | `src/semantic/symbol_*` | the stack of scopes, all symbols by unique name, a counter | enter, exit, declare, look up; one visit per declaration and use |
| Types, type resolver | `src/types`, `src/semantic/type_resolver.cpp` | none: types are immutable values | specifiers and declarators to types, types to type names |
| Declaration checker | `src/semantic/declaration_type_checker.cpp` | type, linkage, storage and initial value of each symbol | binding functions and objects |
| Expression checker | `src/semantic/expression_type_checker.cpp`, `conversion_rules.cpp` | types of expressions, inserted casts | one visit per expression |
| Loop analyser | `src/semantic/loop_analyzer.cpp` | the stack of enclosing loops, a counter | labels loops and jumps |
| TAC visitor | `src/tac` | the code, the stack of values, counters of temporaries and labels | one visit per node |
| TAC optimiser | `src/optimizer` | the code, one control-flow graph per function | folding, removal of dead code |
| IRBuilder and lowerers | `src/asm/ir_builder.cpp`, `*_lowerer.cpp` | the queue of pending arguments, the function being built | one lowering per TAC instruction; prologue, epilogue |
| ABI handler | `src/asm/abi_handler.cpp` | counters of general, floating and stack arguments | next argument, next parameter |
| Frame allocator | `src/asm/allocator.cpp` | one frame of slots per function | get a slot, the frame's size |
| Operand resolver | `src/asm/operand_resolver.cpp` | free scratch registers, the code before and after an instruction | one rewriting per operand kind |
| Emitter, printing | `src/asm/emitter.cpp`, `instructions.cpp` | the list of instructions | formatting |

The parts call one another in the order of the table and share the syntax tree, the symbol table
and the code; nothing is concurrent inside a process. Three things are shared more widely: the
frame and the temporary registers by all instructions of a function, the one `ABIHandler` by all
calls and definitions of a unit, and the file system, with one fixed temporary file, by all
processes.

### What is hard, and what makes each part correct

- **Decisions made before what they depend on is known.** Slots are addressed before the frame's
  size is; `Param` instructions are queued before their `Call` is seen; whether a static object is
  exported is decided after the last declaration. Correct: what was emitted early still holds at
  the end (accesses inside the frame, each call with its own arguments, a definition for every
  use).
- **Two computations that must agree.** Caller and callee place arguments separately; constants are
  converted by other code than values at run time; the resolver's scopes are used by checkers that
  see only unique names. Correct: same types, same places; same value either way; same name
  exactly if same entity.
- **State carried between items.** Scratch registers, the loop stack, label and name counters,
  `suppress_next_compound_scope_`, `abi_`. Correct: conserved, restored or reset on every path,
  with nesting to any depth.
- **Reading inside out.** A declarator is parsed from the inside and typed from the outside; the
  resolver keeps some of its modifiers and refuses others. Correct: the type of C or an error, the
  same for every way to write a type.
- **Limits.** Seven scratch registers; 9-bit offsets; chunks of 16 bits; integer widths; literals
  at the limits of their types. Correct:
  the code on either side of a limit does the same, and when a limit is a failure it is known
  exactly when.
- **Passes that enable one another.** Folding and the four graph passes are repeated until nothing
  changes, some on edges computed before the last change. Correct: behaviour is kept, the loop
  ends, nothing is left to do.
- **Other processes, failures, kills.** A process may be stopped anywhere and another may replace
  the temporary file between two of its accesses. Correct: processes on different names disturb one
  another nowhere else, and leftovers are never taken for one's own.

`PROJECT.json` lists each of these hazards at its line, with the properties that would catch it.

## 2. Modules

Comments beginning with `Mutant:` mark small plausible bugs. They are not part of the model; each
is substituted for the definition it resembles to confirm that the properties notice it.

| Module | Models | State and actions in terms of the code |
|---|---|---|
| `FrameLayout` | `FrameStackAllocator::GetStackSlot`, padding | pure operators on a frame |
| `FrameAllocator` | `IRBuilder::Build`, frame by frame | `frames_`, `pseudo_reg_sizes`, the accesses emitted; actions: start a function, register an argument, resolve a pseudo register, patch the prologue |
| `LoadImmediate` | `MakeLoadImmediateSequence` | its two loops, one action per iteration, and the register the emitted code leaves |
| `OperandResolver` | `OperandResolver`, `TempRegAllocator`, constant pool, what each instruction can encode | the instruction with its operands, `before`, `after`, `temps_`, the two pools; one action per operand, one for the end of the instruction, one for the exception |
| `ResolvedCode` | what instructions do | a machine that executes the instruction as meant and the code as resolved, in the frame the function ends up with |
| `CallABI` | `ABIHandler` | pure operators on its three counters |
| `CallLowering` | `TACVisitor::Visit(FunctionCallExpression)`, `IRBuilder::LowerCall`, `LowerFunction` | the visits in progress, the TAC, `pending_args_`, `abi_`, locations given out; one action per visit, argument or parameter |
| `CallSemantics` | what a call means (abstract specification) | a stack of activations with private variables |
| `CallExecution` | the emitted call, prologue, epilogue and return sequences | registers, sp, x29, x30, stack words; one action per sequence |
| `SourceProgram` | statements and expressions of the tree, pointers included, and their meaning | a machine on the tree without labels (the reference) |
| `ThreeAddressCode` | `TACInstruction`, `TACOperand` | constructors; loads, stores and addresses |
| `ControlFlow` | `LoopAnalyzer`, `TACVisitor` | `loop_ids_`, counters, stack of operands, code; one step per visit of a node. The recursion of the visitors is the sequence `todo`. Which names are static objects, and with what values, is a constant (`Linkage` has where they come from) |
| `ControlFlowGraph`, `TACOptimizer` | `src/optimizer` | blocks and edges; folding and each graph pass is a stage of `Optimize` |
| `CompiledProgram` | composition of the four above | compiles, optimises or not, then runs code and tree side by side |
| `SymbolTable` | `symbol_table.cpp` | pure operators on the three members of the table |
| `Scopes` | `SymbolResolver` | the table, the scopes in progress; one action per kind of declaration, use and end. The unit is written while it is visited |
| `TypeSpecifiers` | `DeclarationSpecifierSet`, `ResolveType`, `ResolveStorageClass` | a counter per specifier; one action per specifier read |
| `Declarators` | declarator rules of the parser, `TypeResolver`, `Type`, the object and function types `DeclarationTypeChecker` compares | the declarator being built, the `SymbolInfo`; one action per modifier and per declaration. Beside it the entity C declares by the same text |
| `Linkage` | `DeclarationTypeChecker`, static initialisers in `ExpressionTypeChecker`, `AddStaticVariables`, the linker | the passes after the resolver, over several units; the second half is C's rules. Linked are only units that C defines and that define what they use with internal linkage (`UsedButUndefined`: no pass checks that) |
| `CArithmetic` | C's types, conversions, operators (reference) | narrow integers, a few doubles, a NaN, a negative zero |
| `Conversions` | literals in `lexer.l`, `ExpressionTypeChecker`, `conversion_rules.cpp`, casts and opcodes in `TACVisitor`, `int_lowerer.cpp`, `float_lowerer.cpp`, constants | one operation goes through every pass, one action per pass, and is executed |
| `CompilerProcess` | `main.cpp`, `Driver::CompileFile` | each process's place, options, file; the file system; one action per access to it; a kill anywhere. The kind of a source says at which stage it fails first, and whether by an error or an exception |
| `NaturalsBySets` | | induction stated for sets, used by the proofs |
| `Declarations_proofs` | | proofs about `TypeSpecifiers`, `SymbolTable`, `Scopes` and `Linkage` |
| `*_proofs` | | proofs about the module of that name |
| `MC*` | | the instances TLC checks |

Abstractions made throughout: symbols and temporaries are model values or small numbers; one
integer operator and one floating operator stand for those with the same operand shapes in
`OperandResolver`, two foldable ones for all in `TACOptimizer`, a call with an unknown answer for
every operand that control flow depends on. clang (preprocessor, assembler, linker) and the machine
are external: they are modelled by what the source relies on.

## 3. Runs

`tlc -config X.cfg M`, with the module and configuration of each line of `runs` in `PROJECT.json`.

| Run | Instance | Distinct states | Shows |
|---|---|---|---|
| MCFrameAllocator | 3 locals, 2 parameters, 2 functions, all sizes | 84,666 | slots are disjoint, aligned, inside the patched frame and never move |
| MCLoadImmediate | chunks 0, 4660, 65535 in 4 places; x and w | 1,016 | the value arrives over any old contents |
| MCOperandResolver | the real pools; locals, globals, pointers, immediates and a double; locals and stack slots near, beyond the 9-bit limit and beyond 12 bits | 258,014 | registers conserved, code equivalent, encodable but for three exceptions, exhaustion exactly when demand exceeds the pool |
| MCCallLowering | 1 register of each kind, 3 signatures, 3 calls, nesting 2 | 391,678 | calls take their own arguments, places agree and do not collide |
| MCCallExecution | the same registers, 3 functions, 176 bytes of stack | 6,427 | sp balanced; calls implement activations (refinement of `CallSemantics`) |
| MCCompiledProgram | 893 units, answers 0 and 1, optimised and not | 412,053 | jumps, labels, same behaviour, neither hangs alone, optimiser sound, finite and complete |
| MCStoredValues | functions that use the value of `*p = e` | violation | that value is the pointer, not what was stored |
| MCLinkage | 1 variable, 1 function, 2 units of together 4 items, depth 3 | 708,118 | scopes exact, valid units accepted and no others, linking exact but for local statics |
| MCLocalStatics | the same | violation | local statics of one name clash |
| MCDeclarators | up to 4 specifiers, 3 modifiers together, 2 declarations, 9 parameter lists | 947,850 | specifiers and declarators get the type of C or an error, type names read back, verdicts on redeclarations are those of C |
| MCConversions | int 3 bits, long 6 bits, a dozen doubles, two types of pointers; 92 literals; every operator on every pair of types | 640,219 | literals, types, code and values of C, exceptions named exactly |
| MCCompilerProcess | 2 processes, 41 command lines, sources of nine kinds, unwritable files, kills | 240,027 | mix-ups only through the temporary file; sequential runs build; status and leftovers exact |

**Why the bounds are enough.** Padding depends on an offset modulo 8, so three locals of two sizes
reach every case, and a second function shows that nothing is left of the first. Every branch of
`MakeLoadImmediateSequence` compares chunks with zero. One register of each kind puts the second
argument of a kind on the stack; the code's eight only delay it, and the proofs are for any number.
Three calls two deep contain a call before, after and inside another one's arguments. Fills of 0,
244 and 4090 put locals on both sides of the 256-byte boundary, across it and across the 4095 bytes of
an immediate; stack slots 1, 30 and 600 lie near, beyond 255 as a parameter (256) but not as an argument (240),
and beyond it as both, where the room for the arguments has no immediate either. 176 bytes hold three
activations with stack arguments. Every operator under every other, every loop with every jump and
loops in loops contain every pair of constructs whose labels or operands could be confused. Through
a pointer, or a pointer to it, an object is written in ten ways and what is pointed to then used
under every operator, so a stale copy or a wrong address shows. Four specifiers hold every repetition
the counters tell apart (a third `long`, a second of any other) with one word to spare; three
modifiers hold every pair in both orders inside a third, and the parameter lists hold each modifier
on a parameter; two declarations are one redeclaration, which sees only the last type. Four
items three deep contain shadowing in parameters, bodies, blocks and `for` headers, and any two
declarations with a use; the theorems of `Declarations_proofs` are for any names and any number of
items and units. With ints of 3 and longs of 6 bits the ratio of widths is that of 32 and
64, each range has a boundary and an overflow, each signed one negative values, and long is exactly
twice int; the opcodes selected depend on rank and signedness alone. Two processes reach any
interference at one file, and the theorem about mix-ups is for any number of them. Each stage of a
compilation has a source that fails there and nowhere before, also with `--print-ast-only`, which
skips some of the stages, and with sources before and behind it.

**Deadlock.** It is checked where `Next` has a stuttering `Stopped` (`CompiledProgram`);
elsewhere the last state is the end of the compilation, of the process or of the bounded program.

**Fairness.** Only `WF_vars(RunSilently)` in `CompiledProgram`: the processor, and the reference
beside it, do not stop by themselves between two calls. Nothing is assumed of called functions,
which may never return. No liveness is claimed elsewhere: the other components end by the length
of their input, or run commands that may not return.

**Characterised exceptions.** Where the code differs from C or from the expectation and the
difference is understood, the property states the difference exactly, instead of leaving it out:
`ExhaustionIsExact`, `CodeEncodes` (`!` of a double constant; an
address of a local or an adjustment of sp with more than 12 bits), `OnlyLocalStaticsClash`, `DeclaredTypesAreThoseOfC` (declarators with more
than pointers and one function), `LiteralsAreThoseOfC` (octal, and `l` above `LONG_MAX`),
`TypesAreThoseOfC` (shifts), `CodeAssembles`
(`!` of a double constant), `ValuesAreThoseOfC`, `StaticObjectsStartAsInC` (local statics),
`StatusTellsOnlyOwnErrors`, `LeavesExactlyWhatIsKept`, `MixUpsOnlyThroughTemp`.

## 4. Proofs

Checked by `tlapm` for every value of the constants that satisfies the named assumptions.

- **`Assembly_proofs`** (`LocalAssumption`, `BoundAssumption`), on frames: `TypeCorrect`,
  `NoOverlap`, `InsideFrame`, `Aligned`, `SlotStability`. No property is inductive: an access that
  was emitted lies inside the frame only because the slots known so far lie below `current_offset`,
  which only grows, and because the size patched in is at least that. `IInv` therefore adds that a
  frame is laid out (disjoint aligned slots within `current_offset`), that accesses address slots of
  the frame with the size of their name, and that finished functions keep all this with their
  recorded size. `PlaceFacts` proves it for one new slot; everything else follows.

  On immediates (`ChunkAssumption`, `GarbageAssumption`): `LoadsValue`. `ScanInv` says that no chunk
  before `idx` is non-zero, or the first is known; `EmitInv` what the register holds below `idx` and
  that all above is zero once a `movz` was emitted.
- **`CallLowering_proofs`** (`RegsAssumption`, `SignatureAssumption`): `TypeCorrect`, `PlacesAgree`,
  `NoCollision`. The invariant `Traced` says that the locations of every call site and definition
  were produced by a run of the handler from its reset state, by giving the sequence of its
  counters. Two such traces over equal types agree, and the counters of one never decrease, by
  induction over arguments (`SetInduction`).

  `OwnArguments`, `Arrive`: a `Call` does not name its `Param`s, so the invariant has to say where
  they are: there are positions, one range per call of the source, that hold its `Param`s and then
  its `Call`; the ranges follow one another, and only function instructions lie between them
  (`Layout`). `Progress` ties the queue and the arguments placed to the range the next instruction
  is in. That what is passed is where it is looked for follows with `PlacesAgree` and an invariant
  on types (`Typed`): a call, a definition and the signature have the same.
- **`CallExecution_proofs`** (`FunctionAssumption`, `RegsAssumption`, `StackAssumption`,
  `ReturnRegisterAssumption`): `StackStaysBalanced`, and `CallsAreImplemented`, the refinement of
  `CallSemantics`: each emitted sequence is a step of the stack of activations or a stutter. The
  machine has no stack of activations, only words, so the inductive invariant (`IInv`) says that
  there is one, `acts`, of which the machine is the image: the frames lie side by side from the end
  of the stack down to sp, with the stack arguments between them (`FramesLie`), and each saved x29
  and x30 are those of the caller (`RecordsLink`). The refinement mapping unwinds the records from
  x29 and reads each variable's slot; that it finds `acts` is proved once, by induction over the
  depth, and that a step changes no other activation's variables for each sequence. That is about
  memory: a frame's slots are disjoint, a store keeps what lies elsewhere (`KeptFrom`), and the
  loops that store arguments and move parameters put each where the other side looks
  (`StoredArguments`, `MovedParameters`). The assumptions say that `main` fits on the stack, that
  there is a register of each kind to return a value in, and that the value of memory never written
  is none of the program's.
- **`OperandResolver_proofs`** (`PoolAssumption`: the pools hold register numbers other than sp's):
  `RegistersConserved`, for any two pools, any instruction and any operands. The helpers are
  functions on a record of the state they change; `Sound` says of such a record that registers are
  conserved unless the allocator threw. `Allocate` keeps it, and whatever else a helper changes is
  irrelevant to it, so each helper keeps it and each action that stores the record keeps the
  invariant.

  `CodeCanBeEncoded`: the code of an instruction can be encoded exactly if it is not one of the three
  exceptions (`HasNoCode`), which the resolver passes on to the assembler as they are. For all others
  an instruction is followed through three forms. `Emitted` is what the lowerers
  produce, and every shape they have is shown to be of it; `Middle` what the first loop leaves:
  memory operands have a real base and an offset in range, or are loads and stores of one operand;
  `Final` what the second leaves, of which instructions can be encoded. `Tidy` says of the record
  the helpers work on that the code emitted before and after can be. What must be excluded is a
  scratch register that is sp, hence the assumption, and a register of one width in an instruction
  of the other, hence the sizes carried through. For the exceptions the operand that spoils the code
  is followed instead: the d register of a double constant, and the immediate that stays one. Stack
  parameters and arguments may lie at any slot (`StackSlotsAssumption`).

  `ResolvedCodeDoesWhatWasMeant` (also `ReservedAssumption`: scratch registers are none of x0, x1,
  sp, d0 and the frame pointer, which the lowerers name; `NumbersAssumption`: symbols and constants
  are numbers): what the resolver appends for an instruction does what the instruction meant. The
  run looks at one machine; the invariant (`MeansInv`) is about every machine that has the frame
  and the constants (`Serves`), because the code of an operand runs on whatever the code before it
  left. `Agree` says that code so far changed nothing but scratch registers, `OperandStands` that
  the rewritten operand has the value and address the one of the source instruction had before any
  of it ran, or, for a destination, that the code behind the instruction stores the register there.
  What stands keeps standing while other operands are rewritten (`StandsLater`): registers in use
  are never free (`Kept`), helpers only take free ones (`Follows`), a frame only gets more slots
  (`FrameGrows`), and a constant keeps its label (`PoolGrows`). One lemma per helper says what its
  code loads, stores or addresses (`AccessReaches` to `AddressReaches`), one per loop that the
  invariant holds after it. `ResolvedMeans` then executes the instruction over the final operands.
  The proof needs that no operation depends on more than the values of its operands; what the
  operations compute is never used, except where an address is added up.

  `AllocatorThrowsExactlyWhenItMust` (also `SIMDAssumption`: there are three SIMD registers; the
  code has sixteen, and only GP registers run out): a compilation ends with "Out of temporary GP
  registers" for just those instructions whose operands need more than there are. A local, a stack
  parameter or a stack argument beyond the 9-bit range needs two more than one within it
  (`OffsetDemand`). Every helper takes
  registers for a fixed price (`Spends`) and throws only if it cannot be paid; `CostIs` is the price
  of an operand by its kind. The invariant (`CountInv`) says that what is left is the pool less the
  bill for what the two loops have done (`Bill`). The bill is in the prices of the frame as it is
  now, and a slot made later would change the price of a far operand: the prices of operands already
  settled stay (`SettledStays`), the others are not on the bill. When an operand cannot be paid for,
  the bill would exceed the pool, and it never exceeds the demand (`BillBounds`).
- **`CompiledProgram_proofs`**: `JumpsBindRight`, for programs of any size and nesting. Its
  hypothesis, `AreTrees`, only gives a domain to quantify over: a set of nodes that contains the
  parts of each of its nodes, from which the programs are made. `LoopAnalyzer` walks the tree with a
  stack of loop numbers, and the property is about places in the tree, so the invariant (`IInv`)
  gives each item that is still to do a depth: how high the stack will be when it is reached. The
  depths fall by one at the end of each loop, and an item at depth d lies in the loop whose label is
  the number at d, or in no loop (`Depths`). Labels stay what they are because no tree that is still
  to be visited has one and these trees are disjoint (`Fresh`), and differ because all are below the
  counter (`NumbersUsed`). The invariant was also checked by TLC on the states of MCCompiledProgram.
  Operators on a place are recursive functions; that their values are what the tree has at the place
  (`PathNode`) is proved by `SetInduction`.

  `GeneratedJumpsResolve`: `JumpsResolve` for the code as `TACVisitor` leaves it, which is the code
  that is assembled, since `driver.cpp:26` does not call the optimiser. Besides `AreTrees` it needs
  `AreParsed`, which the parser's nodes satisfy: a unit consists of functions, which are nowhere
  else, and statements have the parts that are visited. A visit promises labels long before they are
  emitted, so the invariant (`Writing`) speaks of the code and of `todo` at once: `MarkAt(f, i, l)`
  says that a label is in the code of function f, or at i of `todo` if f is 0, and `JumpAt` the same
  of jumps. No label is at two places (`MarksUnique`), every jump has its label in its function or
  in what is left of it (`JumpsKnown`), and what is visited finds the labels of the loop around it
  (`LoopsKnown`). Labels are new because they carry a number the counter has not passed, or the
  number of a loop whose visit has not begun (`Given`, `Begun`); the latter rests on the binding
  proved before: the innermost loop's number is its own, and every loop and jump has one when the
  visitor starts (`Bound`), which the analysis ensures by passing each of them (`Covered`). One
  lemma per action (`VisitSequenceStep` to `EmitAddressStep`) shows that what it puts into `todo`
  has its labels once and a label for each jump; `WritingAfter` does the rest for all of them. TLC
  checked `JInv` on the states of MCCompiledProgram before it was proved.
- **`Declarations_proofs`**: `SpecifiersResolved` (`MaxSpecifiersAssumption`):
  for every multiset of specifiers, however large, the type is that of C's table or an error. The
  multisets of the table are known from their five counters (`CountsAreWords`).

  `NamesResolved`, `ScopeErrorsReported` (`NamesAssumption`, `StoragesAssumption`): the unique names
  are those of C's entities in any unit, and the resolver reports an error exactly when the unit has
  one. C's rules are stated over the paths of the items, with no table; the resolver has a stack of
  maps, counters and a flag. `Holds` relates them: the maps of the stack are, scope by scope, the
  declarations made in the scopes that are open, and a name without linkage carries a number its
  counter has passed, so a new one is never one given before, even in a scope long closed. `Core`
  adds that the stack is the chain of scopes around the next item (a function's body adds none,
  which is what `suppress_next_compound_scope_` is for), that a declaration visible here is in one
  of them, and that every use so far has the name of a declaration it sees, which later declarations
  cannot change (`SeenForGood`). One lemma per action (`VariableKeeps` to `EndKeeps`) proves that a
  visit without error keeps `Core` and that one with an error leaves a unit C rejects.

  `UnitsJudged`, `SymbolsCompleted` (also `InitializersAssumption`): what the passes after the
  resolver accept. A pass is one step of the model, its visits a recursive function over the items,
  so the argument is inside the step, by `SetInduction`. `Passed(A, n, B)` says what the symbols `A`
  hold after n items without mentioning an order: of a symbol without linkage, what its one
  declaration says (`Own`); of one with linkage, what the set of its declarations so far says
  (`Shared`): one kind, one linkage, at most one definition, and the strongest of their initial
  values. `DeclarationVisited` proves that each visit either extends this by its item or reports an
  error and leaves a unit that is `Bad` by C's rules. C defines linkage by the last visible
  declaration, the code by the first or by a comparison; that they agree, or that the unit mixes
  linkages, is `LinkagesGiven`. Conversely, what `Passed` says after all items excludes each rule of
  `MustBeRejected` in turn (`DeclarationsAccepted`). `Given` does the same for the initialisers, and
  `PassesInv`, the inductive invariant, says which of them holds before which pass. The proof found
  that two cases of `VisitDeclaration` overlapped, which TLC resolves silently by their order.

  `UsesReach`, `LinkingExact` (the same assumptions): any number of units, linked. `UnitRight` says
  of an object file that its symbols are the definitions C sees in the unit, with their values and
  linkages (`DefinitionHasSymbol`, `SymbolHasDefinition`), and its references the uses of what lasts
  (`UseIs`, `ReferencesAre`). It is kept by the step that adds an object file because `PassesInv`
  holds there; what is linked then follows from `UnitRight` alone (`BindsAsInC`, `ResolvedAsInC`,
  `ClashesAre`). A unique name with a number never meets one without, which is why only local
  statics can clash where C sees no error. That units which use a static function they do not define
  must be left out was found by this proof, and confirmed by TLC with two function names.
- **`NaturalsBySets`**: `LeastNatural` and `SetInduction`, proved from the integers. They take sets
  where the library's theorems take operators, so the provers can use them.
- **`CompilerProcess_proofs`** (`KindAssumption`, `ArgumentsAssumption`): `IndependentProcesses`.
  The argument is rely-guarantee: `Relies(p)` is what p needs of the files at its place; a step of q
  changes only the temporary file and names q uses (`Frame`), and if it replaces the former it is
  recorded in `swapped`, if names are shared, in `conflict` (`Recorded`). So q keeps `Relies(p)`,
  and each step of p establishes its next. The assumption excludes command lines in which an output
  replaces a source, the assembly it is made of, or the temporary file. That the files of a command
  line are some of its words is part of it because the loop over the arguments is a fold, whose
  result for every input only an induction over data gives; the run evaluates it for each command
  line.

  `RunsBuild`, `StatusOfErrors`: about processes that run alone. `RunsBuild` promises the outputs of
  the sources before the first that fails, whatever the status: a failing clang ends a process with
  0, too, without the output of its source. `StatusOfErrors` says which statuses there are: 1 where
  the parser, the analysis or a file that does not open is reported, that of an abort where an
  exception of the parser, of the translation to TAC or of the code generator ends the process, 0
  where nothing or clang fails. Without code to be made (`--print-ast-only`) only the parser is run
  (`Understood`). `AloneInv` follows one from file to
  file: nothing it uses was disturbed, the sources before this one all ended well (`SoFar`), it has
  learnt of this one what the steps taken tell (`Learnt`), and the outputs of those before are there
  unless a later file of the run touches their path (`Built`). An exit is then of one of two kinds,
  at the last source or at one that fails by itself (`Verdict`). The theorem on outputs is about
  those no later file of the run touches (`TouchedLater`), as the property is: two sources of one
  stem in one command line do replace each other's outputs.

`TypeOK` of `FrameAllocator` and `CallLowering`, and `ScopeErrorsReported`, are proved and are not
properties of a run.

Only model-checked: of `CompiledProgram`, everything but the binding of jumps and the labels of
unoptimised code; everything about `Conversions` and `Declarators`; of `CompilerProcess`, `LeavesExactlyWhatIsKept`, which holds of the
names the run has and not of all (the path the TAC file is removed by, computed from `a.b.d.c`, can
be one a later `a.b.c` of the same run writes). Liveness (`NeitherHangsAlone`) and what recursive
definitions compute for every input are outside of what the installed provers do. `CArithmetic`
uses `Bitwise`, so `Conversions` stays with TLC.

## 5. Findings and divergences

Two disagreements have runs of their own (`findings` in `PROJECT.json`): the value of `*p = e`
(`tac_visitor.cpp:217`) and exported local statics (`tac_visitor.cpp:599`).

Others, met while modelling, without a run of their own:

- Stated exactly by a property of a passing run: instructions that need more scratch registers than
  there are make the compiler throw (`allocator.cpp:45`; three far operands need nine); the address
  of a local or room for arguments of more than 12 bits does not encode (`operand_resolver.cpp:279`,
  `ir_builder.cpp:295`); specifiers and declarators that throw while they are parsed abort the
  compiler (`declarations.cpp:58`), also with `--print-ast-only`, where errors of types are not
  looked for (`driver.cpp:25`); a local
  static's initialiser is stored unconverted (`expression_type_checker.cpp:509`); `main` returns raw
  `std::system` statuses, so a failure of clang (256) becomes 0; the fixed temporary file
  (`main.cpp:75`) mixes up parallel builds; removing the TAC file goes by a path already changed
  (`main.cpp:146`), so the one of `a.b.c` stays; shifts use the common type of both operands; `!d`
  on a double compares its bits as an integer, wrong for -0.0, and does not assemble for a constant;
  `<` and `<=` on NaN are true; octal literals, which the README calls unsupported, are accepted and
  read as decimal; a decimal literal with the suffix `l` above `LONG_MAX` turns negative, and one
  without a suffix becomes unsigned long; arrays become pointers of 8 bytes, although the README
  lists `T[N]`.
- Read only: the README lists `void` as a return type, but the grammar has none; it lists
  subscripts, but the visits of the checker and of `TACVisitor` are empty; `static static` and
  `f(void, int x)` are accepted; parameters of function type are reported in definitions only; the
  driver does not call the optimiser (`driver.cpp:26`), which the README lists; its folding converts
  doubles through `AsInt64`; the prologue of a frame above 4095 bytes has no immediate; a
  `_dconst_N` label may equal a user's global; `label_to_block_` inserts entry 0 for a missing
  label.

## 6. Not modelled

The parser's tables and the building of plain nodes (the trees are inputs; literals, specifiers and
declarators are modelled); tree printing; the emitter (formatting); the empty assembly optimiser;
the header-only parts of the syntax tree. Inside modelled parts: subscripts, whose visits are
empty; the typing of `&` and `*`, which `Conversions` leaves out (`ControlFlow` has their code,
`Declarators` their types); storage classes in `Declarators` and types in `Linkage`, each
having what the other leaves out; wording of messages, line numbers.

## 7. Plan

Order of construction, the most important behaviour first: 1. frames and immediates; 2. operand
resolution; 3. calls, lowering then execution, against activations; 4. control flow, then the
optimiser, against the tree; 5. names, declarations and linking; 6. specifiers and declarators; 7.
arithmetic and conversions; 8. processes. All exist with runs; all but 7 with theorems.

Next, in this order:

1. Prove: that the passes of the optimiser keep `JumpsResolve`, for which `FlattenSeq` and
   `SelectSeq` need lemmas by induction first; `LeavesExactlyWhatIsKept` restated by the last file
   that touches each path.
2. Model: the typing of `&` and `*` in `Conversions`; the immediate of the prologue of frames above
   4095 bytes in `FrameAllocator`.
3. Abstract specifications worth stating: a pipeline that maps a unit to the set of behaviours of
   its tree, implemented by `ControlFlow` with `TACOptimizer`; an allocator of scratch registers as
   a set, implemented by `OperandResolver`.
