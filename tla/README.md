# A TLA+ verification project for the Solidity compiler with ETHASH

The repository is a fork of the Solidity compiler (0.5.x) that adds one EVM instruction,
ETHASH.  This directory holds TLA+ models of parts of the compiler, the TLC
configurations that check them on small instances, and proofs checked by TLAPS.
Paths below are relative to `src/solidity/`.  `PROJECT.json` gives for every definition
the source lines it models, for every property a mutant of the code that breaks it, and
the list of hazards the properties are aimed at.

## 1. Inventory

The compiler is a single threaded program.  What is hard about it is not concurrency but
objects with a life of their own (`CompilerStack`, `ErrorReporter`) that are used in call
sequences nobody wrote a test for, loops that must reach a fixed point, rewriting that
must keep the meaning of code, and generated code that must do what the language says in
every order of calls.

| component | state | operations | what makes it correct |
|---|---|---|---|
| `liblangutil/ErrorReporter` | a list owned by its user, two counters | `error`, `warning`, the fatal variants, `clear` | no error is lost, the list is bounded, drops are announced |
| `interface/CompilerStack` | sources and their trees, contracts, settings, `m_stackState`, the error list, SMT queries | `reset`, `addSource`, setters, `parse`, `analyze`, `compile`, getters | a state is reached only with what it promises: all imports there, no error, fresh objects |
| import ordering (`resolveImports`) | DFS stack, set of sources seen, `sourceOrder` | one search per `parse` | exactly the closure, imports first wherever there is no cycle, ends |
| import remappings (`applyRemapping`, `parseRemapping`) | the loop's two lengths and best target | one loop per import | the closest match, independent of the order; text read back unchanged |
| `interface/StandardCompiler` | one `CompilerStack` reused by all requests | `compile(json)` | no effect of one request on the next, every failure is reported |
| `analysis/ControlFlowBuilder`, `ControlFlowGraph`, `ControlFlowAnalyzer` | the flow graph of each function; a set of unassigned variables per node and a stack of nodes | one graph per function and modifier, modifiers applied, one search per function | a storage pointer that may be returned unassigned is reported, others are not, the search ends |
| `analysis/TypeChecker`, `ContractLevelChecker` | annotations of the tree | one visitor per node | what is accepted can be compiled, and its annotations say what the code generator needs |
| `ast/Types` | none | conversions, operators, members, sizes, storage offsets | together with the code generator: values keep their meaning |
| `codegen/*` | the assembly under construction, stack heights, return and loop tags | one visitor per node, a library for conversions, arrays, lvalues, the ABI | the code does what the text means |
| `libevmasm/AssemblyItem`, `Instruction`, `SemanticInformation` | none | tables and predicates | - |
| `libevmasm/PeepholeOptimiser` | the items, position, the new items | eleven local rewritings, a loop | code keeps its behaviour, the loop ends |
| `libevmasm` `CommonSubexpressionEliminator`, `KnownState`, `ExpressionClasses`, `SimplificationRules` | classes of equal expressions, what is known of stack, storage and memory, the code being generated | items are fed, code is generated from classes | behaviour kept, nothing stale is used |
| `libevmasm/Assembly::optimiseInternal`, `JumpdestRemover`, `BlockDeduplicator` | items, replaced tags, tags pushed from outside | rounds of passes until none applies | behaviour kept, replaced tags lead to the same code, ends |
| `libevmasm/ConstantOptimiser` | - | three ways to push a constant | the routine computes the constant |
| `libevmasm/GasMeter`, `PathGasMeter`, `interface/GasEstimator` | a queue of paths with their known state, the highest cost per jump destination | one path at a time | an upper bound of what executions use |
| `libevmasm/Assembly::assemble`, `LinkerObject` | bytecode, positions of tags, references to patch, link references | an estimate, one pass, patches | every reference holds the place of its target, tags fit the width reserved, link references move with their code, the estimate ends |
| `libyul/*` | scopes, Yul trees, what each step knows of variables | analysis, optimiser steps, the suite, the code transform | the program stays valid and keeps its meaning after every step; the code does what the program does |
| `liblangutil/ParserBase`, `parsing/Parser` | the token ahead, recursion depth, `m_insideModifier` | one function per construct, a path read before it is known what it is | what is written is what is read, nothing is passed over, nesting is bounded |
| `liblangutil/Scanner` | characters, a window of tokens | | not modelled: sources are tokens |
| other `analysis/*` (name resolution, view and pure, syntax, static) | scopes, annotations | visitors | seen as errors per pass |
| `formal/*` | SSA indices, a solver | | seen as queries |
| `codegen/ABIFunctions`, `liblll`, `lllc`, `solc`, `libsolc`, `libdevcore` | - | - | not modelled |

How they interact: the client (`solc`, `StandardCompiler`, tests) calls `CompilerStack`.
`parse()` calls the parser per source and, for every import, `applyRemapping` and the
client's read callback, then `resolveImports`.  `analyze()` runs the passes over the
ordered sources; they share the stack's `ErrorReporter`, whose limits make any of them
throw.  The type checker annotates the tree.  `compile()` makes a `Compiler` per contract,
which walks the annotated tree and appends items to an `Assembly`; that is optimised and
assembled; a contract that creates another compiles the other one first.  Strict assembly
goes another way, through `AssemblyStack`: it is analysed, optimised by the Yul suite and
transformed to the same items.

The behaviours that are hard to test: repeated calls on one object (`clear()` and
`reset()` leave things behind), failures half way through a loop, limits reached in the
middle of something, cyclic imports and creations, loops that accept a result that is not
smaller, replacements that outlive what they refer to, knowledge that a later store makes
wrong, higher order bits that do not belong to a value, values that share a slot, arrays
that change their representation with their length.  The `hazards` of `PROJECT.json` list
each at its line.

## 2. Modules

The interface:

* **ErrorReporter** - the reporter as a record of counts (`reporter`), its calls as
  operators `Warning`, `Error`, `Clear` that return the next record, with the outcome
  "throws".  **ErrorReporterMachine** - a reporter and a client that makes any call.
  The list is abstracted to how many entries of each kind it holds: nothing reads more.
* **CompilerStack** (extends ErrorReporter) - one object and a client that calls any
  public method at any time.  A method that loops is a sequence of steps under a program
  counter.  A source text is a record that says what each stage finds in it.  The orders
  of `std::map` loops are left open.  **MC_CompilerStack** -
  three instances in one module: `part` says which set of texts and calls a behaviour
  belongs to (parsing, analysing, compiling) and never changes.
* **ImportOrder** - `resolveImports` on a variable import graph, recursion as a stack of
  frames.  `CompilerStack` uses the set it computes (`ImportClosure`), which
  `ClosureComputed` justifies.
* **Remapping** - the loop of `applyRemapping`; then `parseRemapping` and the text
  `createMetadata` writes.  `CompilerStack` uses the result of the loop as a function from
  path to name.  **MC_Imports** - the three machines side by side: in
  every behaviour one of them has an interesting input and the others a trivial one,
  since they share no state.
* **StandardCompiler** (extends CompilerStack), **MC_StandardCompiler** - the stages of
  `compileInternal`; each call into the stack is the action of CompilerStack, so the two
  are composed and not abstracted from each other.  A request says which part of it, if
  any, is malformed: the answers to queries (`RejectAuxiliaryInput`) or a setting
  (`ApplySettings`, which passes on what was read before it).  Where the code looks at the
  JSON type the answer is `JSONError`; where it only asks for a member (`Unchecked`) the JSON
  library throws, and the catch of `compile()` answers `InternalCompilerError`.

The analysis and the code generator:

* **ControlFlowGraph** - `ControlFlowBuilder` as a recursive operator from a tree and a
  graph under construction to the next graph, and `applyModifierFlowToFunctionFlow`.
  Of a tree it keeps what steers and what assigns.  It also holds a reference that
  builds no graph: `Leaves` says in which ways a tree can be left (normally, by return,
  break or continue) without assigning a variable.  **ControlFlowAnalyzer** - the search
  of `checkUnassignedStorageReturnValues`, one exit of a node per step, on any graph.
  **MC_ControlFlow** - the search on the graphs built for a set of functions.  The
  machine of the ErrorReporter, which all analyses share, and the parser are checked in the
  same module, behind the search of a function that returns no storage pointer; they share
  no state.
* **Parser** - `Parser` and `ParserBase` as recursive operators from the parser's state
  (place in the text, thrown, errors, depth) to the next and a tree.  What a tree looks like
  in a source (`Written`) is the reference.  A source is written, at most one token of it is
  lost, doubled or replaced (`SlipBy`), and it is parsed.  `CompilerStack` does not use it:
  there a source text has an outcome.
* **StorageOffsets**, **Types** - the types as records and everything the classes of
  `Types.h` answer about them.  The sizes of the machine (bits of a word and of a byte,
  bytes of an address and of a selector) are constants, so that TLC can go through all
  values of small ones; the code has 256, 8, 20 and 4.
* **TypeChecker** (extends Types) - the visitors of `ContractLevelChecker` and of
  `TypeChecker`.  A syntax tree is a record with the class of the node and its parts;
  checking fills in the annotations and the set of errors.
* **CompilerUtils** (extends ContractMachine and Types) - `CompilerContext`,
  `CompilerUtils`, `ArrayUtils` and `LValue`: each function of the code that appends items
  is an operator that returns them.  **ExpressionCompiler**, **ContractCompiler** - the
  visitors for expressions, statements and whole contracts, on trees the type checker has
  annotated.  A stack slot is an offset from a height that is passed down.
* **ContractMachine** (extends EVM), external - a machine with calldata, storage, memory
  and return data that runs the items.
* **MC_Values** - one value and what generated code does with it.
* **SampleContract** - the abstract specification of four contracts, whose text is in its
  comment: variables are independent values, arrays are sequences, and a call takes
  effect completely or not at all.  **MC_Contract** - the syntax trees of these contracts,
  checked, compiled, deployed and called; it is shown to implement SampleContract under a
  refinement mapping that reads the variables out of storage slots.

The assembler and its optimisers:

* **Instructions** - the instruction table and the classes of instructions, and the
  arithmetic of words.  **EVM** - external:
  what the Ethereum machine does with items, on words of `WordBits` bits and for `Fuel`
  steps.  **Walking** - loops over sequences as folds.
* **Peephole** - the eleven methods as operators from a window to its replacement (or
  none), `OptimisedItems`, and the test that accepts.
* **RuleList** - the simplification rules, as patterns; both optimisers use them.
  **KnownState** - `ExpressionClasses`, the matcher of rules and `KnownState`.
  **CommonSubexpressionEliminator** - how a block is fed to a known state and generated
  anew.
* **AssemblyOptimiser** (extends Peephole and CommonSubexpressionEliminator),
  **MC_AssemblyOptimiser** - the rounds of `optimiseInternal` on a sub-assembly, one pass
  per step, with the parent's references to its tags.
* **GasMeter**, **MC_Gas** - the cost of an item for a known state, the constant
  optimiser that uses these costs, and the meter of paths, one path per step.
* **Assemble**, **MC_Assemble** - `Assembly::assemble` and `bytesRequired`: sizes and
  positions without the bytes.  Subassemblies are what they were assembled to.

Yul:

* **Yul** - programs, scopes and the analysis, and an interpreter (external) as the
  meaning of a program.  **YulCode** - `CodeTransform` and the assembly adapter.
  **YulOptimiser**, **MC_Yul** - all steps of the optimiser as operators on the program,
  and the suite as a machine that applies one step at a time; a program is also
  translated without being optimised.  The assertions a step makes are part of it: one
  that fails sets `thrown` and ends the suite.  The same machine goes through the rules of
  `RuleList`, one per step.

**CompilerStackProofs**, **StandardCompilerProofs** (on top of it, as StandardCompiler is
on top of CompilerStack), **ImportOrderProofs**, **RemappingProofs**, **AssembleProofs** and
**ControlFlowAnalyzerProofs** hold the theorems; those of the reporter are in
ErrorReporterMachine and the one of StorageOffsets is in it.

An operator whose comment begins with "Mutant" is a wrong version of the definition that
follows it; nothing uses it, and replacing the definition by it must break the property
`PROJECT.json` names.

Recursive operators (trees, interpreters, matching) are in modules that only TLC uses; the
modules the proofs rest on have none.  Where an operator of `MC_Contract` or `MC_Values`
takes the checker and the compiler as parameters, that is because TLC explores a
definition without parameters before it evaluates it, and these reach the whole compiler.

## 3. Runs

| run | instance | what it shows |
|---|---|---|
| `control_flow` | two storage pointers; statements nested in branches, in two loops of all kinds, with all jumps and short circuits; up to two modifiers; the reporter with both limits 3 and 5 reports between clears; every kind of expression in every other, statements that begin alike, all parts of contracts and units, those but the expressions with every slip of one token; nesting at the limit and one below | the search ends and its sets solve the data flow equations; without modifiers what may be returned unassigned is reported, and with or without them nothing else is; errors are never lost; the parser reads what was written (`ParsedAsWritten`), ends, and accepts no text that says more than the tree does (`NothingIgnored`) |
| `compiler_stack` | two names; three texts and error limit 1, or errors in three passes, or contracts that create each other | a parsed stack is closed under imports and every tree is of the current text; analysis succeeds only without errors; contracts are those of the sources; objects are those of the settings at the last `compile()`; recursion into created contracts is well founded |
| `standard_compiler` | three requests in a row out of a set, with one malformed in each part of the input | settings, sources and failures of one request do not reach the next; every request is answered, once and by what it alone admits (`ServesEachAlone`): all it wants or none of it, objects of its own settings, the queries of its texts it does not answer |
| `imports` | all graphs of three sources with all library flags; up to three remappings; texts of up to eight characters | the search visits exactly the closure, in order; the closest remapping is chosen; what `parseRemapping` reads is written to the metadata so that it is read again |
| `values` | all integers and fixed bytes of up to four bytes of two bits, `bool`, address, contract, enum; five literals to start from; all operators with five operands; one slot of four bytes | in whatever order a value is converted, operated on, cleaned, dirtied, stored and passed around, it is what the language says (`ValueKept`); the code stops exactly where the language does (`StopsAsMeant`); the bytes next to it in storage stay (`NeighboursKept`) |
| `contract` | words of four bytes of three bits; lists and texts of up to five elements (a slot holds four, or three bytes of a short text); calls with dirty arguments, too little calldata, a payment, an unknown selector | the compiled contracts implement `SampleContract` (`ImplementsMeaning`), and no slot that belongs to nothing keeps a value (`NoStorageLeft`) |
| `assembly_optimiser` | every sequence of up to three items of an alphabet of 15 that computes and of one of 13 that jumps, and of four of a smaller one; three of 13 phrases that store, load, hash and compute, or two and an ending; a dispatcher with three blocks and four sets of outside references | behaviour kept from every stack that is deep enough and from every tag the parent may jump to; replaced tags lead to the same code; the rounds end |
| `gas` | constants around powers of two and their complements; phrases that store, load, hash and jump | routines for constants compute them; no execution uses more gas than estimated |
| `assemble` | items before and behind a stretch that fills the estimate to 220, 254, 255 or 256 bytes; with and without data, subassemblies (with far, near and no tags) and auxiliary data | references are exact, tags fit, link references are in place, the search for a width ends |
| `yul` | programs of two of ten pieces with branches, switches, loops and blocks; six functions (nested, recursive, with side effects) in six uses; functions with two results; all rules over all words of four bits; the steps used on their own after the disambiguator and after the suite | after every step the program is valid and behaves as the given one, no assertion of a step or of the code transform fails, the code behaves as the program, and rules are sound |

Bounds.  The limits of the reporter are 256 in the code; only "below, at, above" is told
apart, so 1 to 3 show every case.  `ReportBound` stops a client after a counter has
passed it, beyond which the counters only grow.  Two sources suffice for cycles, missing
imports and a library together with its user; three for the order of imports.  Four items
cover every window of the peephole methods (at most four items long) and pairs of smaller
ones; small words give every relation the methods look at (0, 1, all ones, sign).
`MaxDepth` of the parser is 2560 in the code; 32 lets every construct of the instance be read
and is passed by a row of signs.
Two variables are the fewest with which a search could go round in circles, each node
putting back what the other removes; two levels of loops are the fewest where an outer
target of `break` must be restored.
The estimates of `assemble` lie on both sides of the only places where a width changes
within reach of small sizes; beyond 65535 the same comparisons are made.
In `contract` five elements are one more than fit a slot, and five bytes are two more than
a short text has, so that every change of representation happens in both directions.
In `values` the words are of four bytes, so that there are types of one byte, of several
bytes and of a whole word, and values at every place of a slot.
`Fuel`, `YulFuel` and `MaxSteps` bound the machines so that loops can be compared; where
the given program does not end within its bound nothing is compared, and optimised code is
given more steps.  `Rounds` (four in the code), `InlineSize` and `ReachableSlots` are the
numbers of the Yul suite on a smaller scale; `MaxCount` is the bound of the peephole loop.

Deadlock is not checked where the object may rest: a client need not call, a loop that is
done stops, a contract that failed is not called again.

Fairness.  Liveness is stated under weak fairness of the whole next-state relation of a
function that has been called (`SCSpec` for a request, with it the loop of `resolveImports`
as the step it takes in `CompilerStack`; `AsmSpec`; `FlowSpec` for the search over a flow
graph): a single thread runs it.
For `optimiseInternal` it is written as "steps are taken for ever, or the optimiser is
again and again in a state where it has returned or thrown" (`Fairness`), which says the
same, since a step is enabled in every other state.  Nothing is assumed of the client of
`CompilerStack`, and no liveness of it is stated; that its methods end is part of
`RequestsAnswered`.

`GasBounded` has an exception that the code names: it says nothing where the meter gave up
a path for a costlier one to the same place (`dropped`).  PathGasMeter.cpp notes that this
is not exact, as the state of the path given up may cost more later.  The size of memory is
no part of the behaviour that is compared.  Code that asks for it with `MSIZE` is among the
instances of `assembly_optimiser`, where the eliminator ends its blocks at accesses to
memory, and not among those of `gas`: a constant that is copied from the code passes
through memory and would show.

### Violations

Each of these runs checks one property that a comment states and that the code breaks;
`PROJECT.json` quotes the line.

* `cse_keccak_length`: two hashes of the same words of memory, of different lengths, are
  taken for one value.  (The run `assembly_optimiser` hashes whole words only.)
* `contract_copy_leftovers`: `ys = xs` with a shorter list of elements smaller than a slot
  clears only the first element of each slot behind the copy.

### Known deviations that no run is kept for

Found while modelling, each by a run of its own at the time; the models behave as the code
does, and the instances or the statements above leave the case out where it would matter.

* On a reused stack the kept error counter makes the parser give up without an error in
  the list, and the assertion on that fails (CompilerStack.cpp:156).
* The cached source mapping survives a second `compile()` (CompilerStack.cpp:404).
* In a function with a modifier nothing leads from the end of its body to what follows the
  placeholder, so storage pointers that are returned unassigned are not reported
  (ControlFlowGraph.cpp:92); `ReportsEveryPath` is about functions without modifiers.
* Output selection by the file `*` is read in two ways, so that a contract may be listed
  without code (StandardCompiler.cpp:108); `ServesEachAlone` promises code for the others.
* An `auxiliaryInput`, `settings`, `optimizer`, `metadata` or `outputSelection` of a wrong
  JSON type is answered `InternalCompilerError`: nothing checks the type
  (StandardCompiler.cpp:430-434 for the last two), and the exception of the JSON library is
  caught in `compile()` (StandardCompiler.cpp:630-632).
  docs/using-the-compiler.rst:370 calls input that "doesn't conform to the required format"
  a `JSONError`, and by line 378 an `InternalCompilerError` is a bug.  `IsAnswer` promises
  what the code answers (`MalformedError`).
* Replacements of tags collected over rounds are not chained, so the parent may be left
  with a tag that is gone (Assembly.cpp:439); `ReplacementsSound` is about tags that are
  there.
* `xs.length = n` that cuts a list inside a slot leaves the rest of the slot, and
  lengthening the list shows it again, while docs/types.rst:923 promises zeros
  (`resizeDynamicArray`); the instance of `contract` sets lengths that are whole slots.
* `SSATransform` keeps the old value of a variable that is assigned by a call with several
  results (SSATransform.cpp:102), and a variable declared together with another one makes
  the Yul simplifier throw (SimplificationRules.cpp:119); the programs of `yul` have
  neither.

### Behaviour a reader may not expect

The models keep the following as the code has it.

* `ErrorReporter::clear()` keeps the counters; `ErrorsAccountedFor` and
  `DroppedWarningsAnnouncedOnce` are stated so that they hold with that.
* `CompilerStack::reset()` leaves the requested contract names and the setting for literal
  sources in the metadata.  `StandardCompiler` sets both (`RequestSettingsEffective`).
* `compile()` on a stack that is only parsed returns false without an error.
* Reporting a missing import at the error limit throws `FatalError` out of `parse()`.
* In `applyRemapping` a longer context comes before a longer prefix.
* The comment at the loop of `checkUnassignedStorageReturnValues` says that it ends because
  there are finitely many variables.  That is not enough: where two nodes lead to each
  other, both are entered from outside and each assigns one of two variables, the search
  goes on forever.  The builder makes no such graph, since a loop is entered only at its
  head, and `SearchEnds` holds for those it makes.
* `assemble()` starts its search for a width at a position of a tag of a subassembly and
  not at the bytes that position needs, so the estimate is generous.  Without such tags
  the width of data references may exceed the width counted, the code may be longer than
  estimated, and then "Tag too large for reserved space." is reached: `Undercounted` in
  `Assemble` is exactly that case, it happens in the run `assemble`, and `TagsFit` says
  that there is no other.
* Some types convert explicitly where the code generator then fails an assertion
  (fractional literals to integers, functions to functions of other kinds); such code ends
  as an `Assertion` item in the model.
* The README of the repository gives ETHASH three arguments and gas 2; the tables have
  five arguments and the tier of external data, and the model follows the tables.

## 4. Proofs

| theorem | statement | argument |
|---|---|---|
| `NoErrorLost`, `ListStaysBounded`, `FirstUseAnnouncesDrops` | three invariants of the reporter, for all limits | `ListInvariant` relates the counters and the entries; without the counters' bounds the list's are not inductive |
| `ParsedStackClosed` | `ParsedStackIsClosed` for all names, texts, remappings and limits | `ParseInv`: what is in the queue, being loaded or read but not stored accounts for every import that has no source yet |
| `AnalysisIsClean` | `AnalysedIsClean` | `AnalysisInv`: while no pass failed the list has no error the passes so far answer for; `registerDeclarations`, whose result is not asked, is covered by the check before the post type passes |
| `ContractsAreComplete` | `ContractsComplete` for every history, failed analyses included | `ContractsInv`: nothing is entered before an analysis, during it and behind one that failed only contracts of the import closure, and from the loop of name resolution on all of them; that no source appears or vanishes in between is `ParseInv` |
| `CompiledObjectsAreFresh` | `CompileReturnsFreshObjects` for every change of settings between calls | `FreshInv`: in the loop of `compile()` the contracts that are no longer to do were built from the settings of now and are not yet linked; recursion into a created contract takes one that was to do, and only the loop's end links |
| `CompilationHasAnOrder` | `CreationOrderExists` for every finite graph of creations | `OrderInv`: the sources checked so far create no cycle (`Acyclic`, stated with sets of contracts, so that it is a fact about well founded sets); a finite set without cycle has a member that creates none of it (`SomeReady`) |
| `EveryMethodEnds` | `MethodsEnd`: the steps of a method left are a number that every step of it makes smaller, and never more than 13(n+1) + n(n+2) + 1 for n names | `StepsLeft` counts sources not read, imports not looked at, passes over sources and contracts left to compile; `InPhase` says what is left at each program counter.  A source is queued at most once, as its name has no source until it is read, and a contract is compiled only if it was to do |
| `SettingsAreTheRequests`, `RequestedHasBytecode` | `RequestSettingsEffective`, `RequestedByFileCompiled` for every sequence of requests | `StackInv`: every step of a request is a step of `CompilerStack` or leaves it alone, so its invariants hold of the reused stack; `FlowInv` says what the stack's state and program counter are at each stage; `SettingsInv` which settings are already those of the request |
| `SourcesAreTheRequests` | `NoForeignSources` | `ReachInv`: what is there, queued or being loaded is reached by imports from the request's sources; `reset()` at the begin of each request leaves no other |
| `FailuresAreReported` | `FailureReported` for both limits | `FailInv`: when the stack's method is done it succeeded, or threw, or left an error or the notice of dropped errors in the list, or there was nothing to compile, which only errors of the request's own explain; the list is emptied only before |
| `ServesRequestsAlone` | refinement: `SCSpec => ServesEachAlone`; every step accepts a request, responds to it, or changes nothing its client sees | `ServeInv`: the invariants above and `GivenInv` (what has been read of the request, and nothing else, is on the stack, with its text, or its mistake is listed), `QueryInv` (queries are listed by the last pass only, which no error stops, and answers given are those of the request), `BuiltInv` (an object is of this `compile()`, and linked once it succeeded); `EveryAnswer` puts them together at each place where `compileInternal` returns or throws, a malformed part of the input included |
| `EveryRequestEnds` | `RequestsEnd`, the same of a request, from when it is accepted to its answer | `RequestStepsLeft`: the sources to hand over, the steps `MethodsEnd` leaves to the stack, the answers to list; a request resets the stack before it calls a method, so that the bound does not depend on the requests before |
| `EachSourceOnce`, `SearchComputesClosure` | the search of `resolveImports` for every finite graph | `Inv`: `SeenOnce`, `FramesInv` (each frame's position), `OrderInv` (imports of a finished source were seen) and `LeastInv` (everything seen is in every closed set that holds the roots) |
| `OrderIsTopological` | `TopologicalUpToCycles` for every finite graph | `TopoInv`: a frame is reached by imports from each below it (`ChainInv`); an import that is seen and not ordered is on the stack, so the two import each other |
| `ResolvingEnds` | `OrderEnds`: each step leaves exactly one less | what is counted are roots, directives that were not looked at (`Open`) and sources not ordered; by `SeenOnce` a source has one frame, so a directive that is passed is open nowhere else, and one that enters a source adds none, as those of an unseen source were counted |
| `ClosestRemappingChosen` | `ChosenIsClosest` for all remappings | `LoopInv`: the two lengths are those of the remapping chosen |
| `ResultRewritesPrefix` | `PathRewritten`: the result is the target and what the prefix left of the path | `RewriteInv`: the target remembered is that of the remapping chosen |
| `MetadataIsReadBack` | `MetadataReproducesRemapping` for every text | the parts of a text (`Separated`) have no colon and no equals sign where the next search looks for one, so the text written has its first ones at the same places |
| `TagsFitReservedSpace` | `TagsFit` for every assembly | `LayoutInv`: the estimate is kept as the sequence of its sums, so that the bytes written up to an item are below the sum up to it (`WrittenWithinCount`) until a reference was counted too short; positions of tags are below the last sum, a tag of a subassembly is below the width each reference to a tag was counted with, and `Width` is monotone |
| `ReferencesHoldTargets`, `LinksStayLinkable` | `ReferencesExact` and `LinksInPlace` for every assembly whose estimate is a 32 bit number | `GapsKept`: gaps lie apart and before what is written (`GapsApart`), are filled in the order of the loops at the end (`FilledInTurn`) with the number of their target (`FilledRight`), which is not cut, as what is still to be appended was counted (`RoomLeft`, from the sums of `SumsGrow`); link references lie apart and away from gaps (`LinksApart`) |
| `EveryLoopEnds` | `LoopsEnd`: each step of `assemble()` leaves fewer | an attempt at a width counts every part, and there are at most four, since a number of 32 bits has no more bytes; an item leaves at most one reference, and one that was filled is not resolved again |
| `MembersNeverOverlap` | `computeOffsets`, for all members: each begins where those before it have ended, in one slot or at the start of one, and all of it is counted | `InTurn`, kept by placing one more member (`PlaceInTurn`), over the recursion as a fact about a set of numbers |
| `SearchSolvesEquations`, `SearchReportsLeast` | `FlowEquations`, and that nothing else is reported, for every graph | `Inv`: the one set kept per node is what enters it while the node is on the stack (`Killed`) and what leaves it, passed on to all exits, otherwise (`Propagated`); whatever is in a set comes from the entry or leaves a node before it (`Supported`), so a later kill cannot take away what others rest on; `Within` compares with an arbitrary closed set |

The assumptions are the named ASSUMEs of the modules (limits are numbers, names are a
finite set, special values are no texts, requests are made of the names and texts there
are, items refer to data and subassemblies that are there), which TLC evaluates on every
instance.  In particular:

* `AssembliesAssumption` says of a subassembly, which was assembled before, that its link
  references lie in it and apart from each other.  `LinksInPlace` proves the same of what
  is assembled, so the assumption holds of nested assemblies at every depth.
* `SizesAre32Bit` is a hypothesis and no assumption: the code counts in `unsigned`.  An
  assembly of four gigabytes has no meaning in the model.
* `Base \in Nat` in `MembersNeverOverlap` says that a power of two is a number; TLAPS has no
  axioms for powers.  The members are what `Type::storageBytes` and `storageSize` return:
  at least one byte and one slot, and all of a slot's bytes with more than one slot.

A recursion over numbers (`SubTotals`, `PlacedUpTo`) is unfolded and used by induction in
the form "a set that holds zero and every successor holds every number" (`SetInduction`,
`NumbersByInduction`), which follows from the well-foundedness of `<`; the induction
theorems of the library take operators, which no backend can instantiate.

Every safety invariant that a run checks of a module without recursive operators is a
theorem.  Only model checked are:

* liveness (`SearchEnds`, `RequestsAnswered`, `AssembleEnds`, `Terminates`): TLAPS does not do
  fairness.  For requests and for `assemble()` the safe half is proved (`EveryRequestEnds`,
  `EveryLoopEnds`): no step can be repeated forever, so what is left to TLC is that a step
  is always possible until the end, and that it is taken.  For `SearchEnds` there is no
  such theorem, as it is not true of every graph (see the comment at the loop, above).
  `CreationOrderExists` is the safe part of the end of `compileContract`.
* The graphs `ControlFlowBuilder` makes (`ReportsEveryPath`, `ReportsOnlyPaths`): a recursion
  over trees.  What is proved of the search is proved of all graphs.  Likewise the parser.
* The meaning of optimised and of generated code (`CodePreserved`, `ReplacementsSound`,
  `GasBounded`, `ConstantsPreserved`, `ValueKept`, `StopsAsMeant`, `NeighboursKept`,
  `NoStorageLeft`, the properties of Yul) and with it the refinement of `SampleContract`: an
  interpreter is a recursion over steps, the compiler one over trees, and both reach
  RECURSIVE operators, for which tlapm has no SMT backend.

## 5. Plan

Done: the reporter, the stack, imports, requests; the parser; the control flow analysis; types, the
type checker and the code generator, with an abstract specification of what contracts
mean; all optimisers of the assembly, the gas meter and the layout of an assembly; Yul,
its optimiser and its translation.  Next, in this order:

1. Proofs: that the simplification rules keep values for words of every size, as far as
   they need no powers; that a step of the peephole optimiser shortens the code.
2. `NameAndTypeResolver`: C3 linearisation and scopes; `ViewPureChecker`; `StaticAnalyzer`.
3. More contracts for `contract`: structs, external calls and creation, memory arrays,
   events; the machine and the code generator have them, the sample contracts do not.
4. `Scanner`: tokens from characters; the parser in place of the outcome of a source text;
   `SMTChecker`: SSA indices across branches.
5. Abstract specifications: an assembler with unbounded references that `Assemble`
   implements.

## 6. Not modelled

* Of the assertions in libyul/optimiser those that ask what a syntax tree of strict
  assembly or the list of rules is by its form: no labels and bare instructions
  (ASTWalker.h:46, ASTCopier.cpp:35), kinds of patterns (SimplificationRules.cpp:130-222
  but for :164), a check repeated right after the condition that leads to it
  (ExpressionJoiner.cpp:146, InlinableExpressionFunctionFinder.cpp:58), scopes pushed and
  popped in one function (DataFlowAnalyzer.cpp:134).  What the disambiguator looks up
  (Disambiguator.cpp:37-39) and the definition of a called function are function
  applications, which TLC refuses where there is no value.
* Texts of messages and locations, JSON, ABI and documentation output, printing of trees
  and assembly: formatting without state.
* An artifact in `outputSelection` that is no text: the JSON library throws while the answer
  is put together, and it is an `InternalCompilerError` like those of `Unchecked`.
* The scanner, the documentation comments and the tokens of inline assembly.
* Name resolution, and the analysis passes other than type
  checking and control flow: inside `CompilerStack` they, and the parser, are an outcome per source text,
  so when they run and what follows from their result is modelled, what they compute is
  not.  The type checker is given resolved trees.
* `SMTChecker`: the encoding needs a solver.  `ABIFunctions` (ABI encoder version 2): text
  templates of Yul, experimental in this version.
* Inline assembly inside functions is checked for the variables it uses and not compiled;
  loose assembly with labels, evm15 and eWasm have no model.
* The structural gas estimation, which spreads costs over source locations, and the control
  flow graph of assembly it uses.
* The metadata's list of remappings, which are those set when `compile()` runs and not
  those the imports were resolved with (CompilerStack.cpp:882).
* The command line, LLL, hashing and other data conversions of `libdevcore`.
