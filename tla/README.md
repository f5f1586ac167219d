# A verification project for Where's Crypto?

Where's Crypto? is an IDA plug-in that looks for cryptographic primitives in
binaries. It explores the paths of a function symbolically, builds a data flow
graph for each path, and searches the graphs for the subgraphs that signatures
describe. Everything runs on a small thread pool, and a builder that meets a
condition it cannot decide forks: the graph, the processor state and the list of
conditions are copied and both sides are built by different threads.

This directory models that machinery in TLA+. TLC checks it on small instances,
and TLAPS proves the main safety properties for every value of the constants.
All paths below are relative to `src/`.

## 1. The system

| part | source | state | operations |
|---|---|---|---|
| thread pool | `ThreadPool.cpp/.hpp` | `aTasks`, `aResults`, `dwNumActive`, `dwNumSynchronized`, the threads, one mutex, three condition variables | `InitThreads`, `Schedule`, `ScheduleIfResourceAvailable`, `Synchronize`, `YieldResult`, `WaitForResult`, `Worker`, destructor |
| coordinator and results | `ControlDialog.cpp/.hpp`, `AnalysisResult.hpp`, `FunctionList.cpp` | the functions left to schedule, the result tracker, the dialog's table and progress text | `run`, `ScheduleNextFunction`, the slots `HandleResult`, `HandleNextFunction`, `HandleFinished` |
| path exploration | `PathOracle.cpp`, `Backlog.cpp`, `Broker.cpp` 744-993 | per builder: address, backlog, counters; global: `g_aNumForksLeft` under a mutex | `ShouldFork`, `Initialize`, `IntroduceCondition`, `Build_Impl`, `fork`, `ScheduleBuild` |
| state predicate | `Predicate.cpp` | the list of conditions of a path | `MergeCondition`, `IsSatisfied`, `CompareNormalized`, `Migrate` |
| condition | `Condition.cpp` | immutable: an operator and two expressions | `Normalize`, `operator!` |
| data flow graph | `DFGraph.cpp`, `DFGNode.cpp` | nodes with arcs in both directions, an index by expression, a node counter | `InsertNode`, `FindNode`, `RemoveNode`, `fork`, `CopyNode` |
| node construction | `Broker.cpp` 40-560, `DFGNode.cpp` | the memory map | `FindNode`, `NewLoad`, `NewStore`, `Cleanup`; `NewAdd`, `NewMult`, `NewXor`, ... which merge, flatten and fold |
| Arm processor | `Arm.cpp/.hpp` | sixteen registers, the flags with their operands, a call stack | `initialize`, `SetRegister`, `JumpToNode`, `instruction`, `flag_op_t`, `Migrate`, `ShouldClean` |
| signature parser | `SignatureParser.cpp` | a cursor with a stack of positions to go back to, labels and opaque types, the graph of a variant | `Parse` and the recursive descent below it |
| signature evaluator | `SignatureEvaluator.cpp/.hpp` | a sparse matrix of candidates, a flag map, opaque assignments, all backtracked over | `Evaluate`, `Pass1Recurse`, `PruneFlagged`, `Pass2Recurse`, `NextCandidate`; `Assign`, `Unassign`, `IsAssigned` |
| block permutation evaluator | `BlockPermutationEvaluator.cpp/.hpp` | triplets of loads, the queue and flags of a search, a cache of pairs of nodes in a sparse matrix | `Evaluate`, `SpecString`, `BreadthFirstSearch`, `BFSMapPath` |
| reference counting | `ReferenceCount.hpp`, `types.hpp` | a counter in every object | copy, assignment, typecast |
| widgets, plug-in entry, microcode experiments | `SlidingStackedWidget`, `DFGDisplay`, `Plugin.cpp`, `hexrays_*.cpp` | presentation only, or unused | |

How the parts interact:

* The coordinator thread owns a pool. It puts one build task per selected
  function in it (`ScheduleIfResourceAvailable`, so that a function waits while
  as many tasks are queued as there are threads), and it collects results.
* A build task is a `CodeBroker`. At an undecided condition it asks the predicate, then
  the path oracle, and may copy itself and `Schedule` the copy. In the end it
  yields its graph, or an empty result when it ran beyond a limit.
* For each graph the coordinator schedules every evaluator and enters the graph
  in its tracker. When the last evaluator has answered, the analysis result is
  emitted as a Qt signal, which the GUI thread handles later.
* A builder lets the processor execute one instruction after the other. The processor
  builds the nodes of the path, and asks the builder about the condition of an instruction.
* Signature definitions are parsed once, when the dialog is opened; the graphs the parser builds
  are what the signature evaluators look for.
* A graph refers to its builder and the builder to the pool, so the
  last graph that anybody holds decides when the pool's destructor runs, and in
  which thread.

What is hard about it: the waits of the pool (three condition variables, a
counter of active workers that decides when everything is over, tasks that
schedule tasks); results that race the bookkeeping about them; a budget of
forks that builders on several threads draw from at once; forks that must share
nothing with the builder they were copied from; a list of conditions rewritten
while it is iterated, with bounds that wrap around; a removal of nodes whose
outcome must not depend on the order of hash containers; a search that must take
back what it tried, from a matrix that shrinks while it is iterated; a cache of
comparisons that forgets; simplifications that must not change the value of an expression
when words wrap around; flags that are references to the operands of an earlier instruction;
a parser that builds nodes while it still tries alternatives. `PROJECT.json` lists
these hazards at their lines, each with the properties that would catch it.

## 2. The modules

| module | models | lines it stands for |
|---|---|---|
| `TaskService` | what a pool promises to its owner (abstract) | the interface of `ThreadPool.hpp` |
| `ThreadPool` | the pool and its workers | `ThreadPool.cpp` |
| `PoolClient` | the pool with a most general client; refines `TaskService` | how brokers and the coordinator use it |
| `Coordinator` | an analysis run: extends `ThreadPool` with the tasks and results of the plug-in, the coordinator thread and the dialog | `ControlDialog.cpp` 34-239, the ends of tasks in `Broker.cpp` |
| `Condition` | operators, negation, normal form | `Condition.cpp`, operator part |
| `Expression` | nodes as terms, and the `New...` operations of the broker with their simplifications | `Broker.cpp` 40-560, `DFGNode.cpp`, `DFGNode.hpp` |
| `FlagConditions` | flags, condition codes, and `Normalize` on expressions; uses `Condition` | `Arm.cpp` 1082-1216, `Arm.hpp`, `Condition.cpp` |
| `CallStack` | the call stack alone (abstract) | `Arm.cpp` 75-165 |
| `ArmProcessor` | the processor, one instruction at a time; extends `FlagConditions` and `CallStack` | `Arm.cpp` |
| `ArmMachine` | the reference: the instructions on a machine of words | the ARM architecture, as `Arm.cpp` names its instructions and condition codes |
| `ArmExecution` | processor and machine side by side; refines `CallStack` | the composition |
| `Predicate` | the list of conditions of one path; extends `Condition` | `Predicate.cpp`, `Broker.cpp` 793-844 |
| `PathExploration` | oracle, backlog and the loop of the builders | `PathOracle.cpp`, `Backlog.cpp`, `Broker.cpp` |
| `DataFlowGraph` | graphs, memory maps and registers of several builders; forks | `DFGraph.cpp`, `Broker.cpp`, `Arm.cpp` |
| `GraphCleanup` | `Cleanup` and `RemoveNode` | `Broker.cpp` 549-615, `DFGraph.cpp` 37-55 |
| `SignatureParser` | the parser, one statement at a time; extends `Expression` | `SignatureParser.cpp` |
| `SignatureText` | the reference: definitions as they are meant, and how they are written | the language that `SignatureParser.cpp` reads |
| `SignatureEvaluator` | the search for a signature in a graph | `SignatureEvaluator.cpp`, `.hpp` 58-195 |
| `SignatureSearch` | parser and evaluator composed: from a text to a result | `ControlDialog.cpp`, where signatures are read and evaluated |
| `BlockPermutationEvaluator` | the search for a sequential block permutation in a graph | `BlockPermutationEvaluator.cpp`, `.hpp` |

`MC*` modules give the constants their values for TLC; `*_proofs` modules hold
the theorems. Names are those of the source. A definition whose comment says
*Mutant of X* is X with a plausible bug; no specification uses it. With it in
place of X, TLC finds a property violated, which shows that the property can fail.

**ThreadPool.** All shared state is guarded by one mutex that only a wait gives
up, so one action is one critical section. A worker is `waiting` in
`stCondition.wait`, `notified` when that wait is over and the mutex not yet
taken, in the barrier's wait, `executing` a task, `finished` when it has
yielded and not returned. Notifying one waiter is a choice among the waiters,
or nothing if there is none, and a wait may also end spuriously. `dwNumActive` is
lowered on entering the wait and raised when the worker runs again, not when it is
notified: hence the question whether nullptr may be returned too early.

**PoolClient.** Any owner and any tasks: the owner schedules outside the other
calls, an executing task schedules more, a task yields one result. The set
`ClientOps` selects the calls a run allows. `TaskService` has no queue and no
workers: `pending`, `ready`, `collected`, `reported`. The refinement maps
`ready` to `aResults`, `reported` to "WaitForResult has returned nullptr", and
`pending` to what was accepted and has not yielded; every step of the pool is
then a `Submit`, `Yield`, `Collect`, `Report` or a stutter.

**Coordinator.** `run` is split at the calls into the pool, because the workers
run in between: the first loop, `WaitForResult`, the loop over the evaluators
(one action each: an evaluator may have answered before the next is
scheduled), the attempt to schedule the next function. Signals are one queue,
as Qt delivers queued signals of one sender to one thread in order. A graph is
named by the task that builds it; its content does not matter here.

**Condition, Predicate.** Words have `2 * Half` values with wrap-around and a signed
reading. `CompareNormalized` gives the 36 answers for a pair of operators in
the four groups the code has, and `MergeCondition` is one action per iteration.
The two sides of a fork are two behaviours.

**Expression, FlagConditions.** In one graph two nodes are one object exactly when they are the same
term, since a graph holds one node per idx (`IndexExact`). So a node is a term, and
each `New...` function an operator on terms, with the merging of operands, the flattening of sums and
products, the distribution of factors and the folding of constants the code has, on words of `Width` bits.
A carry that the code computes beside a sum is returned beside it. A flag is the operation that
set it, its two operands and an identity; a condition code makes a condition of them, and `Normalize` peels its
expression until it is compared with a constant.

**ArmProcessor.** A step is one instruction: what IDA decodes is a record, and the program
is written while it is executed (`Decode`: an address gets its instruction on the first visit), so that a
run covers all programs over a set of instructions without an initial state for each. The
verdict on a condition, which `Predicate` and `PathExploration` model, is a choice that the properties
follow: executed, skipped, or forked. A path ends with `DONE`, or with the errors and the crash the
code has.

**ArmExecution.** The reference machine runs the same program on samples: words for the registers and the memory at
the entry. `live` are the samples that satisfy the conditions the processor has introduced, `ran` the samples
whose machine takes the path. The properties equate the two, and the values of what
the processor holds with what the machine holds. A sample leaves both sets when two addresses the
path uses have the same value, because the memory map takes different nodes for different addresses.

**CallStack.** What calls, branches and returns do to the stack, for any addresses. `ArmExecution`
implements it, and its bound is proved.

**PathExploration.** A builder is a record: the address, backlog, counters and
size of the graph. Instructions are abstract; they add nodes, carry a condition
or not, jump within `Targets`, end the function or fail. `MaxGrowth` bounds, for each
address, what its instruction adds.

**DataFlowGraph.** A node object is `<<g, i>>`, a node of graph g with id i. A builder
applies operations to whatever nodes it holds; `FindNode` returns the node with that
expression or inserts one; a fork copies node by node, inputs first, and may fail
half way (`CopyNode` limits its depth), after which the builder goes on alone.

**GraphCleanup.** One graph from the moment it is finished. The recursion of
`Cleanup_Impl` from within loops over unordered containers is a stack of sets,
the nodes each loop under way has yet to visit; a loop may take any of them
next. Which nodes `ShouldCleanNode` keeps is any set.

**SignatureParser.** A text is a sequence of tokens. Each function of the descent is an operator that returns
the node, or none, and the state it leaves behind; going back restores the offset and nothing else, so
that the graph keeps what an abandoned alternative has built. `Parse` is one action for each statement. The
fact that the same expression is parsed again, once per level of precedence, is kept: it is what
makes a `STORE` visible to a `LOAD` of the same statement.

**SignatureText, SignatureSearch.** A definition is written out by `WrittenDefinition`, parsed, and compared with its
meaning, in which every operation happens once. Then it is looked for in a code graph: the evaluator works on
what the parser built, not on graphs made for it. `ImplementsEvaluator` checks that this is what `EvaluatorSpec`, about which the
proofs are, takes for granted (`IsEvaluable`): graphs that are closed, without cycles in a variant, and
opaque types the evaluator has an entry for.

**SignatureEvaluator.** One call of `Evaluate`. The recursion of `Pass2Recurse` is a
sequence of frames, one for each call that has settled a node; a call begins
(`CallFails`, `CallSingle`, `CallEach`, `CallAtEnd`), its loop takes the next candidate
(`TryClaim`, `TrySkip`, `TryNone`), and what it did is undone when the call it made
returns false (`ReturnFalse`). Pass 1 and the pruning loop are fixed points, because their
outcome does not depend on the order, but the nodes that pass 1 looks at do: the order of the
inputs is a choice, and so is the order in which pass 2 settles nodes. The iterators of the
sparse matrix and the bits of the flag map are those of the code, with its shifts. `EvaluatorSpec` is the search for any
definition in any graph, `IsEvaluable` what both must satisfy.

**BlockPermutationEvaluator.** One call of `Evaluate`: the loops that find triplets of
equidistant loads are one function of the graph; then one action per node taken off the
queue of the breadth-first search, and one per call of `BFSMapPath` and per return, whose calls
under way are frames. The order of the outputs of a node and of the candidates is a choice,
as it is hashed. The cache is the sparse matrix of the signature evaluator: it drops what it knows of
a whole word with the word's last valid pair. Time may be up at any moment, and is looked at
where the code looks at it.

## 3. The runs

Every cfg sets `CHECK_DEADLOCK FALSE`: the modelled systems stop when their work
is done (the pool is destroyed, all functions are analysed, a bound on the
number of nodes or decisions is reached). That nobody waits for ever is stated
by the liveness properties.

| run | question | bounds | distinct states |
|---|---|---|---|
| `pool` | Does nullptr mean that nothing is outstanding, is no task lost, is the pool a `TaskService`? Is every accepted task executed and collected, does Synchronize return and only after the tasks before it, does the join return? | 2 workers, 4 tasks of which 2 are scheduled only if there is room, one Synchronize, destructor | 141 832 |
| `predicate_safety` | Does the list stay exact on feasible paths, are answers right, are entries canonical, does the merge loop end? | one expression, all 3-bit constants and 10 operators, up to 3 decisions | 71 203 |
| `coordinator_run` | Do results find their entry, is every graph reported once and before the run ends, is the pool idle when it is destroyed, and does the run end and free the pool unless a task was forgotten? | 2 functions with a fork each, 2 evaluators, 1 thread, batch run | 114 093 |
| `path_run` | Does the number of paths stay within the budget, are all paths different, are loops left after four rounds, and does every builder yield? | 2 instructions, one fork per dialog, 2 dialogs, 6 conditions, 5 no-ops | 179 594 |
| `processor` | Are registers, memory and conditions what the machine makes of the samples, do forks keep their flags, is the call stack bounded and a `CallStack`? | 13 sets of instructions, every program of 4 (or 5) executed instructions over one of them, 4-bit words, 25 samples, depth 2 | 55 941 |
| `graph_safety` | Do forks share nothing, do arcs match, has an expression one node, is a fork a copy? | 3 graphs, 3 nodes each, 1 register | 166 978 |
| `cleanup_safety` | Is what is left exactly what the kept nodes are computed from? | all graphs of 4 nodes, all sets to keep, all orders | 49 506 |
| `signature_search` | Is a definition read as it is written, are the opaque types within their array, is what is found a match, is none missed, is everything taken back, does the parser hand over what the evaluator takes for granted, does the search end? | about 60 texts; variants of up to 4 nodes are looked for in 25 code graphs of 4 to 6 nodes; all orders | 53 703 |
| `block_permutation` | Are triplets equidistant and their paths shortest ones, is what is found a match and is none missed? | 208 graphs of 18 to 22 nodes, chained and summed permutations; all orders; time up anywhere | 48 518 |
| `coordinator_hangs` | violated: `AnalysisCompletes` | 2 functions, 1 thread, 1 evaluator | |
| `path_follows` | violated: `FollowsNextAddress` | 2 instructions | |
| `signature_marks` | violated: `EveryNodeMarked` | as `signature_search`, 24 code graphs | |

Why the bounds are enough to meet the interesting cases:

* *Pool.* Two workers can be in different waits when one notification comes; four tasks leave
  two queued while two are executed, which is the number at which
  `ScheduleIfResourceAvailable` refuses. The theorems lift the safety part to
  any number of both.
* *Predicate.* Constants meet in pairs, so what matters is their order, their sign
  and the four values at which a bound wraps; 3-bit words have all of
  these. Three decisions make chains: a merge that makes an earlier entry
  mergeable. `Half` need not be a power of two; the proofs take any value above 1.
  Different expressions do not interact but by position in the list: the proofs cover any number.
* *Coordinator.* With one thread the second function is refused while the first is
  queued, and tried again later; with two evaluators one may answer before
  the other is scheduled. Several workers at once are covered by the client's runs.
* *Paths.* `InitialForks = 0` leaves one fork, which two builders of a function
  can ask for at once when a second dialog resets the budget; six decisions at
  one address cover both sides of the turn at the fourth. Where an instruction leads makes no
  difference, as the loop goes back to its own address (see `path_follows`), so `path_run`
  has no jumps; that only the second instruction adds nodes makes one builder reach the
  limit of no-ops and another the limit of nodes.
* *Processor.* Words of 4 bits have a sign, a carry, a byte of a word (1 bit of 4) and shifts beyond the width.
  Each set of instructions is one topic (sums, carries, logic, shifts, comparisons, loops, memory, block transfers, calls, ...), and
  programs of four instructions over it make chains: a flag set, kept by a second instruction and used by a third; a
  store, a load from it and a store again. The samples are the corners 0, 1, 7, 8 and 15 in both registers, on which a wrong carry,
  sign or wrap-around shows. A depth of 2 makes a call that is inlined and one that is not. The instruction sets leave out the
  combinations in which the code is known to be wrong, see below; `Others` has some of those, for the stack and the flags only.
* *Graphs.* Three graphs allow a fork of a fork and a builder that works on
  while its fork does. A load, a store to the loaded address and a load again
  need three nodes. Four nodes allow a diamond and a node that becomes
  unused only with its last user.
* *Texts.* There is a definition for each operator, one for an operation within an operation, labels used by several
  statements and by several variants, opaque types that are shared, and texts nobody means, on which every alternative is
  tried and given up somewhere.
* *Signatures.* Four nodes make an operation on an operation, a node that two others use and
  two nodes that compete for one node of the code. `BlockSize = 4` and
  `MaskBits = 2` stand for 32 and 6; the nodes of the code are in one word of the matrix, or
  across two, of which the second is one whose flags are only seen on their first insertion. One more graph has six nodes in
  three words, with a candidate that the search passes over when the word before it is erased.
* *Block permutations.* The least distance of 16 and the least length of 4 are the code's; words
  of 7 bits hold the offsets, and make differences that are negative as an int. `BlockSize = 8`
  spreads the nodes over three words of the matrix, so that pairs are lost with a word. Four loads give a first
  block more than one triplet, and a cache that was filled for another.

### Fairness

* Pool: weak fairness of the owner and of each worker. A thread that can
  run is run by the operating system, `std::mutex` is eventually acquired, and a
  task ends. Nothing is assumed of clients, of notifications the code does
  not send, or of spurious wake-ups.
* Coordinator: the same for coordinator thread, workers, the GUI's event
  loop and whoever drops the last graph. Builders need not fork.
* Paths: as long as a builder can go on, some thread of the pool lets one go on; which one is not
  said. The code's limits, not fairness, make each of them end.
* Signature evaluation: weak fairness of the search, which is one task (`EvaluatorStep`). That the time is ever up
  is not assumed: the search ends without it.
* Predicate: weak fairness of the loop, which is one call of one thread.
* Graphs, the processor, the parser and block permutations: safety only. One call of one thread that has no loop
  that could go round for ever is not worth an assumption.

### What disagreed with the code

Three runs show a disagreement between the code and what it says of itself; each
is a finding in `PROJECT.json` with its trace's story.

1. `coordinator_hangs`: `ScheduleIfResourceAvailable` (`ThreadPool.cpp:33`) does not notify a
   worker as `Schedule` does (`:24`). When all workers wait at that moment, the queued
   function is not built, the coordinator waits for ever and the dialog never says
   "Analysis complete". That nothing else can make it hang is `CompletesUnlessForgotten`, in
   `coordinator_run`: a run ends unless the queue holds a task while all workers wait.
2. `path_follows`: the head of `Build_Impl`'s loop assigns `lpCurrentAddress =
   lpAddress` (`Broker.cpp:943`), the address it was given, so the address
   that an instruction led to is never executed. `PathExploration` follows the code;
   its theorems hold for any use of the addresses, also for
   the one that was evidently meant.
3. `signature_marks`: `IsAssigned` shifts before it masks (`SignatureEvaluator.hpp:163`), so that only
   nodes with an id below 6 modulo 32 are seen as assigned. A match may map two nodes of the signature to one
   node of the code. `FoundIsMatch` and `Backtracked` say what holds all the same,
   and that the flags that can be read are right.

Smaller divergences that were met while modelling, which no run is spent on:

* `Predicate.cpp:51` says a merged condition is stronger. When a bound wraps around
  (`:177` and its likes at 160, 198, 245, 290, 335) it is weaker. The path is then infeasible:
  `ExactWhenFeasible` is stated, checked and proved with that condition.
* `Synchronize` resets `dwNumSynchronized` (`ThreadPool.cpp:42`) although a worker
  released from an earlier barrier may not have tested it again (`:117`); that worker
  waits on and the new barrier never fills. One use is right (`pool`), and
  nothing in the plug-in calls `Synchronize`.
* The loop at `SignatureEvaluator.cpp:410` is to "unflag all possible assignments, except current candidate" (`:407`).
  When the last candidate of a word is invalidated the word is erased, and `NextCandidate` (`SignatureEvaluator.hpp:114`)
  goes on in the next word behind the same bit: candidates before it stay. The test of the inputs (`SignatureEvaluator.cpp:256`)
  asks for any candidate of an input, and the first one is reported: an input may be mapped to a node that is
  no input of the node reported for its user. One of the code graphs of `signature_search` (`PassedOver`) does this.
  `FoundIsMatch` says what holds all the same: on the nodes that were left with one candidate (`Kept`), what is
  found is a match, and a node can only have kept more when its candidates were in several words and one in
  a later word was at a bit that is not behind that of one in an earlier word (`InStep`).
* A distance without a third block gives up the first block, not just that distance
  (`BlockPermutationEvaluator.cpp:83`), so that a triplet with a block further on is not looked for;
  and of several shortest paths one is kept, the hash order says which. `MatchExact` is about the
  triplets and the paths there are.
* For two equal signed `<=` conditions `Predicate.cpp:301` answers MERGABLE where
  the other operators answer ALWAYS_SATISFIED: the same test forks again. `DecidedOnce`
  excepts that operator.
* `PathOracle.cpp:45` says that inline functions are two levels deep; the limit of `ArmImpl` inlines one
  level below the function (`CallDepthBounded`).
* `PathOracle.cpp:38` says that the way of a loop is taken 10 times; line 31 does it four
  times (`LoopsAreLeft`). Line 49 speaks of 100000 nodes, the limit is 200000.

The simplifications and flags that differ from the arithmetic of the machine. The modules follow the code; the
programs of `processor` avoid these, and everything else agrees:

* `NewShift`, `NewRotate`: a constant shifted right by a constant folds as a shift left by the amount modulo the width;
  a left constant of 0 or of the width is special-cased whatever the amount is; a mask is shifted left with an `AND` that is
  shifted right; `NewAnd` of a shift and a low mask returns the left shift (`Broker.cpp:237-242`); rotations by
  `-Width` and beyond. `ASR` is built as `LSR`, a shift by a register as `LSL #0`.
* Carries: the carry of a sum that was flattened or merged has lost its operands, a merge within a sum forgets its carry
  (`Broker.cpp:72`), the overflow of a product is not initialised. `CMN` compares with `m + 1`, `SBC` subtracts `m - C`.
* Flags: a rotation with S sets those of a shift; `MVN`, `NEG` and the logical instructions those of an operand. After an
  addition or comparison CS, CC, HI and LS are wrong for a second operand of 0, and GE, LT, GT and LE for the one that is its own
  negation; `VS` and `VC` are never right, `HI` and `LS` not after shifts. `CS` after `CMP`
  becomes TRUE in `Normalize`.
* `Normalize`: taking a summand, factor or XOR operand to the other side is valid for equality only, and so is the comparison of a
  difference with 0 for two expressions; a right shift is undone by a left shift that drops the low bits; the types tested at
  `Condition.cpp:180-181` are those of the node that was just replaced.
* `CBZ` and `CBNZ` never jump; `POP` with PC in its list leaves SP when it ends the path; two calls of one function with equal
  arguments are one node.
* The parser: hexadecimal numerals from 0x80000000 on are read as 0x7fffffff (`strtol`); a statement that loads what it stores is
  built several times; what is undefined is dropped with an error message only, and the rest accepted (`1;no`, `XOR(x,y,no)`);
  `TRANSIENT` has no effect (`SignatureParser.cpp:102`). `ParsedAsWritten` excepts the first two, by name.

## 4. The proofs

All of them hold for every value of the constants that satisfies the named
ASSUMEs, which TLC evaluates in the runs.

| module | theorem | property |
|---|---|---|
| `PoolClient_proofs` | `TypeCorrect`, `ActiveCorrect`, `NullMeansQuiescent`, `NoTaskIsLost` | `TypeOK`, `ActiveIsAwake` (the counter is exact), `Quiescent`, `NothingLost` |
| | `PoolImplementsTaskService`, `SynchronizeIsABarrier` | `ImplementsTaskService`, the action property `BarrierWaitsForTasks` |
| `Coordinator_proofs` | `Accounted`, `EntryAlwaysFound`, `AlwaysDestroyedWhenIdle` | the inductive invariant, `EntryIsFound`, `DestroyedWhenIdle` |
| | `NothingIsMissing`, `CompleteAlwaysMeansComplete` | `NothingMissing`, `CompleteMeansComplete` |
| `Predicate_proofs` | `CompareNormalizedSound` | every answer about two normal conditions, for any word width |
| | `TypeCorrect`, `PredicateExact`, `PredicateAnswersSound` | `TypeOK`, `ExactWhenFeasible`, `AnswersSound` |
| | `PredicateCanonical`, `PredicateDecidedOnce` | `Canonical`, the action property `DecidedOnce` |
| `PathExploration_proofs` | `TypeCorrect`, `BudgetKept`, `NoPathTwice`, `EveryLoopIsLeft` | `TypeOK`, `ForkBudget`, `DistinctPaths`, `LoopsAreLeft` |
| `DataFlowGraph_proofs` | `BuildersAreIsolated`, `ArcsAlwaysMatch`, `IndexIsExact`, `StoresAlwaysMatch` | `Isolated`, `ArcsMatch`, `IndexExact`, `StoresMatch` |
| | `ForksAreCopies` | the action property `ForkIsCopy` |
| `Builder_proofs` | `NothingUsefulLost`, `ArcsMatchAtEnd`, `CleanupIsExact` | a node given up is of no use (`NothingUsefulRemoved`), `ArcsMatch`, `CleanupExact` |
| | `StackTypeCorrect`, `CallDepthIsBounded` | `StackTypeOK`, `CallDepthBounded` |
| `SignatureEvaluator_proofs` | `SearchInvariant`, `AlwaysBacktracked` | the inductive invariant of what is undone, `Backtracked` |
| | `MatchInvariant`, `NeverMatchMissed`, `ReportsMatches` | that of what is found, `NoMatchMissed`, `FoundIsMatch` |
| `BlockPermutationEvaluator_proofs` | `ShortestPathsAlways`, `MatchExactAlways` | `ShortestPaths`, `MatchExact` |

`ActiveIsAwake`, `NothingLost` and the type invariants of `Predicate`, `PathExploration` and `GraphCleanup` are
proved and no longer part of a run.

The arguments:

* **Pool.** `Quiescent` is not inductive. The invariant adds `Holding` (a worker
  holds a task exactly while it executes), `OneBarrier` (at most one
  barrier is queued, its caller waits and it is not complete: `dwNumSynchronized`
  stays below `NumThreads`), `ActiveIsAwake` (the counter is a cardinality, so that 0
  means that no worker is awake) and `AtRest` (once nullptr was returned
  nobody executes, and nothing is queued but the exit task). A
  cardinality lemma relates one worker's move to the counter. This invariant also holds
  with `Synchronize` in the client, however often it is called: the hang of a
  second use is a loss of liveness, not of safety.
* **Refinement.** The invariant above, and that accepted tasks are distinct wherever they
  are (queued, held, yielded, collected); then one lemma per action of the pool that maps it
  to a step of the service.
* **Barrier.** `BarrierInv` follows what was accepted before the call to wherever it may be. While the barrier is in the queue,
  whatever was queued before it is still ahead of it or has been taken; a worker that counts itself in `dwNumSynchronized`
  has put its result away, and takes nothing until the barrier opens. When all have been counted, nobody is
  left who could hold one.
* **Coordinator.** `IInv` is the pool's invariant, restated for the tasks of an analysis, with three more parts. Every task is in
  one place. Every graph that was yielded is a result, in the coordinator's hands, in the tracker or
  reported, and in one of these only; the tracker waits for exactly the evaluations that are queued, executing or
  uncollected, so that each finds its entry. And something is to come: while functions are left and the coordinator waits, the
  pool has a task whose end leads to another attempt at `ScheduleNextFunction`. From the last it follows that nullptr
  is not returned early, from the others that nothing is missing then.
* **Predicate.** A list is exact on the way through the loop:
  `ExactWhileMerging` says that on a feasible path the entries together with the condition
  being merged admit what the decisions admit. Each iteration keeps it because
  `CompareNormalized` is sound about the pair it is given, a case analysis
  over the operator pairs in linear arithmetic. `Canonical` needs the entries before the iterator to be apart from the
  condition that is being merged, too. `DecidedOnce` needs that a merged condition decides what either of the two
  decided: `DecidedWhileMerging` carries the verdict through the loop, with or without the entry that was taken out.
* **Paths.** The budget counts, for each function, the builders there are and the forks that
  may still be granted; a fork moves one from the second to the first. Any two
  builders met one condition at which their first decisions differ; a decision
  is never taken back (`Grows`), so a fork differs from every builder its parent
  differs from, and from the parent at the condition it was made for. `LoopsAreLeft`
  is inductive with the type invariant: only the builder that decides changes its own log, by one entry,
  which the oracle takes from the log's first and its length, and a fork starts a log that was empty.
* **Data flow graph.** `IInv` says of every graph that its nodes are made of its own older
  nodes, that arcs and index are exact, and that registers and memory map hold nodes of it. While a graph is copied
  it rests (its builder is forking), so the copy stays a part of it (`CopySound`): each node copied so far
  has the label of the original and inputs with the same ids. That is what makes the look-ups by id succeed
  when the fork is complete (`CompleteFacts`), from which isolation of the fork and `ForkIsCopy` follow; a copy that
  fails is removed without a trace in other graphs, because no other graph has an arc to it.
* **Cleanup.** `CountsExact` (what is counted for a node are its scheduled users),
  `NoneMissed` (a node that ought to be scheduled is still ahead of some loop on the
  stack) and `Consistent` (arcs, at any point of the removal). When the stack
  is empty, no node is left that should go. That the rest is the *least* closed
  set takes an induction from users to inputs; it is done with the least-number
  principle of `WellFoundedInduction` in its set form, applied to the node of
  highest number that would contradict it.
* **Signature evaluator.** `Pruned`, `Fitting` and the loops over a row are recursive functions whose argument shrinks.
  `RecursionExists` and `RecursionEnds` show once, with the least-number principle on the size of the argument, that such a
  function exists and ends in the set in which it starts; from that follows what each loop makes of its matrix, for example that
  `Pruned` is the largest matrix that supports itself (`PrunedFacts`). `SearchInv` then says what the calls that hold a node
  have done: each flag that can be told is that of one call (`FlagsOf`, by arithmetic over the words of the flag map, with the
  sign extension of `1 << 31`), each opaque type that is known was set by the first call that holds a node of it (`OpaqueOf`),
  and there is one pushed matrix for each call that pushed. `FlagPopped` and `OpaquePopped` are what makes going back exact.
* **What the search finds.** `NoMatchMissed` speaks of searches that are over, and needs to know what they have passed over. `MatchInv`
  says that there are matrices `ms`, one for each call under way and the one at hand, with two properties. `Traces`: each supports itself,
  and those that were pushed are on the stack where the calls will find them. `Chances`: as long as the calls agree with a match, it is
  among the candidates of their matrices, what it has for the node of a call is the candidate of that call or lies ahead of its
  loop, and a call that returns false cannot be the one that agrees. That pruning removes nothing of a match (`MatchPruned`) follows from
  `PrunedFacts`, as a match is a matrix that supports itself; that pass 1 visits it, from the roots down (`MatchCandidates`), by
  the absence of cycles in a variant; that a flag or an opaque type does not refuse it (`MatchNotRefused`), from
  `SearchInv`. When time is up a loop may leave candidates untried, and only `~late` promises anything. `FoundIsMatch` needs the last part of
  `Traces`, which holds for code in any number of words: candidates are only ever removed, a call's candidate is the first of the node's
  row, and where no candidate of that row can be passed over (`InStep`, which smaller rows inherit) the loop removes all others. Thus a node
  that began in step keeps its candidate alone in every later matrix (`InStepKept`). The first candidates of the nodes kept are those of
  the calls, about which `SearchInv` says that types agree and that flags tell them apart; as the last matrix supports itself, their
  inputs are mapped to inputs. When every node began in step, what is found is a match (`InStepMatches`).
* **Block permutations: the paths.** `TripletsFound` says what the two loops over the loads of a base collect: the loads are in
  the order of their offsets, so a third block at `Offset + diff` does not wrap around, and the three are equidistant as
  numbers and not just modulo the word. `SearchInv` is the invariant of a breadth-first search whose neighbours come in
  any order. `QueueSound`: a path in the queue is a shortest one for its head. `QueueOrder`: no node is queued twice, and lengths rise
  along the queue by one at most. `Closed`: whatever is next to a visited node has been flagged.
  `PathsSoFar`: a triplet has a path exactly when its second block was visited. `Covered` relates them to `Within`, the nodes
  at a distance: nodes nearer than the head of the queue are visited already, hence a node that is flagged now is at no shorter distance; and
  when the queue is empty, the flagged nodes are all that can be reached.
* **Block permutations: the match.** `CacheInv`: a pair in the cache was compared, with that outcome, whatever words have been lost since.
  `CallsInv` speaks of the calls under way: each has the path from its depth on, its sources are among those
  that a full exploration would try there (`Followed`), and, if the path can be followed at all and time is not up, one call is `Promising`: it
  has still to try a node from which the rest of the path leads to the second block (`Ahead`). Going down, the new call takes the promise
  over; going back, a call that returns false had no such node, so the promise was another call's. `MirroredAhead` says that
  `Followed`, computed forwards, and `Ahead`, computed backwards, agree on whether the path can be followed. With `RefutedInv`, about the triplets left behind,
  and `ResultInv`, both halves of `MatchExact` follow.
  `CodeGraphsAssumption` is all that is used of a graph: its nodes are finitely many and numbered, inputs are older than what
  is made of them, a load has an address, and a constant is a word. `InsertNode` (`DFGraph.cpp`) numbers nodes in that order, and `ArcsAlwaysMatch` proves it of the builders.
* **Call stack.** `CallDepthBounded` is inductive with the type, but a step is not obvious: a call pushes first, and `JumpToNode`
  looks for the target and for LR further down. What a call pushes is still there, or the stack has become
  shorter than before the call; a call that is not inlined goes on at the address just pushed, which is popped. The last entry for an
  address exists by the least-number principle. The step simulation between processor and stack
  is checked by TLC (`ImplementsCallStack`).

Only model-checked: all liveness (`EveryTaskIsCollected`, `WaitsForAllEnd`,
`CompletesUnlessForgotten`, `EveryBuilderYields`,
`MergeTerminates`, `EvaluationEnds`), which is out of the prover's reach; whatever is about `Expression`, whose operations are
recursive, hence the properties of `ArmExecution` (with `ImplementsCallStack`), and `ParsedAsWritten`, `OpaqueRefsInRange` and `ImplementsEvaluator` of `SignatureSearch` (the provers do not
see through recursive operators, and cannot do induction over terms).

## 5. What is not modelled

* *Time.* The construction time is measured and logged, and limits nothing (`Broker.cpp:937`).
* *The IDA SDK.* Decoding instructions, segments and reading bytes: constants of the models
  (`Programs`, `Internal`, `ReadOnly`, `Image`).
* *Characters.* Names and numerals are tokens; their limits of 31 and 15 characters are not modelled.
* *A second run.* Two coordinators at once (closing and reopening the dialog while one is at work): what that does to a thread
  under way is undefined behaviour of `std::thread`'s destructor.
* *Data races outside the pool's mutex.* `PathOracleImpl::Initialize` clears the map of forks
  without the mutex that `ShouldFork` takes (`PathOracle.cpp:10`); what it does to the
  budget is modelled, what a torn container does is not.
* *Reference counts.* Objects live as long as something refers to them; the one place
  where the moment of destruction matters, the pool, is modelled.
* *Widgets, text, logging, export*, and `hexrays_*.cpp`, which is
  a sample of the SDK and an experiment that nothing calls.

## 6. The plan

Done: thread pool, client, refinement, coordinator, predicate, path exploration, data flow
graph, clean-up, node construction, conditions, Arm processor and call stack, signature parser and evaluator, block permutation
evaluator, and the theorems above. What would come next:

1. `GraphCleanup` composed with `DataFlowGraph`: the set to keep computed from
   registers and memory map (`Broker.cpp` 886-914, `Arm.cpp` 990-1018).
2. `PathExploration` composed with `ArmExecution`: the verdicts taken from `Predicate` instead of a choice.
3. Reference counting with assignment.

Theorems to come: the processor's steps mapped to those of `CallStack`, for which `Expression` would have to be written
without recursive operators.
New runs take the place of ones that the proofs make redundant,
so that the whole set stays quick enough to be repeated with every change.
