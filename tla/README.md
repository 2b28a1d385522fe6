# DFENCE in TLA+

DFENCE is LLVM 2.7 with an interpreter that runs multi-threaded programs under
relaxed memory models, a checker that judges the recorded histories, and a tool,
`lli-synth`, that inserts memory fences until the checker stops complaining.
This directory specifies that machinery in TLA+, checks it with TLC on small
programs, and proves with TLAPS what matters most for programs and histories of
any size. Everything is read from the source; paths below are relative to
`src/`, and `I/` stands for `lib/ExecutionEngine/Interpreter/`.

## 1. The system

    conf.txt -> Params
                  |
    program ->  lli / lli-synth --------------------------------------.
                  | runs, many times                                  | inserts fences
                  v                                                   |
              Interpreter::run  <-> Scheduler (next thread or flush)  |
               |  memory, store buffers, thread stacks                |
               |-> History   (calls and returns) --> CheckTrace --.   |
               `-> RWHistory (accesses, flushes) --> Constraints <-' -'
                                                       | clauses
                                                       v
                                                     MiniSat

| component | state it keeps | operations | interacts with | what is hard | what makes it correct |
|---|---|---|---|---|---|
| instruction execution (`I/Execution.cpp`) | memory, stacks, address map | one visitor per instruction | fills and empties the buffers, writes both histories, marks `instr_info` for the scheduler | every instruction meets every state of the buffers | a thread reads its own newest store, otherwise memory; atomic instructions act in memory |
| store buffers | `thread_buffer_tso`, `thread_buffer_pso` | store, `flush_buffer_*`, `membar_ss`, `membar_sl`, flushes inside atomics, `flushAll` | scheduler, memory, `RWHistory` | four paths empty a queue | no store lost, repeated or reordered in its queue; fences restore sequential consistency |
| scheduler (`I/Scheduler.cpp`) | none (`instr_info` of the interpreter) | `selectAction`, `selectAction1` | picks a thread or a flush | it decides only after shared accesses, blocked instructions and ends of threads | no thread and no buffer is starved |
| threads | thread numbers, a stack each | `spawn_thread`, `join_all`, return of the first frame | all of the above | joins wait by executing again | what is joined has ended |
| call history (`I/History.cpp`) | `trace_rec`, `recur_calls` | invoke, return, first event | `CheckTrace` reads it | nested and recursive calls in several threads | calls and returns pair |
| access history (`I/RWHistory.cpp`) | `rwtrace_rec`, `shared_rec` | `RecordRWEvent`, `FindSharedRW` | `Constraints` reads it | records must name the right thread and lie in the right region | the trace says what the buffers held |
| trace checker (`I/CheckTrace.cpp`, `I/Spec*.cpp`) | `init_perm`, `thread_perm`, `curr_perm` | generate the interleavings, test each | `run` takes its verdict | overlapping calls, many permutations | success just when some permitted order is a sequential run |
| constraints (`I/Constraints.cpp`) | literals, clauses, `solvedStores` | `Calculate`, `AddToSolver`, `Solve`, `Merge`, `InsertFences`, `Flush` | traces in, clauses to the solver, fences into the module | state that survives rounds | the literals are the delays; each buggy trace gets a fence |
| SAT solver (`I/SatSolver/Solver.cpp`) | clauses, watch lists, assignment, trail | `newClause`, `propagate`, `analyze`, `cancelUntil`, `simplifyDB`, `reduceDB`, `search`, `solve` | answers `Constraints::Solve` | pointers into lists that backjumps and removals leave behind | watches, reasons and trail stay consistent; the answer is right, the model minimal |
| synthesis driver (`tools/lli-synth`) | counters, the module | `InterpretRun`, the loop of rounds | everything | fields nobody initialises; exits on the way | rounds make progress, end, and leave a repaired program |
| others | | | | | parameters, drivers, thread keys, external functions, LLVM: see section 5 and `PROJECT.json` |

There is one process and one real thread. The concurrency is simulated: threads
of the interpreted program interleave as the scheduler draws them with `rand()`,
and so do the flushes. Nothing is persisted, and there are no timeouts.
`PROJECT.json` lists the hazards of the code at their lines, with the property
that covers each or the reason why none does.

## 2. Modules

| module | stands for | remarks |
|---|---|---|
| `Interpreter` | `Execution.cpp`, `Interpreter.cpp`, `Scheduler.cpp`, `History.cpp`, the records of `RWHistory.cpp` | one action per instruction and outcome, `RandomFlushTSO/PSO`, `Finish` |
| `CoherentMemory` | what the memory promises under every model: per address, a memory with FIFO pending stores | abstract specification |
| `SCMemory` | sequentially consistent memory with pending stores nobody may overtake | abstract specification for fenced programs |
| `MemoryModels` | the refinement mappings from `Interpreter` to both | says which programs are fenced and which are orderly |
| `ClientCode`, `MCInterpreter` | notation for programs; suites of clients | for TLC |
| `CheckTrace` | `CheckTrace.cpp`, `Spec*.cpp` | record a history, then search the permutations |
| `MCCheckTrace` | which threads call which object | for TLC |
| `Constraints` | `Constraints.cpp`, `FindSharedRW` | operators on traces, clauses and bodies |
| `HittingSets` | what MiniSat may answer a problem without negation | used by `Constraints`, and what `Solver` is compared with |
| `Solver`, `MCSolver` | MiniSat, as `Constraints` and its own `main` use it; problems | no refinement: the answer is compared with `HittingSets` |
| `Synthesis` | `lli-synth.cpp`, the end of `run()` | extends `Interpreter` (a run is its steps), `Constraints` and, for sequential consistency, `MemoryModels`; instantiates `CheckTrace` for the verdict |
| `MCSynthesis` | clients of a set | for TLC |
| `InterpreterProofs`, `HistoryProofs`, `CoherenceProofs`, `FenceProofs` | theorems about `Interpreter` and its refinements | for TLAPS |
| `CheckTraceProofs`, `QueueProofs` | theorems about `CheckTrace` | for TLAPS |
| `SolverProofs` | theorems about `Solver` | for TLAPS |
| `SynthesisProofs` | theorems about `Synthesis` and `Constraints` | for TLAPS |

### Interpreter

A step is one turn of the loop of `Interpreter::run`. `At(t, op)` is the
scheduler's choice of thread `t` (kept while the last instruction was neither
blocked nor a shared access), `Proceed` the loop around `visit(I)`, and the rest
of an action its visitor: effect on memory and buffers, value, both histories.
`thread_buffer[t][q]` has one queue per thread under TSO and one per address
under PSO, as the two maps of the code. Under TSO the scheduler may draw an empty
buffer; the flush is recorded for `currThread`, as in the code. A random flush of
a freed cell sets `segmentFaultFlag` and the run goes on until the next
instruction looks at it.

Abstracted: a frame keeps one SSA value, operands are constants of the program,
a cell holds one value and is named instead of addressed. `issued`, `retired`
and `observed` are history variables. `isSharedAccessing` starts with either
value because the constructor does not set it; it makes no difference, since main
is the only thread then and has nothing buffered. Bounds: `RecordLimit` on
`rwtrace_rec` (0 where no property reads it), the numbers in `Thread`.

### MemoryModels

`Coherent` maps each buffered store to its address, its number among all stores
ever put into its queue, and its value; queues disappear, so that one abstract
memory stands for all three memory models. `SC` maps a thread's buffers to the
one queue of it that is not empty. `FencedPrograms` says when a program is
fenced: wherever the memory model lets an instruction overtake a store (`Delay`),
an instruction that drains it (`Drains`) stands on every way from the one to the
other. The ways are those of the control flow graph: branches, calls, and returns
to behind any call of the function (`Leads`). `Reached` is the set of places a
store may come to undrained, as the least set closed under them. `Orderly` names
the two ways in which a program escapes coherence, section 4, and
`OrderlyPrograms` the programs that have the means for neither.

### CheckTrace

`Invoke`, `Respond` make any history of `MaxCalls` calls with any results;
`GenInit`, `GenNext`, `Accept`, `Reject` are `checkHistory`, with the real
permutation machinery: sorted thread numbers, `std::next_permutation`, the k-th
occurrence of a thread standing for its k-th call, the overlap test.
`Explicable` is the definition the checker is compared with: some order of the
completed calls keeps the order of each thread (for linearizability that of all
calls that do not overlap) and is a run of the sequential specification.

### Constraints, HittingSets and Solver

A literal is a pair of labels, as the keys of `mapToLit` and `mapToLit_ss`.
`Constraints` gives MiniSat clauses without negation, and MiniSat decides
variables false, so every true one was forced by a clause: its models are
minimal hitting sets. `HittingSets` states that, and `Solver` is checked, and
proved, to do it (`ModelIsMinimal`). Which minimal one, and which store-store literal `Merge` sees
first, depends on the numbers of literals and is left open.

`Solver` keeps the solver's data structures: clauses at addresses with two
watched literals, binary clauses that live in the watch lists only, reasons,
trail and levels, the queue position, the heap of the decision order. Its
actions are the steps between which the code's own invariants should hold: one
clause added, one literal dequeued, one watch visited, one turn of `analyze`, the
learnt clause, `simplifyDB`, `reduceDB`, a restart, a decision. Left open,
because no property depends on it: which variable is decided, in which order a
list is visited, when the counters of activity and propagations call for upkeep
(`MaxUpkeep` bounds how often).

### Synthesis

`Synthesis` names a program by its set of fences and runs it in the interpreter;
at the end of a run `Rejected` asks the definition of the verdict
(`Checker!Explicable(Checker!Completed)`), `BuggyTrace` adds a clause,
`SolveAndInsert` ends a round, `Restart` is the new interpreter. `Property`, SC
or LIN, is chosen from `Asked` at the start. `allonAssertExist` and `ExitStatus`
of a new interpreter are arbitrary, because neither the constructor nor
`lli-synth` sets them (`lli` does): `StaleTrace` and the exit with 254 are what
follows. `delays`, `aligned` and `outlived` are history variables: what really
overtook what, whether each drawn flush was one of the current thread's, and
whether a store was still buffered when its recorded call returned.

`outlived` is there because of linearizability. A call may return while its store
is still in the buffer; a later call of another thread then misses it, and the
history is not linearizable although no instruction overtook anything: no literal
stands for that, and no fence the synthesis can insert is asked for. Without
`~ outlived`, `NoDelayNoBug` is false of `synthesis_pso`.

`PlainPrograms`, `GlobalPrograms`, `OrderlyPrograms` and `ForkJoin` are hypotheses
of theorems about the programs of `Code`, section 4. `PlainAssumption` in
`MCSynthesis` makes TLC evaluate them, so the clients of the synthesis runs are
among the programs the theorems are about.

## 3. Runs

All runs say `CHECK_DEADLOCK FALSE`: a run of a program, a check, a solver and a
synthesis really end.

| run | shows |
|---|---|
| `tso` | `TypeOK`, `QueueOrder`, `HistoryWellFormed`; `ImplementsCoherentMemory` (refinement of `CoherentMemory`); `FencedProgramsAreSC` (fenced clients refine `SCMemory`) |
| `pso` | the two refinements for the same clients, with per-address queues and `membar_ss` as the fence |
| `pso_waiting` | `Termination`, `EveryBufferDrains` for clients that spin on each other and on themselves |
| `check_objects` | `VerdictIsRight`, `TasksComeFromPuts`, `FirstInFirstOut`, `PermutationsAdvance` and the types for every object, SC and LIN |
| `solver` | `ReasonsAreUnit`, `PropagationComplete`, `LearntIsAsserting`, `ListsHoldTheirClauses` (the data structures), `VerdictIsRight`, `ModelIsMinimal` (the answer), `Terminates` |
| `synthesis_tso` | over all rounds of a store buffering client: `DelayFreeStepsAreSC` (the interpreter is sequentially consistent until something overtakes a store), `LiteralsAreDelays` (the trace tells what did), `NoDelayNoBug` (nothing else is rejected), `FencedStoresAreNotOvertaken` and `FencedStoresAreNotBlamed` (a fence settles its store, in the buffers and in the traces), `EveryRoundAddsAFence` |
| `synthesis_pso` | the properties of `synthesis_tso` but the types and `EveryRoundAddsAFence`, for message passing, asked for SC and for LIN, with literals and fences of both kinds |
| `tso_unflushed` | finding 1: a finished run may leave stores in buffers |
| `tso_flush_records` | finding 2: random flushes are recorded for the wrong thread |
| `tso_spinning` | finding 3: a thread that reads its own buffered store starves everybody under TSO |
| `synthesis_asserts` | finding 4: blocked joins close the spawn/join region; `Calculate` asserts |
| `synthesis_drops` | finding 5: after its first store-store literal `Merge` drops all others |

Bounds and why they are enough:

* Interpreter: two threads and two or three cells. The effects between threads
  modelled here (overtaking, forwarding, atomics) are pairwise. The suites hold
  every client with two instructions per thread from stores and loads of two
  cells, `cas32`, `caspo` and both fences; two instructions are the length of the
  store buffering, message passing and load buffering shapes. Fenced clients have
  three accesses in main, so that a fence stands between more than one pair. In
  the clients with loops only the way back, or a called function, leads from a
  store to what could overtake it. What the bounds leave out of the safety properties, the theorems of section 4 cover.
* Clients with heap cells, stack cells, calls and `assert_exist` are written one
  by one, to reach the paths the generated ones do not (freed cells with buffered
  stores, recursion, a recorded first frame).
* Under PSO `faspo` occurs in the suite only where nothing is buffered to its
  cell: it exchanges memory behind the thread's buffered stores and is not
  coherent then (hazard at `I/Execution.cpp:1722`).
* `check_objects`: three calls make every overlap of two calls with a third. On
  the queue three threads call, so that all of them overlap at once and threads
  come in every order; on the other objects two, where the calls of one thread
  must also keep their order. Longer histories are the theorems'.
* `solver`: all 343 problems of three positive clauses over three variables, the
  shape `Constraints` produces; with negation, the full set of clauses over three
  variables (contradictory, conflicts at every level) and the same without one,
  two problems over five variables with learnt clauses long enough to be minimized
  and removed, and five with facts, tautologies and empty or repeated clauses.
  Twelve addresses are more than any of them allocates; one restart or reduction
  per behaviour, in any place.
* `synthesis_tso` (main adds two elements and looks for a third, another thread
  adds that one and looks for main's) bounds traces at 10 records, with rounds of
  one run. It reaches convergence with two fences in the module, and rejected
  runs of modules with fences whose traces tell the whole story.
  `synthesis_pso` (one thread adds two elements in an order, main looks for them
  in the other) bounds traces at 11, with rounds of two runs: two clauses in one
  solver, good and buggy runs in one round, stale clauses and stale exit codes
  occur, in the first round and in rounds of modules with fences, and it converges
  with both kinds of fence. Each of these was confirmed by denying it in a
  temporary invariant. Two clauses together with a fence already in place do not
  occur within these bounds. In `synthesis_tso` no trace is stale, since that takes
  a second run in a round; that `EveryRoundAddsAFence` holds with stale traces is
  the theorem `RoundsAddFences`.

Fairness. `selectAction1` draws with `rand()`, and `FLUSHPROB` lies strictly
between 0 and 1: a thread or a non-empty buffer that can be drawn again and
again is drawn, so both get strong fairness. When the scheduler keeps its thread
the other actions are not enabled, and fairness says nothing of them: that is
how finding 3 can happen under `FairSpec`. `Solver` and its `Terminates` need
only weak fairness of a sequential program. `EveryRoundAddsAFence` is the safe
part of the termination of the synthesis: fences are put after stores and there
are finitely many. `PermutationsAdvance` is that of the checker: the
interleavings it tries come later and later in the lexicographic order.

## 4. Proofs

All assumptions are the named ones of the modules, which TLC evaluates in the
runs. `Spec` is without fairness.

### The interpreter, for every program, any threads, cells and values, and each memory model

* `TypeCorrect`: `Spec => []TypeOK`. `TypeOK` is not inductive: nothing in it
  keeps a frame's `pc` inside its body, without which the next instruction is no
  instruction. The invariant is `IInv == TypeOK /\ AtInstructions`, where
  `AtInstructions` says it of top frames (and of callers, that a return leaves
  them inside). It follows from `ProgramAssumption`: bodies end in `ret` and
  branches stay inside, which LLVM's verifier demands. There is a lemma per
  instruction, grouped by what it changes.
* `QueuesInOrder`: `Spec => []QueueOrder`, from two lemmas about sequences: every
  step appends to `issued` and the queue alike, or moves a prefix of the queue to
  `retired`.
* `HistoriesWellFormed`: `Spec => []HistoryWellFormed` (`HistoryProofs`). A
  return is recorded from a counter alone, so the invariant `HInv` also says that
  there is a counter for every thread started (`Numbers`) and which open call the
  last record of a thread is about: the one lowest on its stack
  (`LastIsLowest`). Calls may nest, recurse and start threads.
* `IsCoherentMemory` (`CoherenceProofs`): a behaviour all of whose states are
  `Orderly` satisfies `ImplementsCoherentMemory`. Each step is a step of the
  abstract memory or leaves its variables alone. The mapping needs to know where a
  buffered store is: in the queue of its address (`Sorted`), and nowhere under
  `NONE` (`Unused`); then the stores of a thread to one address are part of one
  queue, and their numbers are their order. `Orderly` excludes what the code does
  not handle: a stack cell allocated over stores still pending to its former use,
  and under PSO a `faspo` on a cell to which its own thread has stores pending.
* `CoherentWithoutLocals` (`CoherenceProofs`):
  `OrderlyPrograms => (Spec => ImplementsCoherentMemory)`. A program without
  `alloca`, and under PSO without `faspo`, implements the coherent memory with no
  hypothesis on its behaviours: the invariant `NoLocals` (no frame has a stack
  cell) leaves no way to a state that is not `Orderly`. Heap cells stay in, those
  freed, and allocated again, with stores still buffered among them: such a store
  reaches the new block like any other pending store, or sets the segment fault.
* `FencesRestoreSC` (`FenceProofs`): `Spec` satisfies `FencedProgramsAreSC`. The
  invariant (`FencedRun`) says where a buffered store of a running thread comes
  from: a store instruction the thread has passed, after which it has passed
  nothing that drains it. At an instruction that could overtake the store such a
  fence would have to be there; so a thread has pending stores in one queue at
  most, and what it executes is to their address. Programs may branch, loop, call
  and recurse on global variables. Positions are not enough for that: the
  invariant says that the thread stands at a place `Reached` from the store, and
  that below each frame of its stack there is the call it came by (`Chained`), so
  that a return leads where `Leads` says. A thread not started yet has an empty
  stack and empty buffers (`Fresh`).

### The checker, for histories of any length, any number of threads, every object, SC and LIN

* `CheckerIsRight`: `Spec => []VerdictIsRight` (`CheckTraceProofs`). The invariant
  `CInv` says that the interleavings rejected so far are those of the sequences
  of threads that come before the present one in the lexicographic order
  (`Tried`). The lemmas before it show that the sorted sequence is the first of
  all, that `std::next_permutation` leaves none out (`NextIsNext`), and that one
  without a rise is the last; `OrdersAreInterleavings`, that the orders of calls
  the definition asks about are the interleavings of such sequences. `HistoryOK`
  and `Listed` tie the list of completed calls to the history.
* `CheckerTypes`: `Spec => []TypeOK`; `PermutationsGoOn`:
  `Spec => PermutationsAdvance`.
* `AcceptedTasksComeFromPuts`: `Spec => []TasksComeFromPuts`, and
  `AcceptedQueuesAreFIFO`: `Spec => []FirstInFirstOut` (`QueueProofs`). For the
  run by which a history was accepted: what was put in was taken out or is in the
  object (`RunIsBalanced`), and in `SpecQueue`, while `x` has not been taken out,
  it lies behind every `y` put in after it (`OrderOfRun`). The runs are recursive
  functions over the calls; since induction theorems with an operator parameter
  cannot be used here, each fact about them is proved from the least number of
  calls for which it would fail (`Least`).

### The SAT solver, for any clauses, any number of variables and of restarts

All seven invariants of the run `solver` are theorems (`SolverProofs`), of any
sequence of clauses, with negation or without: `TypeCorrect`, `ReasonsStayUnit`,
`PropagationMissesNothing`, `LearntFollows`, `ListsAreRight`, `SolverIsSound`
and `PositiveModelsAreMinimal`. One invariant, `IInv`, carries them; none of the
seven is inductive without most of it.

* *The trail* (`TrailOK`, `LevelsOK`, `DecisionsOK`): it holds the literals that
  are true, each once, in levels that each begin with their decision.
* *Reasons* (`ReasonsOK`, `ReasonOK`): a reason is still held, its other
  literals stand before its own in the trail, one of them at the same level. So
  `analyze` can go back along the trail, and a decision is the first, and
  so the last counted, of its level.
* *Clauses and lists* (`ClausesOK`, `BinaryOK`, `PointersOK`, `SweptOK`). The
  hard part is `simplifyDB`: it empties the lists of facts, and keeps a satisfied
  clause that is a reason, whose watches are then gone for good. `SweptOK` says
  why that is harmless: such a clause is true by its first literal at level 0
  (`Retired`), and no other clause watches the variable of a cleared fact, now or
  by a later `NewWatch` or learnt clause.
* *Watches* (`WatchOK`): where a watched literal is false and its list has been
  visited, the other watched literal is true, *at no higher level*. With the last
  part a backjump loses nothing; it is why the queue may be moved back to the end
  of the shorter trail. In a conflict the lists of the current level are not
  visited to the end, so the statement is about the levels below it (`Upto`)
  until `Learn` has left that level.
* *Knowledge* (`KnownClausesOK`, `KnownFactsOK`, `CoveredOK`): every clause held
  and every fact follows from the problem, and every clause of the problem is
  true for ever or held in a form no weaker. `AnalysisOK` says it of the clause
  being learnt, by resolution with one reason a turn; minimization goes by the
  position in the trail of the last redundant variable (`MinimizedImplied`).
* *Clauses without negation* (`PositiveOK`): what is false is a decision. Two
  watches of a clause cannot both be: the earlier decision's list had been
  visited, and had made the other watch true (`NoConflict`). A positive literal
  that is true is the only one in the clause it was implied by, so the model is
  minimal (`Needed`).

That a model satisfies the problem comes from `PropagationComplete` at the last
decision (`ModelIs`), since the heap runs empty only when every variable has a
value (`HeapOK`). `AnswerOK` keeps it until the end. Before the proof TLC checked
`IInv` on the problems of `MCSolver` and on random problems of eight variables.

### The synthesis driver, for any program, threads, runs in a round and fences

The theorems are about all rounds (`SynthesisProofs`). `InsertionAssumption` is
what they take of fence insertion: for each set of fences there is a module, and
in it an instruction with fences is followed by one of them.

* `SynthesisTypeCorrect`: `SSpec => []STypeOK`. That the module with its new
  fences exists needs an invariant (`SInv`) of everything on the way from
  instruction to fence: labels in records, clauses and `solvedStores` are those of
  stores of the program, and under TSO no literal calls for a `membar_ss`.
* `FencedStoresStayUnblamed`: `SSpec /\ []OneRegion => []FencedStoresAreNotBlamed`.
  The invariant (`SFenced`) is about the buffers `GenerateClauses` reconstructs,
  not the real ones, since flushes may name the wrong thread: while a fenced store
  is in one, its thread stands right before the fence, or a join was recorded and
  nothing counts any more. The fence's record empties the buffer.
  `OneRegion` says that no thread is started after a join. Without it the theorem
  is not expected to hold: a fence executed between a join and the next spawn
  lies in no region, `FindSharedRW` drops its record, and the store before it is
  still in the reconstructed buffer when the next region starts.
* `ForkJoinHasOneRegion`: `ForkJoin => (SSpec => []OneRegion)`, so the two theorems
  around it need no hypothesis on behaviours for programs whose main starts all
  its threads before it joins them. Once a join is recorded, main stands behind
  all its spawns (`JInv`), and no frame but its first is main's. TLC checks
  `ForkJoin` of the clients of all synthesis runs.
* `RoundsAddFences`: under TSO `SSpec /\ []OneRegion => EveryRoundAddsAFence`. A
  clause is hit by a literal whose store has no fence yet, by the invariant above;
  the stores that `Merge` skips, `solvedStores`, have theirs. Under PSO finding 5
  stands in the way.
* `TracesTellDelays`: `PlainPrograms => (SSpec => []LiteralsAreDelays)`. The
  invariant (`DInv`): as long as the trace tells the whole story and up to the
  join, each queue holds the stores of the trace at the positions that
  `GenerateClauses` keeps for it, in ascending order (`Mirrors`). Before the first
  start nothing is recorded that counts, and the buffers are empty.
  `PlainPrograms` excludes what the code records wrongly or not at all: a
  `membar_ss` under TSO, which ends a segment without draining; a `cas32` under PSO,
  whose failure leaves no READ record; freed and stack cells; accesses without a
  label, which is what `Calculate` takes for none.

* `FencedStoresNotOvertaken`: `SSpec => []FencedStoresAreNotOvertaken`, of the
  real buffers, with no hypothesis. The invariant (`BInv`): while a store with a
  fence is buffered, its thread stands at that fence (`HeldBack`), which drains
  the whole buffer: under TSO every fence the synthesis makes is a `membar_sl`
  (`FencesOK`), because no literal there is about two stores. It is the other half
  of `FencedStoresStayUnblamed`, which is about the buffers as the traces
  reconstruct them.
* `DelayFreeRunsAreSC`: `GlobalPrograms => (SSpec => DelayFreeStepsAreSC)`. As long
  as nothing was overtaken a thread's stores are in one queue (`Serial`), and each
  instruction that overtakes nothing keeps it so; then the lemmas of `FenceProofs`
  about single instructions (`InstructionSerial`, `FlushSerial`) apply, whether or
  not a fence is what kept the stores in order. `GlobalPrograms` excludes heap and
  stack cells, and under PSO `cas32` and `faspo`, which overtake stores to other
  cells and leave no literal for it.

Together they close the argument of the synthesis but for the client: a run that
differs from sequential consistency has a delay (`DelayFreeRunsAreSC`), a trace
that tells the whole story names it (`TracesTellDelays`), the solver picks a store
of every trace (`PositiveModelsAreMinimal`), and a store that got its fence is
overtaken no more (`FencedStoresNotOvertaken`). Under PSO finding 5 breaks the
chain between the last two: `Merge` may drop the store that the solver picked.

### Only model-checked

Liveness (`Termination`, `EveryBufferDrains`, `Terminates`), which is out of the
prover's reach here, and `NoDelayNoBug`. The latter combines three facts: a run
without delays is one of sequentially consistent memory, its calls are atomic
there, and calls of the client's set that are atomic agree with `SetAdd` and
`SetContains`. The first is `DelayFreeRunsAreSC`. The other two are about
particular client code; no theorem for every program has them. The properties of
the five runs that expect a violation are false, as section 3 says.

## 5. Not modelled, and why

* LLVM 2.7 itself, all but a few thousand of the repository's lines: vendored,
  and unchanged apart from a label field of `Instruction` and some includes. The
  part of the implementation mapped here is therefore a small share of the lines,
  and most of the code DFENCE adds.
* `memset`, `memcpy`, `mmap`, blocks of more than one cell, stores by address
  arithmetic into neighbouring cells: cells hold one value. `unwind`, external
  functions, varargs and arithmetic: outside the state above (the hazard at
  `I/Execution.cpp:836` says what `unwind` does to the history). `casio` and
  `fasio` stop the run.
* Thread-specific keys: a map nothing else reads. Parameters: parsed into the
  constants. `lli`: one run of the interpreter.
* The DBRR scheduler is not offered by the configuration. Runs with `WMM = NONE`
  are specified and proved about, not checked by a run.
* The deque's sequential specification has empty bodies, and a SKIP_LIST cannot
  be checked at all (`checkPermutation` exits).
* MiniSat: assumptions and `analyzeFinal` (nobody passes assumptions),
  activities, statistics, parsers.

## 6. What could follow

1. Clients of `Synthesis` with atomic instructions and fences of their own (a
   `membar_ss` under TSO ends a segment of the trace without draining; a failed
   `cas32` leaves no record under PSO): `LiteralsAreDelays` would not hold of
   them as it stands. Three threads in `Synthesis`.
2. Blocks of several cells: `memcpy`, `memset`, the address map as intervals, and
   `checkMalloc`'s overlap test against disjointness.
