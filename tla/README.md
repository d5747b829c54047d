# A TLA+ model of gozero

gozero compiles small programs, sequences of calls to bound Go functions, into
closures that a host runs many times, from many goroutines. This directory holds
TLA+ modules for the parts of it where order, sharing and failure matter, TLC
configurations that check them on small instances, and proofs that TLAPS checks
for every instance. `PROJECT.json` lists the runs, the source lines each
definition stands for, the mutants each property was tried against, the hazards
and the theorems. Line numbers below are those of the Go files one directory up
in `src/`.

To check a run: `tlc -config ArgPoolsPooled.cfg MCArgPools`. To check a proof:
`tlapm ArgPoolsProofs.tla`.

## 1. Inventory

| Component | Files | State | Operations |
|---|---|---|---|
| Runtime and program cache | `runtime.go` | `compiler.bindings`, `compiler.vars`, `types`, `cache`, one `sync.RWMutex` | `Compile`, `Eval`, `Supports`, `Bind`, `BindScope`, `SetLogger` |
| Type registry | `types.go` | `Runtime.types`: name to `reflect.Type` | `BindType`, `Types`, the walk `discover` |
| Parser, lexer | `parser.go`, `parser_arg.go`, `lexer.go` | none survives `Parse` | `Parse` |
| Program compiler | `compiler.go`, `vm_compile.go`, `vm_call.go`, `vm_assign.go`, `vm_struct.go`, `vm_slice.go`, `vm_var.go`, `vm_infer.go`, `vm_literal.go` | a `vmProgram` under construction: slots, argument trees, which names are addressed, the frame layout | `Compile`, `compileProgram`, `assignFrame` |
| Reflect evaluator | `vm.go` | per run: slots and the argument frame; per program: inline caches | `run`, `invoke`, `get`, `apply` |
| Planner and closure compiler | `stepjit_plan.go`, `stepjit_stmt.go`, `stepjit_struct.go`, `stepjit_arg.go`, `stepjit_call.go`, `stepjit_var.go` | the plan: statements left, splices, read counts | `planInline`, the node builders |
| Step JIT execution | `stepjit.go`, `stepjit_pool.go`, `stepjit_pack.go` | per program: a pool of frames, one pool of blocks per site; per run: a frame with slots and scratch fields | `run`, `getFrame`, `finish`, `putFrame`, `take`, `releaseInto` |
| Single-call statements | `statement.go`, `jit.go` | a pool of argument buffers | `call`, `borrow`, `release` |
| Value bindings | `bindvar.go`, `vm_var.go`, `stepjit_var.go` | one cell per binding and run | reads, writes, `&` |
| Shape table, layout | `stepjit_shapes.go`, `stepjit_scalar.go`, `stepjit_layout.go`, `stepjit_iface.go` | none | casts between funcs of equal ABI |
| Results | `compiled_func.go`, `panic_error.go` | none | `Scan`, the panic boundary |
| Helpers for hosts | `append.go`, `mutexmap.go` | a locked map | `Append`, `Delete`, `MutexMap` |

How they interact: goroutines share a Runtime. `Compile` looks in the cache,
parses, lets the compiler read bindings and types under the read lock, and
stores the program under the write lock. The compiled program is one of two
things: closures from the step JIT, if the planner and the node builders accept
the program, or the evaluator over the `vmProgram`. A `guard` around either
turns a panic of a binding into an error. A program of one flat call on a func
whose shape the table lacks runs as a `Statement`, over pooled argument buffers.
Programs are immutable and run by many goroutines at once; what they share is the
pools of the JIT and of statements, the inline caches, and the values the host
bound, of which a program that writes one makes a copy per run.

What is hard, and what would make each part correct:

- **Runtime.** Every map is a Go map, so an unlocked access is a crash. The lock
  is given up between lookup, compilation and store, panics of the compiler pass
  through it, and `BindScope` is many Binds. Correct means: no map race, no lock
  left behind, a program is compiled from one state of the bindings, every call
  returns.
- **Type registry.** A depth-bounded walk of a cyclic graph over a map that
  earlier walks left. Correct means: nothing in reach is forgotten, nothing out
  of reach is recorded, a name means the type `BindType` gave it, or the last one
  a Bind brought.
- **Step JIT execution.** Frames and blocks go round between executions, through
  pools that may be empty, may forget, and are entered on success, failure and
  not at all on panic. Correct means: an execution cannot tell that its memory
  was used before or is used elsewhere.
- **Planner and the two tiers.** A host gets one of two implementations of a
  program, one of which moves calls. Correct means: it cannot tell which.
- **Single-call statements.** A buffer goes round between calls, filled slot by
  slot from a stack that may not fit, and the func may call the program again.
  Correct means: the pooled path is the direct call again, down to which parameter
  an error names.
- **Value bindings.** A name is stored in one of two places, decided by a walk over
  the program, and the copy of a slice is only a header. Correct means: all
  occurrences of a name mean one storage, the host keeps its value, runs do not meet.
- **Inline caches.** Runs share one remembered answer per occurrence. Correct means:
  no run goes by the answer about another type.
- **Evaluator frame.** One array holds the arguments of all calls of a program,
  and is filled while nested calls fill it too. Correct means: a callee gets the
  arguments its call wrote.

## 2. Modules

| Module | What it is | Extends or instantiates |
|---|---|---|
| `RunProgram` | the memory operations of one JIT program (constants only) | |
| `IsolatedRuns` | abstract: every execution has a memory of its own | `RunProgram` |
| `ArgPools` | frames, scratch fields and pools of `jitProgram.run` | `RunProgram`; `IsolatedRuns` by refinement |
| `ArgPoolsProofs` | theorems about it | `ArgPools` |
| `AtomicRuntime` | abstract: Bind and compilation are single steps | |
| `RuntimeCache` | the methods of `Runtime` under the lock | `AtomicRuntime` by refinement |
| `RuntimeCacheProofs` | theorems about it, the refinement among them | `RuntimeCache` |
| `TypeRegistry` | the walk of `discover` | |
| `TypeRegistryProofs` | theorems about it | `TypeRegistry` |
| `FrameWindows` | `assignFrame` and `invoke` over the argument frame | |
| `FrameWindowsProofs` | theorems about it | `FrameWindows` |
| `InlinePlan` | `planInline`: one program and its plan | |
| `InlinePlanProofs` | theorems about it | `InlinePlan` |
| `ProgramTiers` | the evaluator and the closures of one program | `InlinePlan`, extended |
| `ProgramTiersProofs` | the theorem that they agree | `ProgramTiers`, `InlinePlanProofs` |
| `DirectCalls` | abstract: a JIT'd call of `jit.go`, nothing shared | |
| `StatementBuffers` | the reflect path of `Statement` over pooled buffers | `DirectCalls`, extended and by refinement |
| `StatementBuffersProofs` | theorems about it, the refinement among them | `StatementBuffers` |
| `BoundNames` | what programs over value bindings do, whatever stores the names | |
| `PrivateNames` | abstract: each run has each name to itself | `BoundNames` |
| `BindingCells` | cells, slice headers over arrays, inline caches | `BoundNames`; `PrivateNames` by refinement |
| `BindingCellsProofs` | its invariant, the answers of the caches, the host's values, and the refinement | `BindingCells` |
| `MC*` | instances for TLC | the module they are named after |

Definitions whose comment begins with "Slip:" are not part of the model. Each is
a mutated form of the definition that follows it, and shows that some property
notices the mistake.

### ArgPools

`phase[e]` says where execution `e` is in `jitProgram.run` (stepjit.go:138-160):
idle, holding a pooled frame not yet cleared, running, inside a binding, in
`finish`, done. `slots` and `scratch` are the words of the frames, `content`
what a block holds, `framePool` and `blockPool` the `sync.Pool`s, `kept` the
executions whose frame a binding holds a pointer into.

| Action | Code |
|---|---|
| `GetPooledFrame`, `ClearFrame`, `GetNewFrame` | `getFrame`, stepjit.go:172-186 |
| `Load` | hoisted stack names and seeds, stepjit.go:318-355 |
| `TakePooled`, `TakeNew` | `take`, stepjit_pool.go:45-53, and the store in the scratch field |
| `Fill` | `structFills`, `packNode` |
| `Call`, `Return`, `Fail`, `Panic` | a direct or bridged call and its ways to end |
| `Finish` | the result boxed, then `finish`, stepjit.go:149-170 |
| `ReleaseSkip`, `ReleaseClear`, `ReleasePut` | `releaseInto`, stepjit_pool.go:57-67, one site at a time |
| `PutFrame` | stepjit.go:188-192, and the gate at stepjit.go:369-373 |
| `KeptWrite` | external: a binding writes through a pointer it kept |
| `PoolLosesFrame`, `PoolLosesBlock` | external: `sync.Pool` drops items |

A value is the execution that produced it, or zero. That is enough, because the
question is whose memory a value came from. A newly allocated frame or block is
one that nothing in the model can reach, which is what the collector guarantees.
The binding contract (runtime.go:15-23) is assumed: a binding does not keep a
borrowed block. It may keep a pointer into the frame.

### RuntimeCache

`readers`, `rwait` and `writer` are the `RWMutex`, with Go's rule that a waiting
writer keeps new readers out and its `Unlock` admits all who waited. `pc` is
where a goroutine is. A critical section that writes two maps (`SetBinding`, then
`Discover`) is two steps, so a reader that got in would see the difference.

| Action | Code |
|---|---|
| `CallCompile`, `LookupHit`, `LookupMiss` | runtime.go:172-183 |
| `CallSupports` | runtime.go:141-147: parses without looking |
| `ParseFails`, `ParseDone` | parse without a lock, then `RLock` |
| `ReadBinding`, `CompileFails`, `CompilePanics`, `CompileDone` | the compiler under the read lock, runtime.go:196-206 |
| `Store` | runtime.go:187-192 |
| `CallBind`, `BindNext`, `SetBinding`, `Discover`, `ScopeEnds` | `Bind`, `bindValue`, `BindScope` |
| `CallBindType`, `SetType`, `CallTypes`, `TypesDone` | types.go:98-129 |
| `ClaimLock`, `EnterLock` | external: `RWMutex.Lock` |

A binding is the number of the Bind that made it, and a compiled program is its
source and the bindings it read, so a program over a mixture of two states is
visible as such. `SetLogger` is left out: the handler is host code, and nothing
in the repository says what it may do. (It runs under the write lock without a
defer, so a handler that panics leaves the lock taken; `PROJECT.json` lists it
as a hazard no property covers.)

### TypeRegistry

`reflect` is a constant graph of types, with `NameOf` for `Type.String` and
`Parts` for what `discover` recurses into. The recursion is the stack `walk` of
calls to come, so `Return` (too deep, or a known name; types.go:52-58) and
`Record` (types.go:59-96) are steps and the properties speak of a walk half way.
`Bind` and `BindType` start one when none is under way: both hold the write lock
throughout, which is `RuntimeCache`'s business. `roots`, `found` and `manual`
are history.

### FrameWindows

A program is its calls: `args[c][k]` is the sequence of calls inside argument `k`
of `c` in the order they run, `callee[c]` those in the expression that computes
the func. `AssignFrame` and `AssignArgEnds` are the recursion of
vm_compile.go:354-404, with the lists still to visit as a stack. `Start` slices
the frame (vm.go:389) or panics (`StartOutside`), `StoreArg` stores one argument
(vm.go:395), `Invoke` hands the window to the callee (vm.go:411-421), `Fail` is
an argument or callee that cannot be evaluated. The value of argument `k` of `c`
is `<<c, k>>`, so an argument in the wrong place shows.

### InlinePlan

A statement is the sequence of its operations in the order the evaluator performs
them, the operands of an operation before it. An operation has an identity, which
stands for the `*vmArg` or `*vmCall`, and a place its value goes to, which the
operation that takes it as an operand names. What the compiler builds as a tree is so
a list with links, and nothing about it is recursive.

| Definition | Code |
|---|---|
| `Keep`, `KeepName`, `DropReturn`, `Refuse` | the first loop, stepjit_plan.go:98-154 |
| `Readers` | `countReads` and what is added to it, stepjit_plan.go:156-171, 235-264 |
| `Target`, `FindSplice`, `BehindCall` | the conditions of a splice and `findSplice`, stepjit_plan.go:174-190, 266-299 |
| `Splice` | stepjit_plan.go:191-198 |
| `Skip`, `Planned` | the rest of the second loop |
| `Live`, `Writes` | stepjit_plan.go:200-231 |

`planInline` records a splice in a map from the argument to the call; the node
builders and `findSplice` look through it. `Splice` does at once what they see: the
operations of the producer stand where the read stood, and the value of its call goes
where the read's did (`SentTo`). `Readers` are the places of the reads where the
code has their number; it is one when they are one place. Programs are the value of a
constant: `PlanAssumption` has what the compiler guarantees of them.

### ProgramTiers

The program and its plan, run on the evaluator and then on the JIT. `EvaluatorSteps`
and `JitSteps` add to the operations of a statement what the statement itself does.
The order of the two is the point: what is read when, what is checked before
what. `mem[s]` is the sequence of a name's cells: the evaluator makes a new one
on each assignment of an addressed name (vm.go:364-375), the JIT keeps one field.
`fate` fixes for both tiers how each call ends, so the comparison is between runs
of the same callees. Types are left out, apart from the struct/pointer distinction
that decides what has a field and what has a layout; a program that the JIT
refuses is not compared.

### StatementBuffers

`phase[c]` is where call `c` is in `Statement.call` (statement.go:74-96), `holds[c]`
its buffer, `args` what buffers hold, `todo[c]` the slots the loop over `s.vars`
has still to reach; it visits them in parameter order, as compileStatement
appended them. A value is `<<c, p>>` when call `c` took it off its stack for
parameter `p`; a stack holds for each slot a value that fits, one that does not,
or none.

| Action | Code |
|---|---|
| `BorrowPooled`, `BorrowNew` | `borrow`, statement.go:45-52 |
| `Fill`, `FillRefused` | the loop and `__get`, statement.go:77-83, 98-111 |
| `Call` | `s.fn.Call(args)` |
| `Returned` | the func comes back, with an error or not; `release` is next |
| `Unwind` | reflect or the func panics: past `release`, to the guard |
| `Clear`, `Put` | `release`, statement.go:57-63 |
| `PoolLoses` | external: `sync.Pool` drops items |

`DirectCalls` is the same statement JIT'd (jit.go:105-165, 228-286): getters in
parameter order, the call, the result. It is the program's own second
implementation, and it has nothing that could be shared.

### BoundNames, PrivateNames, BindingCells

A program is its evaluations in the order they happen: a call that receives a
name, `append(&name, v)`, `name = []T{v}`, reads and writes through a pointer the
host bound, and a name of the caller's stack with its type check. An occurrence
has the constructs it stands in (`within`), because the passes that decide where
names live are walks over these.

`heads` are the slice headers, of the bound values and of the cells; `arrays` what
they show, of which the host's may be longer than the bound slice (`Room`).
`Place` is where the storage of an occurrence is: the cell of this run or the bound
value.

| Definition | Code |
|---|---|
| `Assigned`, `Addressed`, `VarCells` | `markVarCells`, `markAddressed`, vm_var.go:146-202 |
| `Reached`, `Place` | `argRoots` and `materializeVarCells`, vm_var.go:52-144 |
| `Start` | the prologue, vm.go:292-300 and stepjit.go:332-355 |
| `ReadName` | a load from the cell or the fixed address, stepjit_var.go:55-144 |
| `AppendInPlace`, `AppendGrows` | `Append` on `&name`, append.go:15-82 |
| `SetName` | `vmVarSet.apply`, vm_var.go:233-271 |
| `StackNil`, `CacheHit`, `CacheMiss`, `CacheStore` | `dynamic` and `assignable`, vm.go:119-134, 510-539; stepjit_call.go:278-300 |
| `Elsewhere` | `*p`, `*p = v`, errors, the end |

`CacheMiss` and `CacheStore` are two steps because `assignable` loads the pair,
computes, and stores a new pair; other runs store theirs in between. The read or
write behind a bound pointer is one step: what two runs that write one host
variable see of each other is the host's business.

## 3. Runs

| Run | Module, cfg | Shows |
|---|---|---|
| `pooled` | `MCArgPools`, `ArgPoolsPooled` | two executions over two frames, four blocks, two sites: nothing shared, leaked or stale; refines `IsolatedRuns` |
| `escape` | `ArgPoolsEscape` | a program that lets a frame pointer out: not pooling its frames is enough; every execution ends |
| `shared_runtime` | `MCRuntimeCache`, `RuntimeCacheShared` | two goroutines, all methods, unparsable and panicking sources: no race, no leaked lock, no deadlock, every call returns; refines `AtomicRuntime` |
| `registry` | `MCTypeRegistry`, `TypeRegistryWalks` | ten types, a cycle, a name clash, five levels, every order of Binds and BindTypes |
| `windows` | `MCFrameWindows`, `FrameWindowsNested` | all placements of three calls in two statements, their arguments, literals and callees |
| `tiers` | `MCProgramTiers`, `ProgramTiersAgreeing` | four families of programs, every choice of failing calls: the plan keeps the calls, their order and what each operation works on, and the tiers agree |
| `statements` | `MCStatementBuffers`, `StatementBuffersShared` | three calls of a statement, two pooled buffers, stacks of every kind, funcs that return, fail and panic: refines `DirectCalls` |
| `bindings` | `MCBindingCells`, `BindingCellsRuns` | two runs of each of 1000 programs over bound slices, a bound pointer and stack values: refines `PrivateNames` |
| `rebind` | `MCRuntimeCache`, `RuntimeCacheRebind` | a program cached before a Bind is replaced by one over the new binding |
| `registry_later` | `MCTypeRegistry`, `TypeRegistryLater` | the earlier of two Binds keeps the name both types print |
| `windows_computed` | `MCFrameWindows`, `FrameWindowsComputed` | a call in a callee overwrites an argument |
| `shared_append` | `MCBindingCells`, `BindingCellsRoom` | two runs append to one bound slice |

The runs from `rebind` on each violate one statement of the documentation: section 6.
It also names nine configurations beside the runs, each of which has TLC refute one
property on a small instance: `TypeRegistrySignatures`, `TypeRegistryOwnName`,
`ProgramTiersBehind`, and, for the shapes that `tiers` leaves out, `ProgramTiersHidden`,
`-Ahead`, `-Early`, `-Self`, `-NilBase` and `-Again`.

### Properties

- `FramesUnshared`, `BlocksUnshared`: no frame or block is in two hands, or in a
  pool and a hand. Breaking them takes an execution that releases in the wrong
  order or on the wrong path and a second one that takes what it released.
- `PooledBlocksCleared`: `take` promises zeroed memory and does not clear.
- `FinishReturnsEverything` (action): a run that ends without a panic has given
  back each block, whichever statement failed.
- `RunsAreIsolated` (refinement): each callee, result and kept pointer sees the
  memory of its own execution only.
- `MapsUnraced`, `IdleHoldsNoLock`: mutual exclusion at the map accesses, and
  every path out of a method unlocks.
- `CompileIsAtomic` (refinement): a compilation is one snapshot, a Bind one step,
  the cache holds only what some Compile built.
- `DiscoveryIsClosed`, `DiscoveryIsRooted`: the walk forgets no sibling and goes
  no further than its depth.
- `BindTypeIsFinal`: the name `BindType` gave keeps its type whatever is bound later,
  types that print the same name included. `LaterBindWins` (action) and
  `SignaturesAreNameable` are what the documentation says of Bind and the walk
  does not do.
- `WindowsAreDisjoint`, `ArgumentsArrive`, `NoCallIsOutside`: the frame.
- `BuffersUnshared`, `PooledBuffersClean`: a buffer is in one call or in the pool,
  and what goes into the pool has its slots emptied, also those that the loop never
  reached, and its literals in place.
- `BuffersComeBack` (action): no error path forgets the buffer.
- `ActsLikeDirectCalls` (refinement): what each func receives and which parameter
  a refusal names, however many calls share the pool.
- `HostKeepsItsValues`: no run, however it ends, changes a bound value or the array
  behind it, although every cell starts out over that array.
- `AnswersFitTheType`: whatever others store in an inline cache meanwhile.
- `NamesArePrivate` (refinement): reads, appends and assignments of a run act on
  storage of its own that starts from the bound value; `RunsSeeNoOther` says the
  same of what calls receive, and is what fails with spare capacity.
- `PlanKeepsCalls`: no splice drops a call, runs one twice, or moves one past another,
  however many splices pile up in a statement.
- `PlanKeepsReads`: every operation of a plan, and the return, has the operands it has
  in the source. What it reads is identified by the operation that made it: a name
  stands for the last write before it, and a moved call for its read.
- `TiersAgree`: whatever the callees do, a host cannot tell the tiers apart.
- `EveryRunEnds`, `EveryCallReturns` (liveness).

### Bounds

- `ArgPools`: two executions suffice for any pair to share; each execution
  happens once, but frames and blocks circulate through both, and `sync.Pool` may
  lose or refuse any of them. Four blocks are as many as the two can hold at once.
  The pooled run uses symmetry over executions, frames and blocks; all its
  properties treat them alike, and it has no liveness property. The proofs lift
  all of this to any program and any number.
- `RuntimeCache`: two goroutines, two names, one discovered type, three sources;
  `MaxBinds = 3` bounds the names ever handed to Bind, so that versions are
  finite: enough for a Bind, a rebind and a scope that stops at a nil. It is the
  only bound; Compiles and the other calls repeat without limit. A third
  goroutine adds readers behind a waiting writer, which the two already show, and
  the proofs cover any number.
- `TypeRegistry`: the graph of `MCTypeRegistry` has the walk end by depth, by a
  known name, by a cycle and by a leaf.
- `FrameWindows`: 294 placements, from calls that stand alone to three levels of
  nesting and two in one literal; one call has four arguments, so that its window
  may exceed the frame.
- `InlinePlan`: two names and up to four statements, and in `Chains` three names. A
  splice involves a producer, its reader and what the reader evaluates before; chains
  of splices take three statements. The proofs are for any program.
- `ProgramTiers`: the same programs. The theorem covers those that take no address,
  at any length; those of the family `Addressed` do. Programs in which the tiers
  are known to differ are left out by predicates named after the shape (`RunsAhead`,
  `HiddenRead`, `EarlyReturn`, `SelfRead`, `NilBase`, `Reassigned`, `ReadsFirst`), and
  `tiers` says nothing of them. Each has a family of one program, with which
  TLC shows that the tiers differ (section 6).
- `StatementBuffers`: three calls, so that two can hold the two buffers while a
  third runs into an empty pool or takes what one gave back; a literal between two
  slots; symmetry over calls and buffers.
- `BindingCells`: every sequence of three operations out of ten. Three is what it
  takes to append, replace what was appended to, and look; a run may fail anywhere,
  so shorter programs are among them. Two runs share the caches and the bound
  arrays; two types, one of which fits. `MaxOps` bounds programs and `Slack` the
  spare elements append allocates, which decides whether the next append moves.
  `Room` is zero in the passing run: with spare capacity the property fails, and
  `BindingCellsRoom` shows it. The occurrences out of the walks' reach are those of
  a name that no program of the run writes.

### Deadlock

`RuntimeCache` and `TypeRegistry` are checked for deadlock: a Runtime can always
be called. The other systems stop: executions and calls finish once, programs end.

### Fairness

- `ArgPools!FairSpec`: weak fairness of each execution's `Step`. A goroutine that
  is running goes on, `unsafe_New` returns, and a binding returns: a binding that
  blocks for ever blocks its program, by design. Nothing is assumed of pools or of
  kept pointers.
- `RuntimeCache!FairSpec`: weak fairness of each goroutine inside a call, and
  strong fairness of `ClaimLock`. Two writers may alternate for ever around a
  third in a model of a plain mutex; `sync.Mutex`, which an `RWMutex` takes first,
  goes into starvation mode after a millisecond and then hands over in order. No
  fairness is assumed of calls being made.

## 4. Proofs

Every theorem holds for all values of the constants under the assumptions that
the modules name and that TLC evaluates on each run: `RunProgramAssumption`,
`ArgPoolsAssumption` (identities distinct from nil, a program of the shape the
node builders give it), `RuntimeAssumption`, `RegistryAssumption`,
`ProgramsAssumption` (typing of the constant maps), `PlanAssumption` (programs as the
compiler makes them), `StatementAssumption`,
`BuffersAssumption` (values distinct from what reflect refuses),
`BoundNamesAssumption`, `BindingCellsAssumption`. More conditions are stated in
the theorems that need them, because the code does not meet them in general:
`NoSpareRoom` (nothing behind the bound slices), `CalleesReadBound` (no func is
computed from a name the program writes), of planned programs that they have not the
shapes `EarlyReturn`, `RunsAhead` and `HiddenRead`, and where the tiers are compared
nor `SelfRead` and `NilBase`. Section 6 shows what happens otherwise.

**ArgPoolsProofs**: `TypeCorrect`, `FramesAreExclusive`, `BlocksAreExclusive`,
`PooledBlocksAreClear`, `NothingIsLeftBehind`, `PoolsIsolateRuns`. The properties are not inductive:
that a frame put into the pool is not held by anyone needs the phases to be in
order, that a block put there is in no other scratch field needs a pooled frame to
hold no block, and that no block is in two pools. `IInv` adds these, with
`ScratchFollowsProgram` (a running execution's scratch fields are exactly those of
the takes behind its `ip`, so `take` never overwrites a borrowed block and `fill`
always has one), `ReleaseInOrder` and `PoolingGate` (no frame is ever pooled, or
re-used, in a program that lets pointers out). One lemma per action.
`PoolsIsolateRuns` is the refinement of `IsolatedRuns` on top of `IInv`: the views
(`PhaseOf`, `MemOf`, `LitOf`) of the other executions are untouched by a step because
the frame and the blocks it writes are not theirs (`HolderLeavesOthers`), and the
views of its own change as the abstract action of the same name says. Getting a
pooled frame, releasing, repooling and what the pools lose are stutters.

**RuntimeCacheProofs**: `MapsNeverRace`, `NoLockIsLeaked` from `LInv`, the lock
discipline (who is at which `pc` is exactly who is in `readers` or is `writer`);
`TypeCorrect` and `CompilationIsAtomic` from `IInv`, which adds that what a
compiler has read is still bound as long as it is in its section
(`ReadsArePresent`). `CompilationIsAtomic` is a refinement: every step of
`RuntimeCache` is a step of `AtomicRuntime` or a stutter, under the mapping that
takes a Bind to be done at `SetBinding`, with the types of that Bind, and a
compilation at `CompileDone`.

**TypeRegistryProofs**: the four invariants of the run. They are inductive
together with `CallsAreRooted`: each call still to come is for a type the host
gave or for a part of a type recorded one level up, and with `FirstRecordedStays`: a
name `BindType` did not give stays what `discover` first made it, so that a type is
recorded once. The latter is how the code works and not what it documents
(`registry_later`), and no result of its own. The depth of a call is at most one below
the bound, a type recorded is recorded under its own name, and pushing the parts of
a type in front of the stack covers its parts.

**FrameWindowsProofs**: the four invariants of the run, for every program. The
layout part of the invariant, `LInv`, says that windows handed out end at or below
`size`, which makes each new one disjoint, and that the calls in every argument of a laid
call are laid or on the stack (`LayoutInv`). The run part, `AInv`, holds where no
callee is computed: a call that has started was laid (`Started`), and the words of
its window up to its position hold its own arguments (`Filled`), which a store of
another call cannot touch because of `WindowsAreDisjoint`.

**InlinePlanProofs**: `CallsKept` and `ReadsStay`, for programs of any length and
nesting. `BInv` holds without either property: a planned statement is the source's
statement of the same line around operations of the source (`Shape`), what the loop
has not reached is as in the source (`Fresh`), no operation is there twice (`Unique`),
none but a read is gone (`NothingLost`), and the returned name has its value
(`Returned`). `Fresh` gives that the reader is the source's next line, so the read
that goes is the one `countReads` counted (`OnlyReader`) and means the producer
(`ReaderReads`). A splice is followed by the map `OldPos` from the positions of the new
text to those of the old one: it misses the read alone, and keeps every order except
that of the operations in front of the read. `OrderInv(K)` says that the operations of
the kinds `K` stand in the order of the source; it is inductive where none of them is
in front of a read that goes (`RunsAhead`). `ReadsInv` says that a read of a name with
storage sees the last write it sees in the source; a splice takes a write away, and
`HiddenRead` and the single reader leave nobody to miss it (`NoOtherRead`).
`OrderKept` and `ReadsKept` derive the properties.

**ProgramTiersProofs**: `TiersMeet`, for programs that take no address and have none
of the five shapes. The invariant is `AgreeInv`, in two parts.
- `PlanInv` is the invariant of `InlinePlanProofs` with `LayoutInv` and `EndingInv`: a
  splice leaves operands in front of what takes them and takes nothing but calls that
  stand on lines of their own; only a last return has no line in the plan.
- `RunsInv` is about each tier alone, and does not say which. A `World` is what a tier
  runs, the text and the script of steps it makes of it; its points are the places of
  the script. `General` says of a run that it has passed some of the points in order;
  that each operation behind it has the value `Worth` gives it from its operands, or
  from the last write of the name it reads; that names hold what was last bound, none
  of the passed points failed but the last, and the trace lists the calls and field
  stores among them. One lemma per action shows the step a tier makes (`ReadEffect`,
  `CallEffect` and so on), one per part of `General` that such a step keeps it.

With every value determined by the text, the two runs need not be followed together.
`SameWorth` and `ValuesMeet`: an operation that both tiers performed has the same value
in both, by `ReadsKept`. `Twin` pairs the points of the two scripts that can be seen or
fail; `TwinOrder`, from `OrderKept`, has them in the same order, and `FaultTwins` has
them fail alike. So both runs pass the same twins before they stop (`InStep`), which
gives the ends (`EndedAlike`), the traces (`SeenAlike`) and the results (`ResultAlike`).

Without addresses no value is a pointer into a name's cells (`PointerFree`). With them a
callee writes a name behind the text's back, and what a read sees then depends on which
of the cells of a name it goes to, where the tiers do differ (`Again` and `Before` in
section 6). Such programs stay with TLC, in the family `Addressed`.

**StatementBuffersProofs**: `TypeCorrect`, `BuffersAreExclusive`,
`PooledBuffersAreClean`, `BuffersAreReturned`, `ReflectPathActsLikeDirect`. The
properties need `BufferContents`: half way through a loop, the slots behind it are
filled with what this call resolved, or are cleared, and the literals are in place.
With it each step is a step of `DirectCalls` or a stutter; a buffer held by a call
alone is what keeps the steps of others from disturbing it.

**BindingCellsProofs**: `TypeCorrect`, `AnswersFit`. `IInv` has the shape of the heap:
a header shows at most its array (`HeadsFilled`), an array a run made is shown by
headers of that run only (`HeadsApart`), a cached pair is right (`CachesRight`), an
idle run has asked and seen nothing (`IdleRuns`).

In the same module `HostIsUntouched` and `CellsArePrivate`: `HInv` adds
`HostsArrays`: the host's arrays hold what they held, and a cell that still shows one
shows all of it, so without spare room an append has to move. `CellsArePrivate` maps
each step of `BindingCells` to one of `PrivateNames` by what the step does to the
slice each name shows: the cell written changes as the abstract name does
(`OwnChanges`), every other header's array is left alone (`OwnSame`).

Only model-checked: liveness (`EveryRunEnds`, `EveryCallReturns`), which is out of
reach of the prover; and `TiersAgree` of programs that take addresses.

## 5. Not modelled

- Parser and lexer: sequential, over characters; `RuntimeCache` needs only
  whether a source parses.
- Shape table, layout, interface words: what they rely on is the Go ABI.
- Type checking, name resolution, literal conversion, inference: pure functions
  from a statement to a `vmArg` or an error.
- `Scan`, `Delete`, `MutexMap`: one conversion, or one critical section. `Append` is
  modelled on bound slices only.
- Of value bindings: a write of a field counts as a write of its name; `name =
  other`, after which two names show one array; the types of bound values other
  than slices and pointers, whose copy is a copy.
- Of `dynamic`: the assertion of an interface parameter into the per-run `ifaces`
  array, which no other run sees.

## 6. Disagreements

With a run that TLC finds violated:

- **`rebind`** (runtime.go:189). `Compile` stores without looking again. Two
  goroutines miss, one stores, a third rebinds, the second stores: the source was
  cached before the Bind and now runs the new binding, against docs.go:35-38.
- **`windows_computed`** (vm_compile.go:358). `mk(x).F(y)`, a call of a func-typed
  field: `assignFrame` does not visit `fnArg`, so `mk` works in the window at
  offset 0 and F receives `x`, against vm_compile.go:354-357. The other walks
  over a call's arguments (`countReads` at stepjit_plan.go:241, `argRoots` in
  vm_var.go) leave out `fnArg` too.
- **`shared_append`** (vm_var.go:93). The seed of a cell is the bound header. When the
  bound slice has spare capacity, `append(&name, v)` stores behind it in the host's
  array, where every other run of the program stores too: two runs that append and
  read see each other's element, against docs/syntax.md:446-447 and
  vm_var.go:86-87. (bindvar.go:22-24 says that the elements behind a slice stay
  shared; the appended element is behind no slice of the host.)
- **`registry_later`** (types.go:56). The first of two types that print the same name
  keeps it, against types.go:16-17 and docs/types.md:57-58 ("the later `Bind` wins").

With a configuration of their own that TLC finds violated. Of the type registry, both
of `SignaturesAreNameable` (`tlc -config TypeRegistrySignatures.cfg MCTypeRegistry`):

- `TypeRegistrySignatures` (types.go:56). A signature first met at the last level of
  another walk is recorded without its parts, and binding it later stops at its
  name, against docs.go:61.
- `TypeRegistryOwnName` (types.go:109). `BindType` under a type's own name records it
  before the walk starts, which then stops at once, against docs/types.md:135-136
  ("The walk then covers the registered type like anything else").

Of the planner and the two tiers, each with a program of its own in `MCProgramTiers`.
The first is of `PlanKeepsCalls`, the others of `TiersAgree`; these are against
docs/DESIGN.md:170-174 (the evaluator is "the general implementation of the same
semantics", to which a suite compares the JIT):

- `ProgramTiersBehind` (stepjit_plan.go:273). `x := a(); c(n(), m(x))`: `findSplice` looks at
  the earlier arguments of the innermost call only, so `n` runs before `a` on the JIT,
  against stepjit_plan.go:93-95. It violates `TiersAgree` too.
- `ProgramTiersHidden` (stepjit_plan.go:254). `var x T; x = a(); c(x, []T{x})`:
  `countArgReads` has no case for a slice literal, so the producer is spliced away and
  the element is zero, also against stepjit_plan.go:247-249.
- `ProgramTiersAhead` (stepjit_plan.go:274). `var y *T; x := a(); c(y.F, x)`: the JIT reads
  the field of the nil pointer before it runs `a`, the evaluator after.
- `ProgramTiersEarly` (stepjit_plan.go:122). `x := a(); return x; c(x)` calls `c` on the
  JIT, also against docs/design/conditions.md:51-53.
- `ProgramTiersSelf` (stepjit_struct.go:251). `x := T{1}; x = T{x.F}` reads the cleared slot
  on the JIT.
- `ProgramTiersNilBase` (stepjit_stmt.go:200, vm.go:259-262). `var x *T; x.F = a()` calls
  `a` on the JIT only.
- `ProgramTiersAgain` (vm.go:368). `x := a(); y := b(&x); x = e(); c(*y)`, where `b` returns
  its argument, reads the old value on the evaluator.

Without a configuration, the family `Before` (stepjit_plan.go:273): in `x := a();
y := b(&x); c(x, y)`, where `b` writes through its argument, the JIT reads `x` before `b`
runs. TLC refutes `TiersAgree` with `Before` in the place of `Hidden` in
`ProgramTiersHidden.cfg`.

Of value bindings and pools, read in the code and outside what the models reach:

- The callee of a call is not among `argRoots` (vm_var.go:64-66). With a bound
  struct `pv`, `pv = mk(); pv.F(1)` for a func-typed field `F` calls the func as
  bound, and `pv.G().F(1)` for a pointer method `G` addresses a binding that never
  gets a cell.
  `BindingCells` has such occurrences (`"callee"`), read as the code reads them, and
  `NamesArePrivate` fails with `ReadX` or `AppendX` inside one; the condition
  `CalleesReadBound` excludes them. Against vm_var.go:84-92.
- `Append` stores what it is handed. `append(&xs, &T{X: 1})` hands it a pointer to a
  pooled block (stepjit_pool.go:98-107, stepjit_struct.go:151-163), which
  `copyBoxed` (append.go:95-106) does not copy, and the element is zero after the
  run, against append.go:70-73. The contract that `ArgPools` assumes of bindings
  (runtime.go:19-23) is the one `Append` breaks.

## 7. Plan

Done: the modules above, in the order `ArgPools`, `RuntimeCache`,
`ProgramTiers`, `TypeRegistry`, `FrameWindows`, `StatementBuffers`, `BindingCells`,
`InlinePlan`, each with its theorems:
what concurrent runs share first, then what a host relies on without being able to
see it, then the paths beside the main one.

Next:

1. `TiersAgree` for programs that take the address of a name written once and read
   behind it, where a name has one cell on both tiers.
2. `BindingCells` with `name = other`, and with the blocks of `ArgPools` as elements.
3. The interplay of `TypeRegistry` and `RuntimeCache`: a program compiled twice
   around a Bind declares the same type.
