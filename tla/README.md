# Lume: models and proofs

TLA+ models of the Lume toolchain (`rust/crates/lume`), of the part of its Java
runtime that it shares a behaviour with (`lume/core`) and of its database
adapter (`lume/db`), checked with TLC on small instances and, where the prover
reaches, proved with TLAPS for every value of the constants. Lines are quoted
as `path:line`; file names without a path are under `rust/crates/lume/src`, and
`syntax.md`, `README.md` and `features.md` are those of the repository.

## 1. The system

A Lume program is read, checked and then takes one of two ways: it is lowered
to basic blocks which the interpreter runs, or the Java back end prints Java
source from the checked syntax tree (ARCHITECTURE.md, sections 7 to 10). The
Java libraries `lume/core`, `lume/json`, `lume/db` and `lume/http` serve only
the second way.

    text -> lexer -> parser -> resolver -> mixins -> type checker -> desugaring
                                  |                 |                  |
                                  | files merged    v                  v
                                  |            Java back end        lowering -> interpreter
                                  +--------------------------------->  |
                                                    v
                     generated Java + lume/core, lume/db, lume/json, lume/http

### Components

| component | state it keeps | operations | what is hard | modules |
|---|---|---|---|---|
| lexer, parser (`lexer.rs`, `parser/`) | position, tokens, diagnostics | `lex`, `parse_program` | recovery after an error; pure otherwise | `Patterns` (cases of a match) |
| resolver (`resolver.rs`) | module graph, files being loaded, scopes | load the files used, install imports, resolve names | cycles, conflicts, which of several things a name means | `Modules` |
| mixins, desugaring (`mixins.rs`, `desugar.rs`, `core.rs`) | none between passes | rewrite the tree | order of members; or-patterns split into cases | none |
| type checker (`typecheck.rs`) | scopes, inferred types, narrowings | check items, bodies, patterns | promises on which the lowering leaves tests out | `Patterns`, `Overloads`, `Construction`, `Narrowing`, `Shapes` |
| lowering (`lower.rs`) | the block being filled, the blocks, targets of break and continue, scopes | one method per statement and expression | code after a jump, joins, evaluation order, values of branches, layout of arguments | `Lowering`, `Patterns`, `Overloads`, `Construction`, `Narrowing`, `Modules` |
| interpreter (`interpreter.rs`) | frames (native recursion), globals, singletons, heap shared through `Rc` | merge files, run, run_specs, call, defer, construct, coerce, builtins | cleanup on every way out, failures of cleanup, re-entrant construction, shared collections, choices made again at run time | `Interpreter`, `CallReport`, `BlockMachine`, `Overloads`, `Construction`, `Shapes`, `Modules` |
| collections (`runtime/builtins`) | lists, sets and maps, iterators | search, traverse, sort, mutate | callbacks and `equals` methods that change what is being traversed | `Collections` |
| numbers (`numeric.rs`, `decimal.rs`, `IntRange.java`) | none | power, decimal arithmetic, ranges | overflow, rounding, the limits of Int | `Ints`, `Numbers`, `Ranges` |
| files (`interpreter.rs`, `LumeTextFileReader.java`, `LumeFileStream.java`) | positions, open or closed | read, read a line, seek, close | failures in the middle of a line, two implementations | `Files` |
| Java back end (`java_backend/`) | output buffer | emit, bundle | keeping the interpreter's meaning | `JavaEmission`, `JavaOrder` |
| database adapter (`lume/db`) | pool, transactions, decoder cache | exec, query, begin, commit, rollback, transactionally | failure of every driver call, threads that share a pool, connections that leak | `Transactions`, `UnitOfWork` |
| command line (`main.rs`, `lib.rs`) | files | parse, fmt, check, run, test, gen | files overwritten in place | none |
| JSON, HTTP (`lume/json`, `lume/http`) | routes | encode, decode; dispatch and render | conversions; concurrency is Javalin's | none |
| formatter, editor extension, gradle plugin | none | lay out text; run the command line | none of their own | none |

### Interactions

* The resolver loads the files of a program into a graph and gives every name a
  meaning there. The interpreter then merges the files into one program, in
  which functions of one name are renamed and everything else is told apart by
  its name; the lowering declares the items of the merged program.
* The lowering hands an `ir::Program` to the interpreter; module `Lowering`
  computes its blocks, module `BlockMachine` runs them, and module
  `Interpreter` takes any program of that form as given.
* The lowering trusts the type checker (no test for a plain `let`, a cast where
  it narrows, arguments laid out for a signature) and the interpreter trusts
  the lowering, though it chooses overloads, and coerces values, once more by
  itself.
* The interpreter calls itself natively: `call_function`, `lookup_singleton`
  and `construct_named_type` are activations on one Rust stack, and a Rust
  `Result` carries the error upward (`?`), with `finish_callable_exit` between
  any body and its caller. Builtins call back into user code in the same way,
  while they hold, or have just released, a collection.
* The test runner (`run_specs`) drives the interpreter over one heap: globals
  and singletons of one spec are seen by the next.
* `transactionally` (Lume, DbImpl.lum) calls `JdbcTransaction` and
  `JdbcDatabase` (Java), which call the JDBC driver and HikariCP. Threads share
  nothing but the pool and the database.

### What makes each part correct

* Modules: at run time a name leads to what the resolver found for it; no
  global is read before it is initialised.
* Type checker, lowering and interpreter together: what the checker accepts
  runs. The first matching case is taken and there is one; an accepted call
  finds an overload and gets its arguments; an accepted construction leaves no
  field unset; a variable has the type it is narrowed to, and a value the type
  it is assigned to.
* Lowering: the calls the blocks make are those of the statements, in their
  order, with the same arguments; the value of a body survives every join.
* Java back end: the printed Java makes the same calls as the source.
* Interpreter: cleanup runs exactly once, in reverse order, on every way out;
  the outcome of a call is its body's, and no failure is lost; globals come
  first; an object is built once, completely, before anybody gets it; every
  spec gets a verdict.
* Collections, ranges, numbers, files: a traversal sees what it was called on,
  a loop hands out every element once; answers are exact or refused; both
  runtimes answer alike.
* Database adapter: all of a unit of work or nothing becomes visible; Ok is
  never answered for a lost unit; a connection is used by one unit at a time
  and comes back.

PROJECT.json lists under "hazards" where each of these can go wrong, with the
properties that would notice, and those no property reaches.

## 2. The modules

| module | what it is |
|---|---|
| `Interpreter` | calls, blocks, deferred closures, errors, globals, instances, singletons, `run` and `run_specs` |
| `CallReport` | what a call must report, stated from its whole history |
| `MCInterpreter` | program families for TLC |
| `InterpreterProofs` | proofs about `Interpreter`: its types, deferred cleanup |
| `ProgramProofs` | globals, objects and specs, and what failures a call reports; extends `InterpreterProofs` and `CallReport` |
| `Transactions` | `JdbcDatabase`, `JdbcTransaction`, `transactionally`, one driver call per step |
| `UnitOfWork` | what a client of `Database` may rely on, without connections |
| `MCTransactions` | symmetry for TLC |
| `TransactionsProofs` | safety; the refinement of `UnitOfWork` |
| `Lowering` | from core statements to blocks: one operator per method of `FunctionLowerer` |
| `SourceOrder` | what statements mean, read off their structure; no counterpart in the code |
| `BlockMachine` | the interpreter's loop over the blocks of one body, next to what its source promises |
| `JavaEmission`, `JavaOrder` | the printing of control flow as Java; what the Java then does |
| `MCLowering` | the bodies TLC lowers, prints and runs |
| `MCExecution` | whole programs and the blocks of single bodies side by side, one per behaviour |
| `Collections`, `MCCollections` | lists, sets, maps, iterators and the user code they call back |
| `Ints`, `Ranges` | checked arithmetic; `for` over a range in both runtimes |
| `Numbers` | powers, division, decimals |
| `Files` | readers of both back ends over one file |
| `LibraryProofs` | proofs about `Collections` |
| `RuntimesProofs` | proofs about `Ranges`, `Files` and `Numbers` |
| `MCLibrary` | the four library parts side by side, one per behaviour |
| `Patterns`, `MCPatterns` | match and let patterns from the parser to the interpreter |
| `PatternsProofs` | its proofs; takes recursion over data of any depth from `NarrowingProofs` |
| `Overloads`, `OverloadsProofs` | an overloaded call in the checker, the lowering and the interpreter; its proofs |
| `Construction`, `MCConstruction` | construction, constructors and delegation; extends `Overloads` |
| `Narrowing`, `NarrowingProofs` | type tests, the branches they guard, and what follows a branch that leaves; its proofs |
| `Modules`, `MCModules` | programs of several files, from `use` to the run |
| `Shapes`, `MCShapes` | values assigned to shapes and unions, in the checker and the interpreter |
| `MCCompiler` | the compiler parts side by side, one per behaviour |

### Interpreter

`stack` is the native stack: frames of `call_function` and of instance
creation, innermost last. A step executes one statement or terminator of the
innermost frame, or is one stage of building an instance
(`interpreter.rs:6587-6616`: allocate, initialise the fields, call `new`,
publish), or hands a finished frame's result to the frame below. A body that
ends, by `return` or by an error, leaves its outcome in the frame; then
`RunCleanup` pops the deferred closures one at a time, as
`finish_callable_exit` does (`interpreter.rs:1687-1727`), and each failure is
folded into the outcome when it arrives. The code collects the failures and
folds them at the end; nothing can observe the difference.

A value is an integer or a reference; a diagnostic is the place it was raised
at, and its notes. Every rvalue that may fail without entering a function is
the statement `fail`. Types are absent, so the coercions of arguments and
results are left out here. A program without a global initialiser function
keeps its globals at their defaults (the initialiser expressions of
`interpreter.rs:1514-1519` are what lowering puts into that function). A native
stack deeper than `MaxDepth` aborts the process, without cleanup, as Rust does.

`calls` and `served` are auxiliary: the history of every call, and the
instances that lookups handed out. No guard reads them.

### Transactions

A client is a thread that performs one unit of work: a single statement, or a
`transactionally` whose work runs statements, may commit or roll back by
itself, goes on after failures if it likes, and ends with Ok, Err or a panic. A
step is one call of the driver: `getConnection`, `setAutoCommit`, a statement,
`commit`, `rollback`, `close`. Each of them may fail, and a failed commit may
have taken effect if `MayDoubt`. `unit[c].then` is the Java and Lume call stack
in one field: who called `commit` or `rollback`, and so what happens when it
returns. The driver and the pool are external (see `Taken`, `Committed`,
`Forgotten`, `GivenBack`): closing gives the connection back and undoes what is
pending, even if `close` then throws, as HikariCP does.

Rows are pairs of a client and a number; that no two clients write the same
row is part of that naming, isolation between transactions being the
database's affair. Driver calls fail with `SQLException`; a statement may also
throw a `RuntimeException`, which passes through like a panic of the work.

### Lowering, SourceOrder, BlockMachine, JavaEmission, JavaOrder

`Lowering` follows `FunctionLowerer`: a record holds the current block (0 when
it has been terminated), the blocks, the number of locals and the stacks of
break and continue targets, and each method is an operator that returns the
record after it. Blocks and temporaries are numbered in the order the code
creates them. `SourceOrder` evaluates the same statements by structural
recursion, with the answers of the questions asked so far as its input; it is
the reference definition, and is not derived from the code.

`BlockMachine` picks a body, has it lowered (`Compiled`) and executes the
blocks, choosing the answer of every question the body asks. It compares the
calls made with what the source would do with the same answers (`Intended`).
Lowering and meaning are constants of this module so that it depends on neither.

`JavaEmission` prints the same bodies as the Java back end does, as a tree of
Java statements and expressions: which match becomes a switch and which a chain
of ifs, what is hoisted into temporaries, how the tail of a body returns, and
what cannot be printed and makes the body a stub (`ok` is false). `JavaOrder`
gives that tree the meaning Java gives it, and `BackEndsAgree` compares its
calls and result with those of the blocks.

One variable `x` stands for all locals that statements assign and patterns
bind; a pattern is a question about its scrutinee. Types, scopes,
destructuring, closures, `yield` over Option and Result
(`lower.rs:2871-3055`, lowered to closures), the switch terminator, and the
panic for a let-else fallback of type Never are left out; so are names, casts,
lambdas, templates and declarations of the printed Java.

### Collections, Ranges, Numbers, Files

A traversal, a search or a sort is an activation that hands control to a
callback, an `equals` method or a comparator; a `for` hands it to its body.
That code may change any collection and start further activations, `MaxDepth`
of them, until its `Budget` is spent. What Rust holds borrowed at that moment is
part of the state: touching it aborts.

`Ranges` runs the interpreter's iterator and the Java one over the same range
in lock step. `Numbers` performs one computation per behaviour; the loop of
`checked_int_pow` takes a step per round. `Files` answers each call of a
program by the interpreter's reader and by the Java reader, over one file with
one position of the operating system each, and lets calls of the system fail.
The interpreter reads as many bytes as it can reserve the memory for, Java no
more than an array holds (`MaxRead`, `LumeFileStream.java:45`); behind a longer
read the two are at different places. `asked`, auxiliary, remembers the most
bytes any read asked for.

### Patterns, Overloads, Construction, Narrowing

Each of them follows one thing through three programs: what the checker
decides from types, what the lowering makes of it, and what the interpreter
does with the values. `Patterns`: the cases as written are flattened by the
parser, bound to the type of the scrutinee (`bind_pattern`) and judged by the
checker, turned into blocks of tests, and tried. Types, patterns, values and
source expressions are constants: any declarations, and data of any depth, each
pattern with a `depth` above that of its parts.
`Overloads`: the three rankings of a call. The type Any suits every argument for
the checker; the lowering makes it the name of a type like any other
(`lower.rs:9830`) and the interpreter has no value of that name
(`interpreter.rs:7144-7290`), so that at run time a parameter of type Any
matches nothing: it does not count for an overload without a variadic parameter,
and excludes one that has. `Construction`: which fields must be
assigned, by whom, and in which order initialisers, constructor bodies and
`this(...)` run. `Narrowing`: the type a variable has for the checker and the
cast it gets from the lowering, at every use of it along an execution.

### Modules

A file is loaded by a depth-first walk along its `use` lines, one line per step
(`LoadUsed`, `UseCycle`, `InstallUse`, `FinishFile`); `MergeFiles` resolves all
names, refuses the program or merges it; then the globals are initialised, in
the order of the merged program, and main runs. A body is a literal or one
reference, so that an evaluation is a chain of references: a reference is a
read or a call, of a name or of a member of an imported file. `met` is the last
one evaluated and what it turned out to be; the properties compare it with what
`Definition` said in the file the reference was written in.

### Shapes

A value moves through variables of different types; each move asks the checker
(`IsAssignable`, with the alternative of a union it means) and then lets the
interpreter make of the value what it makes of it (`CoerceValueToType`). The
checker knows types only, the interpreter the value and its present type only.
`clear` is FALSE once the two could tell alternatives of a union apart by
different marks; the property speaks of what happens before.

### Mutants

Every property of a passing run has a mutant, a definition changed as a bug
would change it, that violates it. They stand in front of the definitions they
replace, with a comment that says so.

## 3. What TLC checks

Every run finishes. A run with several parts picks one of them in its first
state, so that each part is explored by itself.

| run | instance and bounds | properties | distinct states |
|---|---|---|---|
| `execution` | programs: 4 functions with bodies of up to 3 statements, two objects of which one's constructor reads the other, a class, up to 3 specs that fail always, once or never, `MaxDepth` 8; single bodies: 745, 635 of them printable as Java, up to 5 questions | `TypeOK`, `GlobalsFirst`, `PublishedIsInitialised`, `OneSharedObject`, `EverySpecJudged`, `EveryFailureReported`, `CleanupDiscipline`, `Terminates`, `FollowsSource`, `ReturnsWhatSourceReturns`, `BackEndsAgree`, `Settles` | 109 738 |
| `transactions` | 2 clients, 1 connection, 2 rows each, commits in doubt | `TypeOK`, `AllOrNothing`, `FailedStatementUndone`, `OkMeansCommitted`, `ErrMeansUndone`, `ConnectionsSeparate`, `LeakOnlyAfterFault` | 1 903 914 |
| `transactions_live` | 2 clients, 1 connection, 1 row each, no doubt | `ConnectionsComeBack`, `ImplementsUnitOfWork` | 407 270 |
| `library` | collections of up to 3 elements, activations 2 deep, 3 actions of user code; Ints of 8 bits; decimals of up to 3 digits after the point; files of up to 3 bytes (a letter, CR, LF, a byte that is not UTF-8), reads of up to 5 bytes where Java has arrays of 2, 2 faults | `LibraryTypeOK`, `OnlyEqualsDisturbs`, `HandedOutOnce`, `RangeYieldsProgression`, `NumbersAreExact`, `FilesReadAlike`, `RangeAdvances`, `SortPermutes` | 577 921 |
| `compiler` | matches of up to 3 alternatives in up to 3 cases over 4 types, and of 2 over 7 others; methods of 2 overloads, some variadic and of 3 parameters; classes of up to 3 constructors; nested ifs and loops; programs of 3 files; 24 values through 2 of 580 variables | `CompilerTypeOK`, `SelectsAsWritten`, `FlatMatchesTakeACase`, `MatchingPatternsNeverFail`, `AcceptedCallsRun`, `ConstructionDelivers`, `NarrowingSound`, `ReferencesKeepTheirMeaning`, `InitialisedBeforeRead`, `ValuesFollowTypes` | 376 375 |
| `interpreter_reentrant` | a constructor that reaches a lookup of its own object | violates `OneSharedObject` | |
| `lowering_open_chain` | one body | violates `ReturnsWhatSourceReturns` | |
| `java_break` | one body | violates `BackEndsAgree` | |
| `patterns_tried` | a list pattern against lists | violates `TriedPatternsNeverFail` | |
| `construction` | one class | violates `ConstructedAsWritten` | |
| `overloads` | an overload for Str and one for Any, called with an Int | violates `SelectedOverloadRuns` | |
| `modules` | two files | violates `MeaningKept` | |

Why the bounds are enough to be interesting:

* Interpreter: `MaxDepth` 8 is deeper than any chain of calls of the program
  families except a runaway recursion, which is there to reach it. Three
  functions deep is what it takes for cleanup of cleanup to fail while an error
  unwinds; two registrations in one loop are what tells once-per-site from
  once-per-execution.
* Transactions: one connection makes the two clients compete for it, so that a
  connection changes hands between any two calls of a unit that misuses it; two
  rows are what "half of a transaction" needs. Beyond the instance there are
  the proofs of section 5.
* Lowering: the bodies put every control construct into every other one whose
  lowering it can disturb (ifs with chains and let clauses inside loops; match
  with or-patterns and guards as a statement, as a value and as an argument;
  `try` and `??` with fallbacks that return, break or continue; nested
  generators). Five answers take every loop through a second round.
* Collections: an element found, moved and removed takes three elements; a
  callback inside a comparator inside a loop is the second activation.
* Ranges and numbers: 8 bits have the same limits as 64, nearer: every start
  and end near them, with steps that miss and overshoot them.
* Files: three bytes hold every division of a line end (CR LF, CR alone, a line
  without an end) and a fault before, inside and behind it; arrays of two
  bytes put reads on both sides of the largest one.
* Patterns: three alternatives of three cases are what a wrong index of a
  failing guard needs to fall on an alternative of the same case, the next case
  and past the end.
* Overloads: two parameters are too few for a variadic overload to win the
  lowering's ranking by counting and lose the checker's ranking by types; pairs
  of overloads with three parameters, of which the last is variadic, show it.
* Narrowing: conditions nested three deep, over ifs and loops nested twice, put
  every way to leave a block behind every kind of test.
* Modules: two files besides the root give an import of an import, a cycle, and
  two files with the same name in the scope of a third.
* Shapes: fields in other orders, more and fewer of them, nested shapes,
  classes and interfaces; the second move is what shows a source shape that is
  still behind the first.

`CHECK_DEADLOCK FALSE` stands where the system stops: a program has ended, or
all units of work are over. The other specifications have a step for the end.

Five properties have a precondition that cuts off what section 6 reports.
`ReferencesKeepTheirMeaning` is about programs that are `Separate`: no two files
declare a global of one name, no alias is the name of anything else it could be
taken for after the files are merged, no parameter is named like a function.
`ValuesFollowTypes` is about assignments that are `Clear`: the alternatives of a
union that are shapes have names and fields of Int and Str only, and no field
of the source has a union for its type. `AcceptedCallsRun` lets a call find no
overload only if it was laid out for a variadic overload, and that one is not
the one that the checker selected or takes an operand as Any. `FilesReadAlike`
is about programs that have not yet asked for more bytes than a Java array
holds. TLC refutes the first two when any part of their
precondition is dropped, and the other two without their exceptions. In
`NumbersAreExact` the conversion to Int is about scales up to `MaxAlignment`, as
are all scales of the instance.

## 4. Fairness

* Interpreter and BlockMachine: one thread that never waits, hence weak
  fairness of each whole next-state relation. `Terminates` holds because the
  program families have no unbounded loop and the native stack is finite;
  `Settles` says that every loop of a lowered body asks or calls.
* Transactions: each thread is scheduled (weak fairness of its steps), and every
  work ends: it returns or panics (strong fairness, since a work that calls
  commit or rollback again and again leaves and re-enters the place where it
  can return). Nothing is assumed of the driver: any call may fail each time. A
  thread waiting for a connection is not stuck, since HikariCP ends the wait
  with an exception.
* The library and compiler runs have no fairness and claim no liveness. That a
  loop over a range ends is stated as `RangeAdvances`: every step comes closer.

## 5. What is proved

All proofs are for every value of the constants that satisfies the ASSUMEs of
the module, each as weak as the code justifies, and TLC evaluates them on every
instance. The table lists the properties of the runs that are theorems as well.

| component | theorems | properties |
|---|---|---|
| calls | `TypeCorrect`, `CleanupAlways`, `FailuresAlwaysReported` | `TypeOK`, `CleanupDiscipline`, `EveryFailureReported` |
| drivers and objects | `GlobalsAlwaysFirst`, `SpecsAlwaysJudged`, `PublishedAlwaysInitialised`, `ObjectsShared` | `GlobalsFirst`, `EverySpecJudged`, `PublishedIsInitialised`, `OneSharedObject` |
| transactions | `TypesKept`, `AtomicAlways`, `FailedNeverVisible`, `OkNeverLies`, `ErrSeldomLies`, `SeparateAlways`, `LeaksExplained`, `Implements` | all but `ConnectionsComeBack` |
| collections | `CollectionsInvariant`, `AlwaysHandedOutOnce`, `AlwaysOnlyEqualsDisturbs`, `SortsPermute` | `HandedOutOnce`, `OnlyEqualsDisturbs`, `SortPermutes` |
| ranges, files | `RangesYieldProgression`, `RangesAdvance`, `FilesAlwaysReadAlike` | `RangeYieldsProgression`, `RangeAdvances`, `FilesReadAlike` |
| numbers | `IntegersAlwaysExact`, `DecimalsAlwaysExact`, `NumbersAlwaysExact` | `NumbersAreExact` |
| patterns | `SelectsInOrder`, `FlatMatchesTake`, `MatchingPatternsHold` | `SelectsAsWritten`, `FlatMatchesTakeACase`, `MatchingPatternsNeverFail` |
| overloads | `AcceptedCallsAlwaysRun` | `AcceptedCallsRun` |
| narrowing | `NarrowingIsSound` | `NarrowingSound` |

**Interpreter.** `TypeCorrect` needs more than `TypeOK`: a frame must point
into the code of its own function, and what waits below a callee must be the
statement, or the building stage, that called it; otherwise a returning value
would be stored at a place that is not one. `IInv` adds exactly this (`StackOK`)
and that the runner's next spec exists.

`CleanupAlways`: `CleanupDiscipline` speaks of the history of each call, the
code of the deferred closures left in its frame. `CleanupInv` ties them: for a
frame on the stack, what was registered is what was attempted, reversed,
behind what is left (`Tied`), no two frames share a record (`OwnRecords`), and
a record without a frame is complete. The step lemmas say what a push, a pop
and a change of the top frame do to this link.

`FailuresAlwaysReported`: the code folds a failure into the outcome as it
arrives, `Reported` is a fold over the whole history. `FailureInv` adds to
`CleanupInv` that the outcome an activation has so far is `Reported` of its body
and of the failures so far (`AllTold`), and the step is a lemma on the folds:
a failure more, at the end, changes `Reported` as `AttachCleanupFailure` does.
What a fold over a sequence yields is shown by induction over the length of the
sequence.

**Drivers and objects.** `GlobalsInv`: while the globals are initialised the
call at the bottom of the stack is the initialiser, and afterwards its record
says that it succeeded. `RunnerInv` counts: as many verdicts as specs passed
by, as many diagnostics as failures, the spec under way at the bottom of the
stack. `BuildInv`: an instance that has reached a stage of `instantiate` has a
successful call of each earlier stage in the history, on itself. These hold of
every program. That an object is shared does not hold of every one (section 6, 1),
and `NoReentry(program)` is the exact hypothesis: by the call graph, no
construction of an object leads to a lookup of the same object. `SharedInv`
shows that then the objects under construction on the stack are all different
and none of them published, by what each activation may still look up. `MCInterpreter` has TLC evaluate that the programs of
the run `execution` satisfy `NoReentry` and those of `interpreter_reentrant`
do not.

**Transactions.** `IInv` is `TypeOK`, `PendingOwned` (what is pending on a
connection belongs to its owner) and, for each client, `Sound`: a relation of
its record, what it wrote, what is visible of it, what went wrong, the
connections it owns and the rows pending on them. `Sound` mentions one client
only, so that each step is proved for the client that takes it and lemma
`Frame` disposes of all others. The seven safety theorems follow from it.

`Implements`: without commits in doubt every behaviour is one of `UnitOfWork`.
The assumption is needed: after a commit in doubt the transaction stays OPEN
(`JdbcTransaction.java:55-57`), so a work that had called commit itself may go
on writing, and no abstract unit does this.

**Collections.** For any number of collections, elements, iterators and nested
activations. `LibraryInv` has the types and, for each activation, what it
relies on: an iterator never goes back behind what it has handed out, a sort
keeps its values a permutation of what it was called on (the permutation is
carried along as a bijection). `QuietInv`: unless an `equals` method has
changed what is being searched, no element of a set is there twice, and a
search is where the collection still is. `CollectionsInvariant` is that both
hold always. Assumed: the three kinds of collection
are disjoint, and each starts with contents of its kind.

**Ranges, files, numbers.** `RangesInv`: an iterator that could step stands on
`start + step * count`, for both runtimes, and one that could not is at the
end; the limits, where the addition overflows and the iterators jump to the
end, are in it. `FilesInv`: until a call fails, or a read asks for more bytes
than a Java array holds, both readers stand at the same place of the file, and
the file itself is never before the place that a text reader has counted.
Assumed: no file is longer than the largest Int. `NumbersInv` has the loop of `checked_int_pow`:
result times factor to the remaining power is the power asked for (`PowGoes`),
and, unless the value is -1, 0 or 1, the factor is at least 2 in size and the
result 1 or at least 2, so that what overflows once could never come back: a
refusal means that the power does not fit. That the power of a number exists as
a function is itself shown by induction. The rest is about the operators. A
quotient in lowest terms has finitely many digits only if twos and fives are all
its denominator is made of: `OnlyTwosAndFives` shows that a denominator that
divides some power of ten is the product that `div` rebuilds, so that when the
two differ no number of digits is enough (`InexactQuotients`), and otherwise the
larger count is (`ExactQuotients`). The order of two Decimals
is found from the places of their first digits: `FurtherLeft` and `SamePlace`
show that this is the order of the values at a common scale (`CompareIs`), and
`KeysAgree` that values are equal exactly when what is left without trailing
zeros, and its place, are. `ToIntIs` needs that a number of more than `IntDigits`
digits is no Int, and that the limit on powers lies beyond it
(`DigitsAssumption`; 19 digits and a limit of 1 000 000 in the code).

**Patterns.** For all declarations of types, and all patterns, values, source
expressions and matches made of them. The checker's two judgements of a
pattern, the proof a source expression gives, the lowered tests, the removal of
aliases and the reference definition `Matches` are recursive functions over
pairs of a pattern and what it is held against; lemma `Recursion` of
`NarrowingProofs` shows that each exists. Then, by induction on the depth of
the pattern: a pattern that matches passes its tests (`MatchedPlans`), for any
value; a pattern that the checker has bound to a type and whose tests pass on a
value of that type matches it (`PlannedMatches`); an irrefutable pattern
matches every value of the type (`IrrefutableMatches`), and a source expression
that proves a pattern denotes a value that it matches (`ProvedMatches`).
`PlannedMatches` needs the binding: without it a tuple pattern with too few
elements passes its tests. `ParseLaidOut` says where an alternative stands
after flattening, which is what jumping over the alternatives that remain, when
a guard fails, must get right. `PatternsInv` says of a match under way that it
stands at an alternative (`Standing`), that every written case before it had
none that matches or a guard that refused, and every alternative of this case
before it does not match; that a guard was asked at most once, only where the
match has been and an alternative matches (`AskedRight`), and from here on not
yet (`Decided`). Assumed: a name means one thing, values have
the types they were declared with, a source denotes what its parts denote, and
every written case has an alternative.

**Overloads.** For any number of overloads, parameters and arguments.
`OverloadsInv` says what each of the three selections settled. The rest is
about the operators: the checker's arrangement, a recursive function over the
arguments, exists and has the arguments where the lowering's slots have them
(`LayingOut`), the interpreter's binding of what was laid out keeps the
promise (`KeepsPromise`), what is laid out for an overload without a variadic
parameter always finds that overload again, and what is laid out for a variadic
one that the checker selected finds it unless it takes an operand as Any
(`StuckMeans`). Assumed:
only the last parameter is variadic, names are distinct, a default has its
parameter's type, and an argument's static type is its value's or Any.

**Narrowing.** For all conditions, statements and types. Conditions and
statements are data of any depth, graded by a number that is smaller for what
they consist of; lemma `Recursion` shows that a recursive definition over such
data, whose value rests on what is less deep, has a solution, and the six
recursive functions of `Narrowing` are instances of it. `NarrowingsTell`:
what a condition is taken to tell about a value holds of the value whenever the
condition can have that outcome. `NarrowingInv` cannot say that each block
under way has the right types, since the block around an if takes over what
one branch knows while the other one, which will leave, is still running.
It says (`Held`) that each block has the right types or some block inside it,
with no loop in between, is certain to leave; when that block is done, control
does not come back. `ScopesOK` ties the loops: the block around a loop's body
is at that loop, and break and continue stand in one.

**What failing proofs taught.** A CASE with two guards that hold at once has an
unspecified value in TLA+, though TLC takes the first; a proof that could not
tell them apart found one, and it became an IF. The first statement of
`AcceptedCallsRun` had no exception and held on TLC's instances; the proof that
failed led to the case of section 6, and to larger instances that show it. The
first statement of `ToIntIsExact` claimed every scale; its proof stopped at
scales beyond the limit on powers, where the two runtimes differ (section 6).

**Only model-checked**: liveness (`Terminates`, `ConnectionsComeBack`,
`Settles`), which the prover does not reach, and
everything about `Lowering`, `JavaEmission`, `Construction`, `Modules` and
`Shapes` (`FollowsSource`, `ReturnsWhatSourceReturns`, `BackEndsAgree`,
`ConstructionDelivers`, `ReferencesKeepTheirMeaning`, `InitialisedBeforeRead`,
`ValuesFollowTypes`), whose operators are RECURSIVE, which the prover does not
support. `CompilerTypeOK` and `LibraryTypeOK` join the types of the parts of a
run; of these, `TypeOK` of `Collections`, `FilesTypeOK` and `PatternsTypeOK` are
theorems of their own and `RangesTypeOK` is part of `RangesInv`.

## 6. Where code and documents disagree

Shown by a run:

1. **An object that is built twice** (`interpreter_reentrant`). README.md:25
   promises one shared object value. `lookup_singleton` publishes an object
   only after its initialisers have returned (`interpreter.rs:6614`), so a
   lookup made by code they call starts another construction, and the outer
   instance then replaces the inner one that has already been handed out.
2. **A lost else-if** (`lowering_open_chain`). `if p() { a() } else if q() {
   b() }` at the end of a body: `lower_if_stmt_tail_value` lowers the nested if
   by a call of itself (`lower.rs:2707`) that returns at once because it has no
   else (`lower.rs:2589`), and the caller takes this for a branch without a
   value. Neither `q` nor `b` is ever called.
3. **A break that stays in the loop** (`java_break`). A match statement in a loop
   becomes a Java switch; a `break` in a case is printed as it stands
   (`emit.rs:2623`) and leaves the switch.
4. **A pattern that stops the program** (`patterns_tried`). The tests of nested
   patterns are computed in the block of the test that guards them
   (`lower.rs:3831`), so that a list pattern reads an item that a shorter list
   does not have. syntax.md:5170 has alternatives tried, left to right.
5. **Arguments that move up** (`construction`). A slot that nothing fills is left
   out of the operands (`lower.rs:7888`), and the named arguments behind it set
   other fields than they name (syntax.md:3031).
6. **Private globals that are one** (`modules`). The merged program declares
   globals by bare name, and the first wins (`lower.rs:481`; syntax.md:6030).
7. **An overload that was not selected** (`overloads`). The interpreter chooses
   again, by values (`interpreter.rs:6763`), and a parameter of type Any matches
   none of them: `f(Str)` and `f(Any)`, called with an Int, have the same score,
   and the one that is declared first runs. syntax.md:3228 has overloads resolved
   from the types of the arguments, and never silently by their order.

Found while modelling, and kept out of the instances or the preconditions of
the runs, which thereby state that they are the exceptions:

* A variable as an argument is read when the call is executed, after a later
  argument may have assigned it (`lower.rs:4715`; syntax.md:2783).
* When every path of a scrutinee leaves, the cases are lowered into the
  function's entry block in place of the jump that ended it (`lower.rs:3445`,
  `3495`).
* Matches with nested patterns, and over types that are not unions, are
  accepted without covering everything (`typecheck.rs:10680`; syntax.md:5196).
* The elements of a tuple pattern are not counted (`typecheck.rs:10369`), though
  syntax.md:5548 wants the tuple's full arity: the tests of a pattern with fewer
  elements pass, those of one with more report an error.
* An overload with a variadic parameter is excluded when one of the operands is
  for a parameter of type Any (`interpreter.rs:6732-6735`, `lower.rs:9830`): a
  method whose only overload ends in `[Any] vararg` can be called with an Int as far as
  the checker goes, and is then not available.
* `FileStream.read` of more bytes than Integer.MAX_VALUE is refused by the Java
  runtime (`LumeFileStream.java:45`) and answered by the interpreter as long as
  it can reserve the memory (`interpreter.rs:4455-4482`).
* The lowering lays an accepted call out for the overload that it ranks first by
  counting arguments (`lower.rs:8316`). When that one is variadic and is not the
  one the checker selected, its operands can fit no overload, or another one:
  of `f(b: Int, a: Int = 0, c: Int...)` and
  `f(x: Str, y: Str = "d", rest: Str...)`, a call with one string is laid out
  for the first, and the interpreter (`interpreter.rs:6672`) finds none.
* The root's globals are initialised before those of the files it uses
  (`interpreter.rs:232`).
* References that are not renamed are rewritten by their text, a callee twice:
  two aliases that swap names call the wrong function (`interpreter.rs:753`); a
  parameter named like any function of the program is not what its call calls
  (`lower.rs:8795`).
* Into a union a value is copied by what it is, not by its static type
  (`interpreter.rs:7466-7520`): a shape with a field of type Any is never found,
  since Any is the name of no value; a field that holds a wider shape is not
  matched, since instances match by name; an alternative without a name takes a
  value of as many fields as it is, with its old name and what is nested in it,
  although syntax.md:1866 says that no source shape is left; and the values of a
  field of union type can select an alternative that the checker excluded.
* A Decimal of more than 1 000 000 places that is a whole number has no `toInt` in
  the interpreter, which gives up on the power of ten (`decimal.rs:243`); the
  Java runtime answers it (`LumeDecimal.java:129`).
* Java: arguments with `?` are hoisted past earlier ones (`emit.rs:2857`;
  syntax.md:3617); a match that is the body of a Unit function is a row of ifs
  that do not exclude each other (`emit.rs:5258`); the value of a let clause is
  printed at every use (`emit.rs:4800`).

## 7. What is not modelled, and what is left

The modules follow what has state or control: about a tenth of the lines of the
implementation. The rest is, by size:

* the typing rules of single expressions, inference and the wording of errors
  (most of `typecheck.rs`), and the same walk over the tree for names of types,
  members and extensions (`resolver.rs`). Each is a case distinction over syntax
  whose only specification is itself; the models take from them what another
  component relies on;
* the printing of names, types, classes, lambdas and templates
  (`java_backend/`), of source (`formatter.rs`), of messages (`diagnostic*.rs`);
* lexer and parser: recursive descent without a state that outlives it;
* conversions and wrappers of libraries: JSON, regular expressions, rows of the
  database, `java.util` collections, reflection data; Float and the text of
  decimals;
* HTTP: handlers are registered, concurrency is Javalin's.

Left out of components that are modelled: closures and what they capture,
`yield` over Option and Result, destructuring, type arguments and tuples in
`Shapes`, named binds and the cache of row decoders (a lost entry is prepared
again), a unit of work that opens a second connection.

Next, in this order: `Construction` and `Modules` with recursive functions over
graded data in place of RECURSIVE operators, as in `Narrowing` and `Patterns`, so
that `ConstructionDelivers` and `ReferencesKeepTheirMeaning` can be proved; an
abstract call protocol that `Interpreter` implements; closures in `Lowering`.
