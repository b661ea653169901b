---------------------------- MODULE Interpreter ----------------------------
(* The tree of calls the interpreter makes while it runs one lowered program
   (rust/crates/lume/src/interpreter.rs): callable frames and their blocks,
   deferred cleanup, runtime errors, initialisation of the globals, creation
   of instances and singletons, and the two drivers `run` and `run_specs`.

   The interpreter recurses natively: each call_function, lookup_singleton and
   construct_named_type is a native activation.  `stack` holds them, innermost
   last.  Only the innermost takes steps; when it ends, its
   Result<Value, Diagnostic> goes to the one below it, or to the driver.

   The data is abstracted: a value is an integer or a reference to an
   instance, a diagnostic is the place it was raised at and its notes.      *)
EXTENDS Integers, Sequences, FiniteSets

CONSTANTS
  Programs,   \* the lowered programs to run (ir::Program)
  Functions,  \* ir::FunctionId
  Locals,     \* ir::LocalId
  Param,      \* the local that receives the argument, the capture or `this`
  Globals,    \* ir::GlobalId
  Objects,    \* singleton object types
  Classes,    \* class types, constructed without arguments
  NoFunction, \* no field initialiser, no constructor, no global initialiser
  NoPlace,    \* the value of a call is dropped (ir::StatementKind::Eval)
  MaxDepth    \* activations the native stack holds before the process aborts

Types == Objects \cup Classes

-----------------------------------------------------------------------------
(* Values and the intermediate representation (rust/crates/lume/src/ir.rs). *)

Value == [tag : {"int", "object"}, n : Nat]

IntValue(i) == [tag |-> "int", n |-> i]

ObjectRef(i) == [tag |-> "object", n |-> i]

\* What a local or a global holds before it is assigned, and Value::Unit.
DefaultValue == IntValue(0)

Place == [kind : {"local"}, id : Locals] \cup [kind : {"global"}, id : Globals]

Operand == Place \cup [kind : {"const"}, value : Value]

(* "use" copies an operand, "call" is every call of a function or a closure,
   "instance" reads a singleton object or constructs a class, and "fail" is
   any rvalue whose evaluation reports a runtime error without entering a
   function: panic, a failed assertion, an index out of range, a call with the
   wrong number of arguments. *)
Statement ==
       [op : {"use"}, dst : Place, arg : Operand]
  \cup [op : {"call"}, dst : Place \cup {NoPlace}, fn : Functions, arg : Operand]
  \cup [op : {"defer"}, fn : Functions, arg : Operand]
  \cup [op : {"instance"}, dst : Place, type : Types]
  \cup [op : {"fail"}]

\* A block is named by its position.  A branch is a switch with one case.
Terminator ==
       [op : {"goto"}, target : Nat]
  \cup [op : {"switch"}, on : Operand, default : Nat,
        cases : Seq([value : Value, target : Nat])]
  \cup [op : {"return"}, arg : Operand]
  \cup [op : {"unreachable"}]

Block == [stmts : Seq(Statement), term : Terminator]

Program ==
  [body : [Functions -> Seq(Block)],
   fieldInit : [Types -> Functions \cup {NoFunction}],
   new : [Types -> Functions \cup {NoFunction}],
   globalInit : Functions \cup {NoFunction},
   mode : {"run", "test"},
   entry : Functions,
   specs : Seq([type : Types, it : Functions])]

\* Every jump of the body b leads to one of its blocks (lowering builds no other).
Targets(t) ==
  CASE t.op = "goto" -> {t.target}
    [] t.op = "switch" -> {t.default} \cup {t.cases[i].target : i \in DOMAIN t.cases}
    [] OTHER -> {}

ClosedBody(b) == b # <<>> /\ \A i \in DOMAIN b : Targets(b[i].term) \subseteq DOMAIN b

ASSUME ProgramsAreLowered ==
  Programs \subseteq {p \in Program : \A f \in Functions : ClosedBody(p.body[f])}

ASSUME NoFunctionIsNone == NoFunction \notin Functions

ASSUME NoPlaceIsNone == NoPlace \notin Place

ASSUME ParamIsLocal == Param \in Locals

ASSUME MaxDepthPositive == MaxDepth \in Nat \ {0}

-----------------------------------------------------------------------------
(* Diagnostics and results. *)

Site == [fn : Functions \cup {NoFunction}, block : Nat, pc : Nat]

NoSite == [fn |-> NoFunction, block |-> 0, pc |-> 0]

\* A note names a cleanup failure, or says that the diagnostic itself came
\* from deferred cleanup; depth counts the "deferred cleanup note" prefixes.
Note == [kind : {"failed", "deferred"}, at : Site, depth : Nat]

Diagnostic == [at : Site, notes : Seq(Note)]

Running == [tag |-> "running"]

Ok(v) == [tag |-> "ok", value |-> v]

Err(d) == [tag |-> "err", diag |-> d]

Outcome == {Running} \cup [tag : {"ok"}, value : Value] \cup [tag : {"err"}, diag : Diagnostic]

Raised(site) == [at |-> site, notes |-> <<>>]

\* Mutant: the notes of the failed cleanup are dropped.
AttachWithoutNotes(primary, failure) ==
  [at |-> primary.at,
   notes |-> Append(primary.notes, [kind |-> "failed", at |-> failure.at, depth |-> 0])]

\* attach_cleanup_failure
AttachCleanupFailure(primary, failure) ==
  [at |-> primary.at,
   notes |-> primary.notes
               \o <<[kind |-> "failed", at |-> failure.at, depth |-> 0]>>
               \o [i \in DOMAIN failure.notes |->
                     [failure.notes[i] EXCEPT !.depth = @ + 1]]]

\* The first cleanup failure of a call whose body succeeded becomes its error.
CleanupPrimary(failure) ==
  [at |-> failure.at,
   notes |-> Append(failure.notes, [kind |-> "deferred", at |-> NoSite, depth |-> 0])]

\* One turn of the folding in finish_callable_exit: what the call will report,
\* once a cleanup has failed too.
ReportFailure(outcome, failure) ==
  IF outcome.tag = "err"
    THEN Err(AttachCleanupFailure(outcome.diag, failure))
    ELSE Err(CleanupPrimary(failure))

-----------------------------------------------------------------------------
VARIABLES
  program,      \* the program being run; never changes
  stack,        \* native activations, innermost last
  globals,      \* values of the globals
  globalsReady, \* ensure_globals has succeeded
  singletons,   \* for each object its published instance, 0 if none
  allocated,    \* instances created so far
  driver,       \* where run or run_specs is
  nextSpec,     \* the spec run_specs runs next
  diagnostics,  \* what the run reports
  verdicts,     \* PASS or FAIL of the specs run so far
  calls,        \* auxiliary: what happened in each call, in call order
  served        \* auxiliary: the instances each completed lookup returned

globalVars == <<globals, globalsReady>>
objectVars == <<singletons, allocated, served>>
runVars == <<driver, nextSpec, diagnostics, verdicts>>
vars == <<program, stack, globalVars, objectVars, runVars, calls>>

Closure == [fn : Functions, arg : Value]

CallFrame ==
  [kind : {"call"}, id : Nat, fn : Functions, block : Nat, pc : Nat,
   locals : [Locals -> Value], defers : Seq(Closure), outcome : Outcome]

\* lookup_singleton or construct_named_type at work on the new instance inst.
InstanceFrame ==
  [kind : {"instance"}, type : Types, inst : Nat,
   stage : {"fieldInit", "new", "publish"}, outcome : Outcome]

\* What the auxiliary variable keeps of a call: the deferred closures in the
\* order they were registered and were attempted, the failures of those, how
\* the body ended and what the call returned.
CallRecord ==
  [fn : Functions, arg : Value, registered : Seq(Closure), attempted : Seq(Closure),
   failures : Seq(Diagnostic), body : Outcome, outcome : Outcome]

Activation == CallFrame \cup InstanceFrame

TypeOK ==
  /\ program \in Programs
  /\ stack \in Seq(Activation)
  /\ globals \in [Globals -> Value]
  /\ globalsReady \in BOOLEAN
  /\ singletons \in [Objects -> Nat]
  /\ allocated \in Nat
  /\ driver \in {"boot", "globals", "idle", "entry", "receiver", "spec", "done", "aborted"}
  /\ nextSpec \in Nat \ {0}
  /\ diagnostics \in Seq(Diagnostic)
  /\ verdicts \in Seq({"PASS", "FAIL"})
  /\ calls \in Seq(CallRecord)
  /\ served \in [Objects -> SUBSET Nat]

-----------------------------------------------------------------------------
(* Frames. *)

Top == stack[Len(stack)]

Caller == stack[Len(stack) - 1]

Popped == SubSeq(stack, 1, Len(stack) - 1)

WithTop(f) == [stack EXCEPT ![Len(stack)] = f]

\* Top returns and the activation below it becomes f.
WithCaller(f) == [Popped EXCEPT ![Len(stack) - 1] = f]

NewCall(f, v) ==
  [kind |-> "call", id |-> Len(calls) + 1, fn |-> f, block |-> 1, pc |-> 1,
   locals |-> [x \in Locals |-> IF x = Param THEN v ELSE DefaultValue],
   defers |-> <<>>, outcome |-> Running]

NewRecord(f, v) ==
  [fn |-> f, arg |-> v, registered |-> <<>>, attempted |-> <<>>, failures |-> <<>>,
   body |-> Running, outcome |-> Running]

NewInstance(t) ==
  [kind |-> "instance", type |-> t, inst |-> allocated + 1,
   stage |-> "fieldInit", outcome |-> Running]

CurrentBlock(f) == program.body[f.fn][f.block]

CurrentStatement(f) == CurrentBlock(f).stmts[f.pc]

HasStatement(f) == f.pc <= Len(CurrentBlock(f).stmts)

HereIn(f) == [fn |-> f.fn, block |-> f.block, pc |-> f.pc]

\* eval_operand in frame f
Read(f, x) ==
  CASE x.kind = "const" -> x.value
    [] x.kind = "local" -> f.locals[x.id]
    [] x.kind = "global" -> globals[x.id]

\* assign_place: the locals of f, and the globals, after v is stored at x
LocalsWith(f, x, v) ==
  IF x # NoPlace /\ x.kind = "local" THEN [f.locals EXCEPT ![x.id] = v] ELSE f.locals

GlobalsWith(x, v) ==
  IF x # NoPlace /\ x.kind = "global" THEN [globals EXCEPT ![x.id] = v] ELSE globals

-----------------------------------------------------------------------------
(* The loop of call_function over the blocks of the innermost frame. *)

Innermost(kind) == Len(stack) \in 1..MaxDepth /\ Top.kind = kind

InBody == Innermost("call") /\ Top.outcome = Running

AtStatement(op) == InBody /\ HasStatement(Top) /\ CurrentStatement(Top).op = op

AtTerminator(op) == InBody /\ ~HasStatement(Top) /\ CurrentBlock(Top).term.op = op

ExecUse ==
  /\ AtStatement("use")
  /\ LET s == CurrentStatement(Top)
         v == Read(Top, s.arg)
     IN /\ stack' = WithTop([Top EXCEPT !.pc = @ + 1, !.locals = LocalsWith(Top, s.dst, v)])
        /\ globals' = GlobalsWith(s.dst, v)
  /\ UNCHANGED <<program, globalsReady, objectVars, runVars, calls>>

\* A call statement stays current until the callee's result comes back.
ExecCall ==
  /\ AtStatement("call")
  /\ LET s == CurrentStatement(Top)
         v == Read(Top, s.arg)
     IN /\ stack' = Append(stack, NewCall(s.fn, v))
        /\ calls' = Append(calls, NewRecord(s.fn, v))
  /\ UNCHANGED <<program, globalVars, objectVars, runVars>>

\* The closure captures the value now; the frame only remembers the closure.
ExecDefer ==
  /\ AtStatement("defer")
  /\ LET s == CurrentStatement(Top)
         c == [fn |-> s.fn, arg |-> Read(Top, s.arg)]
     IN /\ stack' = WithTop([Top EXCEPT !.pc = @ + 1, !.defers = Append(@, c)])
        /\ calls' = [calls EXCEPT ![Top.id].registered = Append(@, c)]
  /\ UNCHANGED <<program, globalVars, objectVars, runVars>>

\* The body of the innermost call ends with outcome o; its cleanup comes next.
EndBody(o) ==
  /\ stack' = WithTop([Top EXCEPT !.outcome = o])
  /\ calls' = [calls EXCEPT ![Top.id].body = o]
  /\ UNCHANGED <<program, globalVars, objectVars, runVars>>

ExecFail == AtStatement("fail") /\ EndBody(Err(Raised(HereIn(Top))))

EnterUnreachable == AtTerminator("unreachable") /\ EndBody(Err(Raised(HereIn(Top))))

Return == AtTerminator("return") /\ EndBody(Ok(Read(Top, CurrentBlock(Top).term.arg)))

JumpTo(b) ==
  /\ stack' = WithTop([Top EXCEPT !.block = b, !.pc = 1])
  /\ UNCHANGED <<program, globalVars, objectVars, runVars, calls>>

Goto == AtTerminator("goto") /\ JumpTo(CurrentBlock(Top).term.target)

\* The first arm that matches, or the default.
Switch ==
  /\ AtTerminator("switch")
  /\ LET t == CurrentBlock(Top).term
         matching == {i \in DOMAIN t.cases : t.cases[i].value = Read(Top, t.on)}
     IN \/ matching = {} /\ JumpTo(t.default)
        \/ \E i \in matching : (\A j \in matching : i <= j) /\ JumpTo(t.cases[i].target)

-----------------------------------------------------------------------------
(* lookup_singleton and construct_named_type. *)

\* A published singleton is returned as it is.
ReadSingleton ==
  /\ AtStatement("instance")
  /\ LET s == CurrentStatement(Top)
     IN /\ s.type \in Objects
        /\ singletons[s.type] # 0
        /\ LET v == ObjectRef(singletons[s.type])
           IN /\ stack' = WithTop([Top EXCEPT !.pc = @ + 1, !.locals = LocalsWith(Top, s.dst, v)])
              /\ globals' = GlobalsWith(s.dst, v)
        /\ served' = [served EXCEPT ![s.type] = @ \cup {singletons[s.type]}]
  /\ UNCHANGED <<program, globalsReady, singletons, allocated, runVars, calls>>

\* Mutant: a published object is created again.
AllocateAlways(t) ==
  /\ stack' = Append(stack, NewInstance(t))
  /\ allocated' = allocated + 1

\* Otherwise a new instance is allocated; nothing records that it is on its way.
Allocate(t) ==
  /\ t \in Objects => singletons[t] = 0
  /\ stack' = Append(stack, NewInstance(t))
  /\ allocated' = allocated + 1

ExecInstance ==
  /\ AtStatement("instance")
  /\ Allocate(CurrentStatement(Top).type)
  /\ UNCHANGED <<program, globalVars, singletons, runVars, calls, served>>

\* Call the initialiser f, if there is one, on the instance; then go on at stage.
Initialise(f, stage) ==
  LET waiting == WithTop([Top EXCEPT !.stage = stage])
  IN /\ IF f = NoFunction
          THEN stack' = waiting /\ UNCHANGED calls
          ELSE /\ stack' = Append(waiting, NewCall(f, ObjectRef(Top.inst)))
               /\ calls' = Append(calls, NewRecord(f, ObjectRef(Top.inst)))
     /\ UNCHANGED <<program, globalVars, objectVars, runVars>>

Building(stage) ==
  Innermost("instance") /\ Top.outcome = Running /\ Top.stage = stage

RunFieldInit == Building("fieldInit") /\ Initialise(program.fieldInit[Top.type], "new")

\* Mutant: the constructor of an object is skipped.
RunNoNew == Building("new") /\ Initialise(NoFunction, "publish")

\* Mutant: construction goes on at a stage that does not exist.
RunNewThenStop == Building("new") /\ Initialise(program.new[Top.type], "done")

RunNew == Building("new") /\ Initialise(program.new[Top.type], "publish")

\* Only now does a singleton become visible to later lookups.
Publish ==
  /\ Building("publish")
  /\ stack' = WithTop([Top EXCEPT !.outcome = Ok(ObjectRef(Top.inst))])
  /\ IF Top.type \in Objects
       THEN /\ singletons' = [singletons EXCEPT ![Top.type] = Top.inst]
            /\ served' = [served EXCEPT ![Top.type] = @ \cup {Top.inst}]
       ELSE UNCHANGED <<singletons, served>>
  /\ UNCHANGED <<program, globalVars, allocated, runVars, calls>>

-----------------------------------------------------------------------------
(* finish_callable_exit, and how a result reaches the activation below. *)

Unwinding == Innermost("call") /\ Top.outcome # Running

\* Mutant: deferred closures run first registered first.
FirstDefer(ds) == ds[1]

LastDefer(ds) == ds[Len(ds)]

\* Pop the latest deferred closure and call it.
RunCleanup ==
  /\ Unwinding
  /\ Top.defers # <<>>
  /\ LET c == LastDefer(Top.defers)
         rest == SubSeq(Top.defers, 1, Len(Top.defers) - 1)
     IN /\ stack' = Append(WithTop([Top EXCEPT !.defers = rest]), NewCall(c.fn, c.arg))
        /\ calls' = Append([calls EXCEPT ![Top.id].attempted = Append(@, c)], NewRecord(c.fn, c.arg))
  /\ UNCHANGED <<program, globalVars, objectVars, runVars>>

\* Mutant: a failed call is not taken to be over.
EndedNormally ==
  \/ Unwinding /\ Top.defers = <<>> /\ Top.outcome.tag = "ok"
  \/ Innermost("instance") /\ Top.outcome # Running

\* The innermost activation has nothing left to do but return.
Ended ==
  \/ Unwinding /\ Top.defers = <<>>
  \/ Innermost("instance") /\ Top.outcome # Running

\* The auxiliary record of the call that ends here.
Settled ==
  IF Top.kind = "call" THEN [calls EXCEPT ![Top.id].outcome = Top.outcome] ELSE calls

\* The value goes to the destination of the waiting statement.
ReturnValue ==
  /\ Ended /\ Len(stack) > 1
  /\ Caller.kind = "call" /\ Caller.outcome = Running
  /\ Top.outcome.tag = "ok"
  /\ LET s == CurrentStatement(Caller)
         v == Top.outcome.value
     IN /\ stack' = WithCaller([Caller EXCEPT !.pc = @ + 1,
                                              !.locals = LocalsWith(Caller, s.dst, v)])
        /\ globals' = GlobalsWith(s.dst, v)
  /\ calls' = Settled
  /\ UNCHANGED <<program, globalsReady, objectVars, runVars>>

\* The error ends the body that waits for it.
PropagateError ==
  /\ Ended /\ Len(stack) > 1
  /\ Caller.kind = "call" /\ Caller.outcome = Running
  /\ Top.outcome.tag = "err"
  /\ stack' = WithCaller([Caller EXCEPT !.outcome = Top.outcome])
  /\ calls' = [Settled EXCEPT ![Caller.id].body = Top.outcome]
  /\ UNCHANGED <<program, globalVars, objectVars, runVars>>

\* A deferred closure returns: its value is dropped, its error is reported.
ReturnToCleanup ==
  /\ Ended /\ Len(stack) > 1
  /\ Caller.kind = "call" /\ Caller.outcome # Running
  /\ IF Top.outcome.tag = "ok"
       THEN stack' = Popped /\ calls' = Settled
       ELSE /\ stack' = WithCaller([Caller EXCEPT
                          !.outcome = ReportFailure(@, Top.outcome.diag)])
            /\ calls' = [Settled EXCEPT ![Caller.id].failures = Append(@, Top.outcome.diag)]
  /\ UNCHANGED <<program, globalVars, objectVars, runVars>>

\* An initialiser returns; an error ends the creation of the instance.
ReturnToInstance ==
  /\ Ended /\ Len(stack) > 1
  /\ Caller.kind = "instance"
  /\ IF Top.outcome.tag = "ok"
       THEN stack' = Popped
       ELSE stack' = WithCaller([Caller EXCEPT !.outcome = Top.outcome])
  /\ calls' = Settled
  /\ UNCHANGED <<program, globalVars, objectVars, runVars>>

\* The native stack is exhausted: the process aborts and runs no cleanup.
Overflow ==
  /\ Len(stack) > MaxDepth
  /\ stack' = <<>>
  /\ driver' = "aborted"
  /\ UNCHANGED <<program, globalVars, objectVars, nextSpec, diagnostics, verdicts, calls>>

-----------------------------------------------------------------------------
(* Interpreter::run and Interpreter::run_specs. *)

\* Mutant: the driver does not wait for the globals.
IdleOrBooting(at) == stack = <<>> /\ driver \in {at, "boot"}

Idle(at) == stack = <<>> /\ driver = at

\* The driver calls the function f with v and waits at `at`.
DriverCalls(f, v, at) ==
  /\ stack' = <<NewCall(f, v)>>
  /\ calls' = Append(calls, NewRecord(f, v))
  /\ driver' = at

\* ensure_globals
InitGlobals ==
  /\ Idle("boot")
  /\ IF program.globalInit = NoFunction
       THEN globalsReady' = TRUE /\ driver' = "idle" /\ UNCHANGED <<stack, calls>>
       ELSE DriverCalls(program.globalInit, DefaultValue, "globals") /\ UNCHANGED globalsReady
  /\ UNCHANGED <<program, globals, objectVars, nextSpec, diagnostics, verdicts>>

CallEntry ==
  /\ Idle("idle") /\ program.mode = "run"
  /\ DriverCalls(program.entry, DefaultValue, "entry")
  /\ UNCHANGED <<program, globalVars, objectVars, nextSpec, diagnostics, verdicts>>

NoSpecs ==
  /\ Idle("idle") /\ program.mode = "test" /\ program.specs = <<>>
  /\ driver' = "done"
  /\ diagnostics' = <<Raised(NoSite)>>
  /\ UNCHANGED <<program, stack, globalVars, objectVars, nextSpec, verdicts, calls>>

\* Mutant: the last spec is left out.
OneSpecLeft == nextSpec >= Len(program.specs)

NoSpecLeft == nextSpec > Len(program.specs)

AllSpecsRun ==
  /\ Idle("idle") /\ program.mode = "test" /\ program.specs # <<>> /\ NoSpecLeft
  /\ driver' = "done"
  /\ UNCHANGED <<program, stack, globalVars, objectVars, nextSpec, diagnostics, verdicts, calls>>

SpecPending == program.mode = "test" /\ nextSpec <= Len(program.specs)

\* instantiate_spec_receiver: a published object is the receiver as it is ...
StartSpec ==
  /\ Idle("idle") /\ SpecPending
  /\ LET spec == program.specs[nextSpec]
     IN /\ spec.type \in Objects
        /\ singletons[spec.type] # 0
        /\ DriverCalls(spec.it, ObjectRef(singletons[spec.type]), "spec")
        /\ served' = [served EXCEPT ![spec.type] = @ \cup {singletons[spec.type]}]
  /\ UNCHANGED <<program, globalVars, singletons, allocated, nextSpec, diagnostics, verdicts>>

\* ... any other receiver is created first.
CreateReceiver ==
  /\ Idle("idle") /\ SpecPending
  /\ Allocate(program.specs[nextSpec].type)
  /\ driver' = "receiver"
  /\ UNCHANGED <<program, globalVars, singletons, nextSpec, diagnostics, verdicts, calls, served>>

Reports(at) == Ended /\ Len(stack) = 1 /\ driver = at

GlobalsDone ==
  /\ Reports("globals")
  /\ stack' = <<>> /\ calls' = Settled
  /\ IF Top.outcome.tag = "ok"
       THEN globalsReady' = TRUE /\ driver' = "idle" /\ UNCHANGED diagnostics
       ELSE /\ diagnostics' = <<Top.outcome.diag>> /\ driver' = "done"
            /\ UNCHANGED globalsReady
  /\ UNCHANGED <<program, globals, objectVars, nextSpec, verdicts>>

EntryDone ==
  /\ Reports("entry")
  /\ stack' = <<>> /\ calls' = Settled
  /\ driver' = "done"
  /\ diagnostics' = IF Top.outcome.tag = "ok" THEN <<>> ELSE <<Top.outcome.diag>>
  /\ UNCHANGED <<program, globalVars, objectVars, nextSpec, verdicts>>

ReceiverReady ==
  /\ Reports("receiver") /\ Top.outcome.tag = "ok"
  /\ DriverCalls(program.specs[nextSpec].it, Top.outcome.value, "spec")
  /\ UNCHANGED <<program, globalVars, objectVars, nextSpec, diagnostics, verdicts>>

\* The verdict of a spec; a failure does not stop the specs after it.
SpecDone ==
  /\ \/ Reports("spec")
     \/ Reports("receiver") /\ Top.outcome.tag = "err"
  /\ stack' = <<>> /\ calls' = Settled
  /\ driver' = "idle" /\ nextSpec' = nextSpec + 1
  /\ IF Top.outcome.tag = "ok"
       THEN verdicts' = Append(verdicts, "PASS") /\ UNCHANGED diagnostics
       ELSE /\ verdicts' = Append(verdicts, "FAIL")
            /\ diagnostics' = Append(diagnostics, Top.outcome.diag)
  /\ UNCHANGED <<program, globalVars, objectVars>>

-----------------------------------------------------------------------------
Init ==
  /\ program \in Programs
  /\ stack = <<>>
  /\ globals = [g \in Globals |-> DefaultValue]
  /\ globalsReady = FALSE
  /\ singletons = [o \in Objects |-> 0]
  /\ allocated = 0
  /\ driver = "boot" /\ nextSpec = 1 /\ diagnostics = <<>> /\ verdicts = <<>>
  /\ calls = <<>>
  /\ served = [o \in Objects |-> {}]

BodyStep ==
  \/ ExecUse \/ ExecCall \/ ExecDefer \/ ExecFail
  \/ Goto \/ Switch \/ Return \/ EnterUnreachable

InstanceStep ==
  ReadSingleton \/ ExecInstance \/ RunFieldInit \/ RunNew \/ Publish

ReturnStep ==
  RunCleanup \/ ReturnValue \/ PropagateError \/ ReturnToCleanup \/ ReturnToInstance

DriverStep ==
  \/ InitGlobals \/ GlobalsDone \/ CallEntry \/ EntryDone
  \/ NoSpecs \/ AllSpecsRun \/ StartSpec \/ CreateReceiver \/ ReceiverReady \/ SpecDone

Next == BodyStep \/ InstanceStep \/ ReturnStep \/ DriverStep \/ Overflow

\* One thread runs the interpreter and is never blocked: it takes a step
\* whenever it has one.
Spec == Init /\ [][Next]_vars /\ WF_vars(Next)

-----------------------------------------------------------------------------
(* Properties. *)

Finished(c) == calls[c].outcome # Running

\* finish_callable_exit pops the deferred closures of a frame: whatever the body
\* registered, in whatever blocks, is attempted once, last registered first,
\* with the values captured at registration, never before the body has ended;
\* and no call returns, normally or with an error, while one is outstanding.
CleanupDiscipline ==
  \A c \in DOMAIN calls :
    LET r == calls[c]
    IN /\ Len(r.attempted) <= Len(r.registered)
       /\ \A i \in 1..Len(r.attempted) :
            r.attempted[i] = r.registered[Len(r.registered) + 1 - i]
       /\ r.body = Running => r.attempted = <<>>
       /\ Finished(c) => r.body # Running /\ Len(r.attempted) = Len(r.registered)

\* run and run_specs call ensure_globals first and give up when it fails: no
\* entry, spec or receiver runs before the initialiser of the globals has
\* returned successfully.
GlobalsFirst ==
  /\ driver \in {"idle", "entry", "receiver", "spec"} => globalsReady
  /\ globalsReady /\ program.globalInit # NoFunction =>
       calls # <<>> /\ calls[1].fn = program.globalInit /\ calls[1].outcome.tag = "ok"

\* lookup_singleton stores an object only after its initialisers: an object any
\* later lookup sees has had its fields and its constructor run to success.
PublishedIsInitialised ==
  \A o \in Objects : singletons[o] # 0 =>
    \A f \in {program.fieldInit[o], program.new[o]} \ {NoFunction} :
      \E c \in DOMAIN calls :
        /\ calls[c].fn = f
        /\ calls[c].arg = ObjectRef(singletons[o])
        /\ calls[c].outcome.tag = "ok"

\* The objects that the initialisers of a t may look up, when a function f may
\* look up needs[f].
InitialiserNeeds(pr, needs, t) ==
  UNION {needs[f] : f \in {pr.fieldInit[t], pr.new[t]} \ {NoFunction}}

\* needs covers what each function of the program looks up: itself, in what it
\* calls or defers, and in what it constructs; and no initialiser of an object
\* needs that object.
Covers(pr, needs) ==
  /\ \A f \in Functions : \A b \in DOMAIN pr.body[f] :
       \A i \in DOMAIN pr.body[f][b].stmts :
         LET s == pr.body[f][b].stmts[i]
         IN /\ s.op \in {"call", "defer"} => needs[s.fn] \subseteq needs[f]
            /\ s.op = "instance" =>
                 ({s.type} \cap Objects) \cup InitialiserNeeds(pr, needs, s.type) \subseteq needs[f]
  /\ \A o \in Objects : o \notin InitialiserNeeds(pr, needs, o)

\* No construction of an object can lead to a lookup of the same object, by the
\* call graph of the program alone.
NoReentry(pr) == \E needs \in [Functions -> SUBSET Objects] : Covers(pr, needs)

\* All completed lookups of an object return the same instance.
OneSharedObject == \A o \in Objects : Cardinality(served[o]) <= 1

\* run_specs judges every spec once, also after failures, and every failure
\* reported is the failure of a spec (or of the globals, or there were none).
EverySpecJudged ==
  program.mode = "test" /\ driver = "done" /\ globalsReady /\ program.specs # <<>> =>
    /\ Len(verdicts) = Len(program.specs)
    /\ Len(diagnostics) = Cardinality({i \in DOMAIN verdicts : verdicts[i] = "FAIL"})
    /\ \A i \in DOMAIN verdicts : verdicts[i] = "PASS" =>
         \E c \in DOMAIN calls :
           calls[c].fn = program.specs[i].it /\ calls[c].outcome.tag = "ok"

\* A run whose blocks do not loop for ever ends, with its report or aborted.
Terminates == <>(stack = <<>> /\ driver \in {"done", "aborted"})
=============================================================================
