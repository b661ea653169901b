------------------------- MODULE InterpreterProofs -------------------------
(* Proofs about Interpreter, for every set of lowered programs: its types, and
   that deferred cleanup runs once and in reverse order. *)
EXTENDS Interpreter, SequenceTheorems, TLAPS

-----------------------------------------------------------------------------
(* Lowered programs. *)

\* The frame f stands in a block of its function, at a statement or at the
\* terminator.
InCode(pr, f) ==
  f.kind = "call" =>
    /\ f.block \in 1..Len(pr.body[f.fn])
    /\ f.pc \in 1..(Len(pr.body[f.fn][f.block].stmts) + 1)

\* A body that is not innermost stands at the statement that called or creates.
Waits(pr, f) ==
  f.kind = "call" /\ f.outcome = Running =>
    /\ f.pc <= Len(pr.body[f.fn][f.block].stmts)
    /\ pr.body[f.fn][f.block].stmts[f.pc].op \in {"call", "instance"}

StackOK(pr, s) ==
  /\ s \in Seq(Activation)
  /\ \A i \in 1..Len(s) : InCode(pr, s[i])
  /\ \A i \in 1..(Len(s) - 1) : Waits(pr, s[i])

\* The blocks of a lowered program are blocks, and there is a first one.
LEMMA LoweredBody ==
  ASSUME NEW pr \in Programs, NEW f \in Functions
  PROVE  /\ pr \in Program
         /\ pr.body[f] \in Seq(Block)
         /\ Len(pr.body[f]) >= 1
         /\ \A b \in 1..Len(pr.body[f]) :
              /\ pr.body[f][b] \in Block
              /\ Targets(pr.body[f][b].term) \subseteq 1..Len(pr.body[f])
  <1>1. pr \in Program /\ ClosedBody(pr.body[f])
    BY ProgramsAreLowered
  <1>2. pr.body[f] \in Seq(Block)
    BY <1>1 DEF Program
  <1>3. DOMAIN pr.body[f] = 1..Len(pr.body[f]) /\ Len(pr.body[f]) \in Nat
    BY <1>2, LenProperties
  <1>4. Len(pr.body[f]) >= 1
    BY <1>1, <1>2, <1>3, EmptySeq DEF ClosedBody
  <1> QED
    BY <1>1, <1>2, <1>3, <1>4, ElementOfSeq DEF ClosedBody

-----------------------------------------------------------------------------
(* What the steps do to the stack keeps it well formed. *)

\* call_function and the creation of an instance put an activation on top.
LEMMA StackPush ==
  ASSUME NEW pr, NEW s, StackOK(pr, s), NEW f \in Activation, InCode(pr, f),
         s # <<>> => Waits(pr, s[Len(s)])
  PROVE  StackOK(pr, Append(s, f))
  <1>1. s \in Seq(Activation) /\ Len(s) \in Nat
    BY LenProperties DEF StackOK
  <1>2. /\ Append(s, f) \in Seq(Activation)
        /\ Len(Append(s, f)) = Len(s) + 1
        /\ \A i \in 1..Len(s) : Append(s, f)[i] = s[i]
        /\ Append(s, f)[Len(s) + 1] = f
    BY <1>1, AppendProperties
  <1>3. Len(s) # 0 => s # <<>>
    BY <1>1, EmptySeq
  <1>4. \A i \in 1..Len(s) : Waits(pr, s[i])
    BY <1>1, <1>3 DEF StackOK
  <1> QED
    BY <1>1, <1>2, <1>4 DEF StackOK

\* A step of the innermost activation replaces it.
LEMMA StackReplace ==
  ASSUME NEW pr, NEW s, StackOK(pr, s), s # <<>>, NEW f \in Activation, InCode(pr, f)
  PROVE  /\ StackOK(pr, [s EXCEPT ![Len(s)] = f])
         /\ Len([s EXCEPT ![Len(s)] = f]) = Len(s)
         /\ [s EXCEPT ![Len(s)] = f][Len(s)] = f
  <1> DEFINE t == [s EXCEPT ![Len(s)] = f]
  <1>1. s \in Seq(Activation) /\ Len(s) \in Nat \ {0}
    BY EmptySeq DEF StackOK
  <1>2. /\ t \in Seq(Activation)
        /\ Len(t) = Len(s)
        /\ \A i \in 1..Len(s) : t[i] = IF i = Len(s) THEN f ELSE s[i]
    BY <1>1, ExceptSeq
  <1> HIDE DEF t
  <1>3. StackOK(pr, t) /\ Len(t) = Len(s) /\ t[Len(s)] = f
    BY <1>1, <1>2 DEF StackOK
  <1> QED
    BY <1>3 DEF t

\* The front of a nonempty sequence.
LEMMA FrontOfSeq ==
  ASSUME NEW S, NEW s \in Seq(S), s # <<>>
  PROVE  /\ SubSeq(s, 1, Len(s) - 1) \in Seq(S)
         /\ Len(SubSeq(s, 1, Len(s) - 1)) = Len(s) - 1
         /\ \A i \in 1..(Len(s) - 1) : SubSeq(s, 1, Len(s) - 1)[i] = s[i]
  <1>1. PICK n \in Nat : n = Len(s) - 1
    BY EmptySeq
  <1>2. /\ SubSeq(s, 1, n) \in Seq(S)
        /\ Len(SubSeq(s, 1, n)) = n
        /\ \A i \in 1..n : SubSeq(s, 1, n)[i] = s[i]
    BY <1>1
  <1> QED
    BY <1>1, <1>2

\* The innermost activation returns.
LEMMA StackPop ==
  ASSUME NEW pr, NEW s, StackOK(pr, s), s # <<>>
  PROVE  /\ StackOK(pr, SubSeq(s, 1, Len(s) - 1))
         /\ Len(SubSeq(s, 1, Len(s) - 1)) = Len(s) - 1
         /\ \A i \in 1..(Len(s) - 1) : SubSeq(s, 1, Len(s) - 1)[i] = s[i]
  <1>1. s \in Seq(Activation) /\ Len(s) \in Nat \ {0}
    BY EmptySeq DEF StackOK
  <1>2. PICK t : t = SubSeq(s, 1, Len(s) - 1)
    OBVIOUS
  <1>3. t \in Seq(Activation) /\ Len(t) = Len(s) - 1 /\ \A i \in 1..(Len(s) - 1) : t[i] = s[i]
    BY <1>1, <1>2, FrontOfSeq
  <1>4. StackOK(pr, t)
    BY <1>1, <1>3 DEF StackOK
  <1> QED
    BY <1>2, <1>3, <1>4

\* The innermost activation returns and the one below it changes.
LEMMA StackReturn ==
  ASSUME NEW pr, NEW s, StackOK(pr, s), Len(s) > 1, NEW f \in Activation, InCode(pr, f)
  PROVE  StackOK(pr, [SubSeq(s, 1, Len(s) - 1) EXCEPT ![Len(s) - 1] = f])
  <1> DEFINE t == SubSeq(s, 1, Len(s) - 1)
  <1>1. s \in Seq(Activation) /\ Len(s) \in Nat /\ s # <<>>
    BY LenProperties, EmptySeq DEF StackOK
  <1>2. StackOK(pr, t) /\ Len(t) = Len(s) - 1
    BY <1>1, StackPop
  <1> HIDE DEF t
  <1>3. t # <<>>
    BY <1>1, <1>2, EmptySeq
  <1>4. StackOK(pr, [t EXCEPT ![Len(t)] = f])
    BY <1>2, <1>3, StackReplace
  <1> QED
    BY <1>2, <1>4 DEF t

-----------------------------------------------------------------------------
(* Typing of the operators. *)

\* While a spec runs, or its receiver is created, there is such a spec.
SpecInRange == driver \in {"receiver", "spec"} => nextSpec <= Len(program.specs)

\* The inductive invariant behind type correctness.
IInv == TypeOK /\ StackOK(program, stack) /\ SpecInRange

LEMMA CallOrInstance ==
  ASSUME NEW f \in Activation
  PROVE  /\ f.kind = "call" => f \in CallFrame
         /\ f.kind = "instance" => f \in InstanceFrame
         /\ f.kind \in {"call", "instance"}
         /\ f.outcome \in Outcome
  BY DEF Activation, CallFrame, InstanceFrame

\* A frame moves past a statement, jumps, or ends with an outcome.
LEMMA FrameOK ==
  ASSUME NEW f \in CallFrame
  PROVE  /\ \A l \in [Locals -> Value] :
              [f EXCEPT !.pc = @ + 1, !.locals = l] \in CallFrame
         /\ \A ds \in Seq(Closure) : [f EXCEPT !.pc = @ + 1, !.defers = ds] \in CallFrame
         /\ \A ds \in Seq(Closure) : [f EXCEPT !.defers = ds] \in CallFrame
         /\ \A b \in Nat : [f EXCEPT !.block = b, !.pc = 1] \in CallFrame
         /\ \A o \in Outcome : [f EXCEPT !.outcome = o] \in CallFrame
  <1>1. f.pc \in Nat /\ f.pc + 1 \in Nat
    BY DEF CallFrame
  <1>2. ASSUME NEW l \in [Locals -> Value]
        PROVE  [f EXCEPT !.pc = @ + 1, !.locals = l] \in CallFrame
    BY <1>1 DEF CallFrame
  <1>3. ASSUME NEW ds \in Seq(Closure)
        PROVE  [f EXCEPT !.pc = @ + 1, !.defers = ds] \in CallFrame
    BY <1>1 DEF CallFrame
  <1>4. ASSUME NEW ds \in Seq(Closure) PROVE [f EXCEPT !.defers = ds] \in CallFrame
    BY DEF CallFrame
  <1>5. ASSUME NEW b \in Nat PROVE [f EXCEPT !.block = b, !.pc = 1] \in CallFrame
    BY DEF CallFrame
  <1>6. ASSUME NEW o \in Outcome PROVE [f EXCEPT !.outcome = o] \in CallFrame
    BY DEF CallFrame
  <1> QED
    BY <1>2, <1>3, <1>4, <1>5, <1>6

LEMMA NewCallOK ==
  ASSUME IInv, NEW f \in Functions, NEW v \in Value
  PROVE  /\ NewCall(f, v) \in CallFrame
         /\ InCode(program, NewCall(f, v))
         /\ NewRecord(f, v) \in CallRecord
  <1>1. Len(calls) \in Nat
    BY LenProperties DEF IInv, TypeOK
  <1>2. program \in Programs
    BY DEF IInv, TypeOK
  <1>3. DefaultValue \in Value
    BY DEF DefaultValue, IntValue, Value
  <1>4. [x \in Locals |-> IF x = Param THEN v ELSE DefaultValue] \in [Locals -> Value]
    BY <1>3
  <1>5. Running \in Outcome
    BY DEF Outcome
  <1>6. <<>> \in Seq(Closure) /\ <<>> \in Seq(Diagnostic)
    BY EmptySeq
  <1>7. NewCall(f, v) \in CallFrame
    BY <1>1, <1>4, <1>5, <1>6 DEF NewCall, CallFrame
  <1>8. NewRecord(f, v) \in CallRecord
    BY <1>5, <1>6 DEF NewRecord, CallRecord
  <1>9. InCode(program, NewCall(f, v))
    <2>1. /\ Len(program.body[f]) \in Nat /\ Len(program.body[f]) >= 1
          /\ program.body[f][1] \in Block
      BY <1>2, LoweredBody, LenProperties
    <2>2. Len(program.body[f][1].stmts) \in Nat
      BY <2>1, LenProperties DEF Block
    <2> QED
      BY <2>1, <2>2 DEF InCode, NewCall
  <1> QED
    BY <1>7, <1>8, <1>9

LEMMA CodeOK ==
  ASSUME IInv, NEW f \in CallFrame, InCode(program, f)
  PROVE  /\ CurrentBlock(f) \in Block
         /\ Len(CurrentBlock(f).stmts) \in Nat
         /\ HasStatement(f) => CurrentStatement(f) \in Statement
         /\ CurrentBlock(f).term \in Terminator
         /\ Targets(CurrentBlock(f).term) \subseteq 1..Len(program.body[f.fn])
         /\ HereIn(f) \in Site
  <1>1. f.fn \in Functions /\ f.kind = "call" /\ f.block \in Nat /\ f.pc \in Nat
    BY DEF CallFrame
  <1>2. program \in Programs
    BY DEF IInv, TypeOK
  <1>3. f.block \in 1..Len(program.body[f.fn])
    BY <1>1 DEF InCode
  <1>4. /\ CurrentBlock(f) \in Block
        /\ Targets(CurrentBlock(f).term) \subseteq 1..Len(program.body[f.fn])
    BY <1>1, <1>2, <1>3, LoweredBody DEF CurrentBlock
  <1>5. /\ CurrentBlock(f).stmts \in Seq(Statement)
        /\ CurrentBlock(f).term \in Terminator
    BY <1>4 DEF Block
  <1>6. Len(CurrentBlock(f).stmts) \in Nat
    BY <1>5, LenProperties
  <1>7. ASSUME HasStatement(f) PROVE CurrentStatement(f) \in Statement
    <2>1. f.pc \in 1..Len(CurrentBlock(f).stmts)
      BY <1>1, <1>6, <1>7 DEF InCode, HasStatement, CurrentBlock
    <2> QED
      BY <1>5, <2>1, ElementOfSeq DEF CurrentStatement
  <1>8. HereIn(f) \in Site
    BY <1>1 DEF HereIn, Site
  <1> QED
    BY <1>4, <1>5, <1>6, <1>7, <1>8

LEMMA ReadOK ==
  ASSUME IInv, NEW f \in CallFrame, NEW x \in Operand
  PROVE  Read(f, x) \in Value
  <1>1. f.locals \in [Locals -> Value] /\ globals \in [Globals -> Value]
    BY DEF CallFrame, IInv, TypeOK
  <1>2. CASE x \in [kind : {"local"}, id : Locals]
    BY <1>1, <1>2 DEF Read
  <1>3. CASE x \in [kind : {"global"}, id : Globals]
    BY <1>1, <1>3 DEF Read
  <1>4. CASE x \in [kind : {"const"}, value : Value]
    BY <1>4 DEF Read
  <1> QED
    BY <1>2, <1>3, <1>4 DEF Operand, Place

LEMMA StoreOK ==
  ASSUME IInv, NEW f \in CallFrame, NEW x \in Place \cup {NoPlace}, NEW v \in Value
  PROVE  /\ LocalsWith(f, x, v) \in [Locals -> Value]
         /\ GlobalsWith(x, v) \in [Globals -> Value]
  <1>1. f.locals \in [Locals -> Value] /\ globals \in [Globals -> Value]
    BY DEF CallFrame, IInv, TypeOK
  <1>2. CASE x = NoPlace
    BY <1>1, <1>2 DEF LocalsWith, GlobalsWith
  <1>3. CASE x \in [kind : {"local"}, id : Locals]
    BY <1>1, <1>3 DEF LocalsWith, GlobalsWith
  <1>4. CASE x \in [kind : {"global"}, id : Globals]
    BY <1>1, <1>4 DEF LocalsWith, GlobalsWith
  <1> QED
    BY <1>2, <1>3, <1>4 DEF Place

LEMMA ReportOK ==
  ASSUME NEW o \in Outcome, o # Running, NEW d \in Diagnostic
  PROVE  /\ ReportFailure(o, d) \in Outcome
         /\ ReportFailure(o, d) # Running
  <1>1. d.at \in Site /\ d.notes \in Seq(Note)
    BY DEF Diagnostic
  <1>2. [kind |-> "deferred", at |-> NoSite, depth |-> 0] \in Note
    BY DEF Note, NoSite, Site
  <1>3. CleanupPrimary(d) \in Diagnostic
    BY <1>1, <1>2, AppendProperties DEF CleanupPrimary, Diagnostic
  <1>4. ASSUME NEW p \in Diagnostic PROVE AttachCleanupFailure(p, d) \in Diagnostic
    <2> DEFINE nested == [i \in DOMAIN d.notes |-> [d.notes[i] EXCEPT !.depth = @ + 1]]
               said == [kind |-> "failed", at |-> d.at, depth |-> 0]
    <2>1. p.at \in Site /\ p.notes \in Seq(Note)
      BY DEF Diagnostic
    <2>2. DOMAIN d.notes = 1..Len(d.notes) /\ Len(d.notes) \in Nat
      BY <1>1, LenProperties
    <2>3. ASSUME NEW i \in 1..Len(d.notes) PROVE [d.notes[i] EXCEPT !.depth = @ + 1] \in Note
      <3>1. d.notes[i] \in Note
        BY <1>1, ElementOfSeq
      <3> QED
        BY <3>1 DEF Note
    <2>4. nested \in [1..Len(d.notes) -> Note]
      BY <2>2, <2>3
    <2>5. nested \in Seq(Note)
      BY <2>2, <2>4, SeqDef
    <2>6. <<said>> \in Seq(Note)
      BY <1>1 DEF Note
    <2>7. (p.notes \o <<said>>) \o nested \in Seq(Note)
      BY <2>1, <2>5, <2>6, ConcatProperties
    <2> QED
      BY <2>1, <2>7 DEF AttachCleanupFailure, Diagnostic
  <1>5. o.tag = "err" => o.diag \in Diagnostic
    BY DEF Outcome, Running
  <1> QED
    BY <1>3, <1>4, <1>5 DEF ReportFailure, Err, Outcome, Running

-----------------------------------------------------------------------------
(* The activations a step looks at. *)

LEMMA TopOK ==
  ASSUME IInv, stack # <<>>
  PROVE  /\ Len(stack) \in Nat \ {0}
         /\ Top \in Activation
         /\ InCode(program, Top)
  BY EmptySeq, ElementOfSeq DEF IInv, StackOK, Top

LEMMA CallerOK ==
  ASSUME IInv, Len(stack) > 1
  PROVE  /\ stack # <<>>
         /\ Caller \in Activation
         /\ InCode(program, Caller)
         /\ Waits(program, Caller)
  <1>1. stack \in Seq(Activation) /\ Len(stack) \in Nat /\ stack # <<>>
    BY EmptySeq, LenProperties DEF IInv, StackOK
  <1>2. Len(stack) - 1 \in 1..Len(stack)
    BY <1>1
  <1> QED
    BY <1>1, <1>2, ElementOfSeq DEF IInv, StackOK, Caller

LEMMA InnermostNonempty ==
  ASSUME IInv, NEW kind, Innermost(kind)
  PROVE  stack # <<>> /\ Top.kind = kind
  BY EmptySeq DEF Innermost, IInv, StackOK

\* In its body the innermost call is a frame that stands in the code.
LEMMA InBodyOK ==
  ASSUME IInv, InBody
  PROVE  /\ stack # <<>>
         /\ Top \in CallFrame
         /\ InCode(program, Top)
         /\ Top.outcome = Running
  BY InnermostNonempty, TopOK, CallOrInstance DEF InBody

LEMMA WithTopOK ==
  ASSUME IInv, stack # <<>>, NEW f \in Activation, InCode(program, f)
  PROVE  StackOK(program, WithTop(f))
  BY StackReplace DEF IInv, WithTop

LEMMA PushOK ==
  ASSUME IInv, NEW f \in Activation, InCode(program, f),
         stack # <<>> => Waits(program, Top)
  PROVE  StackOK(program, Append(stack, f))
  BY StackPush DEF IInv, Top

\* A frame that makes way for a callee after it changed.
LEMMA WithTopPushOK ==
  ASSUME IInv, stack # <<>>, NEW f \in Activation, InCode(program, f), Waits(program, f),
         NEW c \in Activation, InCode(program, c)
  PROVE  StackOK(program, Append(WithTop(f), c))
  <1>1. PICK t : t = WithTop(f)
    OBVIOUS
  <1>2. StackOK(program, t) /\ Len(t) = Len(stack) /\ t[Len(stack)] = f
    BY <1>1, StackReplace DEF IInv, WithTop
  <1> QED
    BY <1>1, <1>2, StackPush

LEMMA PoppedOK ==
  ASSUME IInv, stack # <<>>
  PROVE  StackOK(program, Popped)
  BY StackPop DEF IInv, Popped

LEMMA WithCallerOK ==
  ASSUME IInv, Len(stack) > 1, NEW f \in Activation, InCode(program, f)
  PROVE  StackOK(program, WithCaller(f))
  BY StackReturn DEF IInv, WithCaller, Popped

LEMMA EmptyStackOK ==
  ASSUME NEW pr
  PROVE  StackOK(pr, <<>>)
  BY EmptySeq DEF StackOK

\* A step of the driver calls a function from an empty stack.
LEMMA SingleOK ==
  ASSUME NEW pr, NEW f \in Activation, InCode(pr, f)
  PROVE  StackOK(pr, <<f>>)
  <1>1. StackOK(pr, Append(<<>>, f))
    BY StackPush, EmptyStackOK
  <1>2. Append(<<>>, f) = <<f>>
    OBVIOUS
  <1> QED
    BY <1>1, <1>2

-----------------------------------------------------------------------------
(* The auxiliary records. *)

\* A record may change in any field of its type.
LEMMA RecordUpdate ==
  ASSUME NEW cs \in Seq(CallRecord), NEW id, NEW r, id \in 1..Len(cs) => r \in CallRecord
  PROVE  [cs EXCEPT ![id] = r] \in Seq(CallRecord)
  <1>1. DOMAIN cs = 1..Len(cs) /\ cs \in [1..Len(cs) -> CallRecord] /\ Len(cs) \in Nat
    BY LenProperties
  <1>2. [cs EXCEPT ![id] = r] \in [1..Len(cs) -> CallRecord]
    BY <1>1
  <1> QED
    BY <1>1, <1>2, SeqDef

LEMMA BodyOK ==
  ASSUME NEW cs \in Seq(CallRecord), NEW id, NEW o \in Outcome
  PROVE  [cs EXCEPT ![id].body = o] \in Seq(CallRecord)
  <1>1. ASSUME id \in 1..Len(cs) PROVE [cs[id] EXCEPT !.body = o] \in CallRecord
    <2>1. cs[id] \in CallRecord
      BY <1>1, ElementOfSeq
    <2> QED
      BY <2>1 DEF CallRecord
  <1> QED
    BY <1>1, RecordUpdate

LEMMA OutcomeOK ==
  ASSUME NEW cs \in Seq(CallRecord), NEW id, NEW o \in Outcome
  PROVE  [cs EXCEPT ![id].outcome = o] \in Seq(CallRecord)
  <1>1. ASSUME id \in 1..Len(cs) PROVE [cs[id] EXCEPT !.outcome = o] \in CallRecord
    <2>1. cs[id] \in CallRecord
      BY <1>1, ElementOfSeq
    <2> QED
      BY <2>1 DEF CallRecord
  <1> QED
    BY <1>1, RecordUpdate

LEMMA RegisteredOK ==
  ASSUME NEW cs \in Seq(CallRecord), NEW id, NEW c \in Closure
  PROVE  [cs EXCEPT ![id].registered = Append(@, c)] \in Seq(CallRecord)
  <1>1. ASSUME id \in 1..Len(cs) PROVE [cs[id] EXCEPT !.registered = Append(@, c)] \in CallRecord
    <2>1. cs[id] \in CallRecord
      BY <1>1, ElementOfSeq
    <2>2. Append(cs[id].registered, c) \in Seq(Closure)
      BY <2>1, AppendProperties DEF CallRecord
    <2> QED
      BY <2>1, <2>2 DEF CallRecord
  <1> QED
    BY <1>1, RecordUpdate

LEMMA AttemptedOK ==
  ASSUME NEW cs \in Seq(CallRecord), NEW id, NEW c \in Closure
  PROVE  [cs EXCEPT ![id].attempted = Append(@, c)] \in Seq(CallRecord)
  <1>1. ASSUME id \in 1..Len(cs) PROVE [cs[id] EXCEPT !.attempted = Append(@, c)] \in CallRecord
    <2>1. cs[id] \in CallRecord
      BY <1>1, ElementOfSeq
    <2>2. Append(cs[id].attempted, c) \in Seq(Closure)
      BY <2>1, AppendProperties DEF CallRecord
    <2> QED
      BY <2>1, <2>2 DEF CallRecord
  <1> QED
    BY <1>1, RecordUpdate

LEMMA FailuresOK ==
  ASSUME NEW cs \in Seq(CallRecord), NEW id, NEW d \in Diagnostic
  PROVE  [cs EXCEPT ![id].failures = Append(@, d)] \in Seq(CallRecord)
  <1>1. ASSUME id \in 1..Len(cs) PROVE [cs[id] EXCEPT !.failures = Append(@, d)] \in CallRecord
    <2>1. cs[id] \in CallRecord
      BY <1>1, ElementOfSeq
    <2>2. Append(cs[id].failures, d) \in Seq(Diagnostic)
      BY <2>1, AppendProperties DEF CallRecord
    <2> QED
      BY <2>1, <2>2 DEF CallRecord
  <1> QED
    BY <1>1, RecordUpdate

\* Recording how the innermost call ended keeps the records well typed.
LEMMA SettledOK ==
  ASSUME IInv, stack # <<>>
  PROVE  Settled \in Seq(CallRecord)
  <1>1. Top.outcome \in Outcome
    BY TopOK, CallOrInstance
  <1>2. calls \in Seq(CallRecord)
    BY DEF IInv, TypeOK
  <1>3. [calls EXCEPT ![Top.id].outcome = Top.outcome] \in Seq(CallRecord)
    BY <1>1, <1>2, OutcomeOK
  <1> QED
    BY <1>2, <1>3 DEF Settled

-----------------------------------------------------------------------------
(* Each step preserves IInv: the steps of a body. *)

LEMMA ExecUseOK == ASSUME IInv, ExecUse PROVE IInv'
  <1> DEFINE s == CurrentStatement(Top)
             v == Read(Top, s.arg)
             f == [Top EXCEPT !.pc = @ + 1, !.locals = LocalsWith(Top, s.dst, v)]
  <1>1. stack # <<>> /\ Top \in CallFrame /\ InCode(program, Top)
    BY InBodyOK DEF ExecUse, AtStatement
  <1>2. HasStatement(Top) /\ s \in Statement /\ s.op = "use"
    BY <1>1, CodeOK DEF ExecUse, AtStatement
  <1>3. s.dst \in Place /\ s.arg \in Operand
    BY <1>2 DEF Statement
  <1>4. v \in Value
    BY <1>1, <1>3, ReadOK
  <1>5. /\ LocalsWith(Top, s.dst, v) \in [Locals -> Value]
        /\ GlobalsWith(s.dst, v) \in [Globals -> Value]
    BY <1>1, <1>3, <1>4, StoreOK
  <1>6. f \in CallFrame
    BY <1>1, <1>5, FrameOK
  <1>7. InCode(program, f)
    BY <1>1, <1>2, CodeOK DEF CallFrame, InCode, HasStatement, CurrentBlock
  <1>8. StackOK(program, WithTop(f))
    BY <1>1, <1>6, <1>7, WithTopOK DEF Activation
  <1>9. stack' = WithTop(f) /\ globals' = GlobalsWith(s.dst, v)
    BY DEF ExecUse
  <1> QED
    BY <1>5, <1>8, <1>9 DEF IInv, TypeOK, StackOK, SpecInRange, ExecUse, objectVars, runVars

LEMMA ExecCallOK == ASSUME IInv, ExecCall PROVE IInv'
  <1> DEFINE s == CurrentStatement(Top)
             v == Read(Top, s.arg)
  <1>1. stack # <<>> /\ Top \in CallFrame /\ InCode(program, Top)
    BY InBodyOK DEF ExecCall, AtStatement
  <1>2. HasStatement(Top) /\ s \in Statement /\ s.op = "call"
    BY <1>1, CodeOK DEF ExecCall, AtStatement
  <1>3. s.fn \in Functions /\ s.arg \in Operand
    BY <1>2 DEF Statement
  <1>4. v \in Value
    BY <1>1, <1>3, ReadOK
  <1>5. /\ NewCall(s.fn, v) \in CallFrame
        /\ InCode(program, NewCall(s.fn, v))
        /\ NewRecord(s.fn, v) \in CallRecord
    BY <1>3, <1>4, NewCallOK
  <1>6. Waits(program, Top)
    BY <1>2 DEF Waits, HasStatement, CurrentStatement, CurrentBlock
  <1>7. StackOK(program, Append(stack, NewCall(s.fn, v)))
    BY <1>5, <1>6, PushOK DEF Activation
  <1>8. Append(calls, NewRecord(s.fn, v)) \in Seq(CallRecord)
    BY <1>5, AppendProperties DEF IInv, TypeOK
  <1>9. stack' = Append(stack, NewCall(s.fn, v)) /\ calls' = Append(calls, NewRecord(s.fn, v))
    BY DEF ExecCall
  <1> QED
    BY <1>7, <1>8, <1>9 DEF IInv, TypeOK, StackOK, SpecInRange, ExecCall, globalVars, objectVars, runVars

LEMMA ExecDeferOK == ASSUME IInv, ExecDefer PROVE IInv'
  <1> DEFINE s == CurrentStatement(Top)
             c == [fn |-> s.fn, arg |-> Read(Top, s.arg)]
             f == [Top EXCEPT !.pc = @ + 1, !.defers = Append(@, c)]
  <1>1. stack # <<>> /\ Top \in CallFrame /\ InCode(program, Top)
    BY InBodyOK DEF ExecDefer, AtStatement
  <1>2. HasStatement(Top) /\ s \in Statement /\ s.op = "defer"
    BY <1>1, CodeOK DEF ExecDefer, AtStatement
  <1>3. s.fn \in Functions /\ s.arg \in Operand
    BY <1>2 DEF Statement
  <1>4. c \in Closure
    BY <1>1, <1>3, ReadOK DEF Closure
  <1>5. Append(Top.defers, c) \in Seq(Closure)
    BY <1>1, <1>4, AppendProperties DEF CallFrame
  <1>6. f \in CallFrame
    BY <1>1, <1>5, FrameOK
  <1>7. InCode(program, f)
    BY <1>1, <1>2, CodeOK DEF CallFrame, InCode, HasStatement, CurrentBlock
  <1>8. StackOK(program, WithTop(f))
    BY <1>1, <1>6, <1>7, WithTopOK DEF Activation
  <1>9. [calls EXCEPT ![Top.id].registered = Append(@, c)] \in Seq(CallRecord)
    BY <1>4, RegisteredOK DEF IInv, TypeOK
  <1>10. /\ stack' = WithTop(f)
         /\ calls' = [calls EXCEPT ![Top.id].registered = Append(@, c)]
    BY DEF ExecDefer
  <1> QED
    BY <1>8, <1>9, <1>10 DEF IInv, TypeOK, StackOK, SpecInRange, ExecDefer, globalVars, objectVars, runVars

LEMMA EndBodyOK ==
  ASSUME IInv, InBody, NEW o \in Outcome, o # Running, EndBody(o)
  PROVE  IInv'
  <1> DEFINE f == [Top EXCEPT !.outcome = o]
  <1>1. stack # <<>> /\ Top \in CallFrame /\ InCode(program, Top)
    BY InBodyOK
  <1>2. f \in CallFrame /\ InCode(program, f)
    BY <1>1 DEF CallFrame, InCode
  <1>3. StackOK(program, WithTop(f))
    BY <1>1, <1>2, WithTopOK DEF Activation
  <1>4. [calls EXCEPT ![Top.id].body = o] \in Seq(CallRecord)
    BY BodyOK DEF IInv, TypeOK
  <1>5. stack' = WithTop(f) /\ calls' = [calls EXCEPT ![Top.id].body = o]
    BY DEF EndBody
  <1> QED
    BY <1>3, <1>4, <1>5 DEF IInv, TypeOK, StackOK, SpecInRange, EndBody, globalVars, objectVars, runVars

LEMMA JumpOK ==
  ASSUME IInv, InBody, NEW b \in 1..Len(program.body[Top.fn]), JumpTo(b)
  PROVE  IInv'
  <1> DEFINE f == [Top EXCEPT !.block = b, !.pc = 1]
  <1>1. stack # <<>> /\ Top \in CallFrame /\ InCode(program, Top)
    BY InBodyOK
  <1>2. program \in Programs /\ Top.fn \in Functions
    BY <1>1 DEF IInv, TypeOK, CallFrame
  <1>3. /\ Len(program.body[Top.fn]) \in Nat
        /\ Len(program.body[Top.fn][b].stmts) \in Nat
    BY <1>2, LoweredBody, LenProperties DEF Block
  <1>4. f \in CallFrame
    <2>1. b \in Nat
      BY <1>3
    <2> QED
      BY <1>1, <2>1, FrameOK
  <1>5. f.fn = Top.fn /\ f.block = b /\ f.pc = 1
    BY <1>1 DEF CallFrame
  <1> HIDE DEF f
  <1>6. InCode(program, f)
    <2>1. 1 \in 1..(Len(program.body[Top.fn][b].stmts) + 1)
      <3>1. \A n \in Nat : 1 \in 1..(n + 1)
        OBVIOUS
      <3> QED
        BY <1>3, <3>1
    <2>2. program.body[f.fn] = program.body[Top.fn]
      BY <1>5
    <2>3. f.block \in 1..Len(program.body[f.fn])
      BY <1>5, <2>2
    <2>4. program.body[f.fn][f.block] = program.body[Top.fn][b]
      BY <1>5, <2>2
    <2>5. f.pc \in 1..(Len(program.body[f.fn][f.block].stmts) + 1)
      BY <1>5, <2>1, <2>4
    <2> QED
      BY <2>3, <2>5 DEF InCode
  <1>7. StackOK(program, WithTop(f))
    BY <1>1, <1>4, <1>6, WithTopOK DEF Activation
  <1> QED
    BY <1>7 DEF f, IInv, TypeOK, StackOK, SpecInRange, JumpTo, globalVars, objectVars, runVars

LEMMA BodyStepOK == ASSUME IInv, BodyStep PROVE IInv'
  <1>1. CASE ExecUse
    BY <1>1, ExecUseOK
  <1>2. CASE ExecCall
    BY <1>2, ExecCallOK
  <1>3. CASE ExecDefer
    BY <1>3, ExecDeferOK
  <1>4. ASSUME InBody PROVE Err(Raised(HereIn(Top))) \in Outcome \ {Running}
    <2>1. HereIn(Top) \in Site
      BY <1>4, InBodyOK, CodeOK
    <2>2. Raised(HereIn(Top)) \in Diagnostic
      BY <2>1, EmptySeq DEF Raised, Diagnostic
    <2> QED
      BY <2>2 DEF Err, Outcome, Running
  <1>5. CASE ExecFail
    BY <1>4, <1>5, EndBodyOK DEF ExecFail, AtStatement
  <1>6. CASE EnterUnreachable
    BY <1>4, <1>6, EndBodyOK DEF EnterUnreachable, AtTerminator
  <1>7. CASE Return
    <2>1. InBody /\ CurrentBlock(Top).term \in Terminator /\ CurrentBlock(Top).term.op = "return"
      BY <1>7, InBodyOK, CodeOK DEF Return, AtTerminator
    <2>2. CurrentBlock(Top).term.arg \in Operand
      BY <2>1 DEF Terminator
    <2>3. Read(Top, CurrentBlock(Top).term.arg) \in Value
      BY <2>1, <2>2, InBodyOK, ReadOK
    <2>4. Ok(Read(Top, CurrentBlock(Top).term.arg)) \in Outcome \ {Running}
      BY <2>3 DEF Ok, Outcome, Running
    <2> QED
      BY <1>7, <2>1, <2>4, EndBodyOK DEF Return
  <1>8. CASE Goto
    <2>1. InBody /\ CurrentBlock(Top).term.op = "goto"
      BY <1>8 DEF Goto, AtTerminator
    <2>2. CurrentBlock(Top).term.target \in 1..Len(program.body[Top.fn])
      BY <2>1, InBodyOK, CodeOK DEF Targets
    <2> QED
      BY <1>8, <2>1, <2>2, JumpOK DEF Goto
  <1>9. CASE Switch
    <2> DEFINE t == CurrentBlock(Top).term
    <2>1. InBody /\ t.op = "switch"
      BY <1>9 DEF Switch, AtTerminator
    <2>2. {t.default} \cup {t.cases[i].target : i \in DOMAIN t.cases}
            \subseteq 1..Len(program.body[Top.fn])
      BY <2>1, InBodyOK, CodeOK DEF Targets
    <2>3. \E b \in 1..Len(program.body[Top.fn]) : JumpTo(b)
      <3> HIDE DEF JumpTo
      <3> QED BY <1>9, <2>2 DEF Switch
    <2> QED
      BY <2>1, <2>3, JumpOK
  <1> QED
    BY <1>1, <1>2, <1>3, <1>5, <1>6, <1>7, <1>8, <1>9 DEF BodyStep

-----------------------------------------------------------------------------
(* The steps of an instance under construction. *)

LEMMA NewInstanceOK ==
  ASSUME IInv, NEW t \in Types
  PROVE  NewInstance(t) \in InstanceFrame /\ InCode(program, NewInstance(t))
  BY DEF IInv, TypeOK, NewInstance, InstanceFrame, Outcome, InCode

LEMMA InstanceFrameOK ==
  ASSUME NEW f \in InstanceFrame
  PROVE  /\ \A st \in {"new", "publish"} : [f EXCEPT !.stage = st] \in InstanceFrame
         /\ \A o \in Outcome : [f EXCEPT !.outcome = o] \in InstanceFrame
  BY DEF InstanceFrame

LEMMA ReadSingletonOK == ASSUME IInv, ReadSingleton PROVE IInv'
  <1> DEFINE s == CurrentStatement(Top)
             v == ObjectRef(singletons[s.type])
             f == [Top EXCEPT !.pc = @ + 1, !.locals = LocalsWith(Top, s.dst, v)]
  <1>1. stack # <<>> /\ Top \in CallFrame /\ InCode(program, Top)
    BY InBodyOK DEF ReadSingleton, AtStatement
  <1>2. HasStatement(Top) /\ s \in Statement /\ s.op = "instance"
    BY <1>1, CodeOK DEF ReadSingleton, AtStatement
  <1>3. s.dst \in Place /\ s.type \in Objects
    BY <1>2 DEF Statement, ReadSingleton
  <1>4. singletons[s.type] \in Nat
    BY <1>3 DEF IInv, TypeOK
  <1>5. v \in Value
    BY <1>4 DEF ObjectRef, Value
  <1>6. /\ LocalsWith(Top, s.dst, v) \in [Locals -> Value]
        /\ GlobalsWith(s.dst, v) \in [Globals -> Value]
    BY <1>1, <1>3, <1>5, StoreOK
  <1>7. f \in CallFrame
    BY <1>1, <1>6, FrameOK
  <1>8. InCode(program, f)
    BY <1>1, <1>2, CodeOK DEF CallFrame, InCode, HasStatement, CurrentBlock
  <1>9. StackOK(program, WithTop(f))
    BY <1>1, <1>7, <1>8, WithTopOK DEF Activation
  <1>10. [served EXCEPT ![s.type] = @ \cup {singletons[s.type]}] \in [Objects -> SUBSET Nat]
    BY <1>3, <1>4 DEF IInv, TypeOK
  <1>11. /\ stack' = WithTop(f) /\ globals' = GlobalsWith(s.dst, v)
         /\ served' = [served EXCEPT ![s.type] = @ \cup {singletons[s.type]}]
    BY DEF ReadSingleton
  <1> QED
    BY <1>6, <1>9, <1>10, <1>11 DEF IInv, TypeOK, StackOK, SpecInRange, ReadSingleton, runVars

LEMMA ExecInstanceOK == ASSUME IInv, ExecInstance PROVE IInv'
  <1> DEFINE s == CurrentStatement(Top)
  <1>1. stack # <<>> /\ Top \in CallFrame /\ InCode(program, Top)
    BY InBodyOK DEF ExecInstance, AtStatement
  <1>2. HasStatement(Top) /\ s \in Statement /\ s.op = "instance"
    BY <1>1, CodeOK DEF ExecInstance, AtStatement
  <1>3. s.type \in Types
    BY <1>2 DEF Statement
  <1>4. Waits(program, Top)
    BY <1>2 DEF Waits, HasStatement, CurrentStatement, CurrentBlock
  <1>5. StackOK(program, Append(stack, NewInstance(s.type)))
    BY <1>3, <1>4, NewInstanceOK, PushOK DEF Activation
  <1>6. stack' = Append(stack, NewInstance(s.type)) /\ allocated' = allocated + 1
    BY DEF ExecInstance, Allocate
  <1> QED
    BY <1>5, <1>6 DEF IInv, TypeOK, StackOK, SpecInRange, ExecInstance, globalVars, runVars

LEMMA BuildingOK ==
  ASSUME IInv, NEW st, Building(st)
  PROVE  /\ stack # <<>>
         /\ Top \in InstanceFrame
         /\ InCode(program, Top)
  BY InnermostNonempty, TopOK, CallOrInstance DEF Building

LEMMA InitialiseOK ==
  ASSUME IInv, stack # <<>>, Top \in InstanceFrame,
         NEW g \in Functions \cup {NoFunction}, NEW st \in {"new", "publish"},
         Initialise(g, st)
  PROVE  IInv'
  <1> DEFINE f == [Top EXCEPT !.stage = st]
             v == ObjectRef(Top.inst)
  <1>1. f \in InstanceFrame
    BY InstanceFrameOK
  <1>2. InCode(program, f) /\ Waits(program, f)
    BY <1>1 DEF InstanceFrame, InCode, Waits
  <1>3. v \in Value
    BY DEF InstanceFrame, ObjectRef, Value
  <1>4. StackOK(program, WithTop(f))
    BY <1>1, <1>2, WithTopOK DEF Activation
  <1>5. CASE g = NoFunction
    <2>1. stack' = WithTop(f) /\ calls' = calls
      BY <1>5 DEF Initialise
    <2> QED
      BY <1>4, <2>1 DEF IInv, TypeOK, StackOK, SpecInRange, Initialise, globalVars, objectVars, runVars
  <1>6. CASE g # NoFunction
    <2>1. g \in Functions
      BY <1>6
    <2>2. /\ NewCall(g, v) \in Activation
          /\ InCode(program, NewCall(g, v))
          /\ NewRecord(g, v) \in CallRecord
      BY <1>3, <2>1, NewCallOK DEF Activation
    <2>3. StackOK(program, Append(WithTop(f), NewCall(g, v)))
      BY <1>1, <1>2, <2>2, WithTopPushOK DEF Activation
    <2>4. Append(calls, NewRecord(g, v)) \in Seq(CallRecord)
      BY <2>2, AppendProperties DEF IInv, TypeOK
    <2>5. /\ stack' = Append(WithTop(f), NewCall(g, v))
          /\ calls' = Append(calls, NewRecord(g, v))
      BY <1>6 DEF Initialise
    <2> QED
      BY <2>3, <2>4, <2>5 DEF IInv, TypeOK, StackOK, SpecInRange, Initialise, globalVars, objectVars, runVars
  <1> QED
    BY <1>5, <1>6

LEMMA PublishOK == ASSUME IInv, Publish PROVE IInv'
  <1> DEFINE o == Ok(ObjectRef(Top.inst))
             f == [Top EXCEPT !.outcome = o]
  <1>1. stack # <<>> /\ Top \in InstanceFrame
    BY BuildingOK DEF Publish
  <1>2. Top.inst \in Nat /\ Top.type \in Types
    BY <1>1 DEF InstanceFrame
  <1>3. o \in Outcome
    BY <1>2 DEF Ok, ObjectRef, Value, Outcome
  <1>4. f \in InstanceFrame
    BY <1>1, <1>3, InstanceFrameOK
  <1>5. InCode(program, f)
    BY <1>4 DEF InstanceFrame, InCode
  <1>6. StackOK(program, WithTop(f))
    BY <1>1, <1>4, <1>5, WithTopOK DEF Activation
  <1>7. singletons' \in [Objects -> Nat] /\ served' \in [Objects -> SUBSET Nat]
    <2>1. singletons \in [Objects -> Nat] /\ served \in [Objects -> SUBSET Nat]
      BY DEF IInv, TypeOK
    <2>2. CASE Top.type \in Objects
      <3>1. /\ singletons' = [singletons EXCEPT ![Top.type] = Top.inst]
            /\ served' = [served EXCEPT ![Top.type] = @ \cup {Top.inst}]
        BY <2>2 DEF Publish
      <3> QED
        BY <1>2, <2>1, <2>2, <3>1
    <2>3. CASE Top.type \notin Objects
      BY <2>1, <2>3 DEF Publish
    <2> QED
      BY <2>2, <2>3
  <1>8. stack' = WithTop(f)
    BY DEF Publish
  <1> QED
    BY <1>6, <1>7, <1>8 DEF IInv, TypeOK, StackOK, SpecInRange, Publish, globalVars, runVars

LEMMA InstanceStepOK == ASSUME IInv, InstanceStep PROVE IInv'
  <1>1. program \in Program
    BY LoweredBody, ProgramsAreLowered DEF IInv, TypeOK
  <1>2. CASE RunFieldInit
    <2>1. stack # <<>> /\ Top \in InstanceFrame
      BY <1>2, BuildingOK DEF RunFieldInit
    <2>2. program.fieldInit[Top.type] \in Functions \cup {NoFunction}
      BY <1>1, <2>1 DEF Program, InstanceFrame
    <2> QED
      BY <1>2, <2>1, <2>2, InitialiseOK DEF RunFieldInit
  <1>3. CASE RunNew
    <2>1. stack # <<>> /\ Top \in InstanceFrame
      BY <1>3, BuildingOK DEF RunNew
    <2>2. program.new[Top.type] \in Functions \cup {NoFunction}
      BY <1>1, <2>1 DEF Program, InstanceFrame
    <2> QED
      BY <1>3, <2>1, <2>2, InitialiseOK DEF RunNew
  <1> QED
    BY <1>2, <1>3, ReadSingletonOK, ExecInstanceOK, PublishOK DEF InstanceStep

-----------------------------------------------------------------------------
(* Cleanup and the return of a result. *)

LEMMA RunCleanupOK == ASSUME IInv, RunCleanup PROVE IInv'
  <1> DEFINE c == LastDefer(Top.defers)
             rest == SubSeq(Top.defers, 1, Len(Top.defers) - 1)
             f == [Top EXCEPT !.defers = rest]
  <1>1. stack # <<>> /\ Top \in CallFrame /\ InCode(program, Top) /\ Top.outcome # Running
    BY InnermostNonempty, TopOK, CallOrInstance DEF RunCleanup, Unwinding
  <1>2. Top.defers \in Seq(Closure) /\ Top.defers # <<>>
    BY <1>1 DEF CallFrame, RunCleanup
  <1>3. c \in Closure
    BY <1>2, EmptySeq, ElementOfSeq DEF LastDefer
  <1>4. rest \in Seq(Closure)
    BY <1>2, FrontOfSeq
  <1>5. f \in CallFrame
    BY <1>1, <1>4, FrameOK
  <1>6. InCode(program, f) /\ Waits(program, f)
    BY <1>1 DEF CallFrame, InCode, Waits
  <1>7. c.fn \in Functions /\ c.arg \in Value
    BY <1>3 DEF Closure
  <1>8. /\ NewCall(c.fn, c.arg) \in Activation
        /\ InCode(program, NewCall(c.fn, c.arg))
        /\ NewRecord(c.fn, c.arg) \in CallRecord
    BY <1>7, NewCallOK DEF Activation
  <1>9. StackOK(program, Append(WithTop(f), NewCall(c.fn, c.arg)))
    BY <1>1, <1>5, <1>6, <1>8, WithTopPushOK DEF Activation
  <1>10. [calls EXCEPT ![Top.id].attempted = Append(@, c)] \in Seq(CallRecord)
    BY <1>3, AttemptedOK DEF IInv, TypeOK
  <1>11. /\ stack' = Append(WithTop(f), NewCall(c.fn, c.arg))
         /\ calls' = Append([calls EXCEPT ![Top.id].attempted = Append(@, c)],
                            NewRecord(c.fn, c.arg))
    BY DEF RunCleanup
  <1>12. calls' \in Seq(CallRecord)
    BY <1>8, <1>10, <1>11, AppendProperties
  <1> QED
    BY <1>9, <1>11, <1>12 DEF IInv, TypeOK, StackOK, SpecInRange, RunCleanup, globalVars, objectVars, runVars

\* An activation that returns has an outcome to return.
LEMMA EndedOK ==
  ASSUME IInv, Ended
  PROVE  /\ stack # <<>>
         /\ Top.outcome \in Outcome \ {Running}
         /\ Top.outcome.tag = "ok" => Top.outcome.value \in Value
         /\ Top.outcome.tag # "ok" => Top.outcome.diag \in Diagnostic
  <1>1. stack # <<>> /\ Top.outcome \in Outcome \ {Running}
    BY InnermostNonempty, TopOK, CallOrInstance DEF Ended, Unwinding
  <1> QED
    BY <1>1 DEF Outcome, Running

LEMMA ReturnValueOK == ASSUME IInv, ReturnValue PROVE IInv'
  <1> DEFINE s == CurrentStatement(Caller)
             v == Top.outcome.value
             f == [Caller EXCEPT !.pc = @ + 1, !.locals = LocalsWith(Caller, s.dst, v)]
  <1>1. Len(stack) > 1 /\ Caller.kind = "call" /\ Caller.outcome = Running /\ v \in Value
    BY EndedOK DEF ReturnValue
  <1>2. Caller \in CallFrame /\ InCode(program, Caller) /\ Waits(program, Caller) /\ stack # <<>>
    BY <1>1, CallerOK, CallOrInstance
  <1>3. HasStatement(Caller) /\ s.op \in {"call", "instance"}
    BY <1>1, <1>2 DEF Waits, HasStatement, CurrentStatement, CurrentBlock
  <1>4. s \in Statement
    BY <1>2, <1>3, CodeOK
  <1>5. s.dst \in Place \cup {NoPlace}
    BY <1>3, <1>4 DEF Statement
  <1>6. /\ LocalsWith(Caller, s.dst, v) \in [Locals -> Value]
        /\ GlobalsWith(s.dst, v) \in [Globals -> Value]
    BY <1>1, <1>2, <1>5, StoreOK
  <1>7. f \in CallFrame
    BY <1>2, <1>6, FrameOK
  <1>8. InCode(program, f)
    BY <1>2, <1>3, CodeOK DEF CallFrame, InCode, HasStatement, CurrentBlock
  <1>9. StackOK(program, WithCaller(f))
    BY <1>1, <1>7, <1>8, WithCallerOK DEF Activation
  <1>10. Settled \in Seq(CallRecord)
    BY <1>2, SettledOK
  <1>11. stack' = WithCaller(f) /\ globals' = GlobalsWith(s.dst, v) /\ calls' = Settled
    BY DEF ReturnValue
  <1> QED
    BY <1>6, <1>9, <1>10, <1>11 DEF IInv, TypeOK, StackOK, SpecInRange, ReturnValue, objectVars, runVars

LEMMA PropagateErrorOK == ASSUME IInv, PropagateError PROVE IInv'
  <1> DEFINE f == [Caller EXCEPT !.outcome = Top.outcome]
  <1>1. Len(stack) > 1 /\ Caller.kind = "call" /\ Top.outcome \in Outcome
    BY EndedOK DEF PropagateError
  <1>2. Caller \in CallFrame /\ InCode(program, Caller) /\ stack # <<>>
    BY <1>1, CallerOK, CallOrInstance
  <1>3. f \in CallFrame
    BY <1>1, <1>2, FrameOK
  <1>4. InCode(program, f)
    BY <1>2 DEF CallFrame, InCode
  <1>5. StackOK(program, WithCaller(f))
    BY <1>1, <1>3, <1>4, WithCallerOK DEF Activation
  <1>6. [Settled EXCEPT ![Caller.id].body = Top.outcome] \in Seq(CallRecord)
    BY <1>1, <1>2, SettledOK, BodyOK
  <1>7. stack' = WithCaller(f) /\ calls' = [Settled EXCEPT ![Caller.id].body = Top.outcome]
    BY DEF PropagateError
  <1> QED
    BY <1>5, <1>6, <1>7 DEF IInv, TypeOK, StackOK, SpecInRange, PropagateError, globalVars, objectVars, runVars

LEMMA ReturnToCleanupOK == ASSUME IInv, ReturnToCleanup PROVE IInv'
  <1> DEFINE d == Top.outcome.diag
             f == [Caller EXCEPT !.outcome = ReportFailure(@, d)]
  <1>1. /\ Len(stack) > 1 /\ stack # <<>>
        /\ Caller.kind = "call" /\ Caller.outcome # Running
    BY EndedOK DEF ReturnToCleanup
  <1>2. Caller \in CallFrame /\ InCode(program, Caller) /\ Caller.outcome \in Outcome
    BY <1>1, CallerOK, CallOrInstance
  <1>3. Settled \in Seq(CallRecord)
    BY <1>1, SettledOK
  <1>4. CASE Top.outcome.tag = "ok"
    <2>1. stack' = Popped /\ calls' = Settled
      BY <1>4 DEF ReturnToCleanup
    <2>2. StackOK(program, Popped)
      BY <1>1, PoppedOK
    <2> QED
      BY <1>3, <2>1, <2>2 DEF IInv, TypeOK, StackOK, SpecInRange, ReturnToCleanup, globalVars, objectVars, runVars
  <1>5. CASE Top.outcome.tag # "ok"
    <2>1. d \in Diagnostic
      BY <1>5, EndedOK DEF ReturnToCleanup
    <2>2. ReportFailure(Caller.outcome, d) \in Outcome
      BY <1>1, <1>2, <2>1, ReportOK
    <2>3. f \in CallFrame
      BY <1>2, <2>2, FrameOK
    <2>4. InCode(program, f)
      BY <1>2 DEF CallFrame, InCode
    <2>5. StackOK(program, WithCaller(f))
      BY <1>1, <2>3, <2>4, WithCallerOK DEF Activation
    <2>6. [Settled EXCEPT ![Caller.id].failures = Append(@, d)] \in Seq(CallRecord)
      BY <1>3, <2>1, FailuresOK
    <2>7. /\ stack' = WithCaller(f)
          /\ calls' = [Settled EXCEPT ![Caller.id].failures = Append(@, d)]
      BY <1>5 DEF ReturnToCleanup
    <2> QED
      BY <2>5, <2>6, <2>7 DEF IInv, TypeOK, StackOK, SpecInRange, ReturnToCleanup, globalVars, objectVars, runVars
  <1> QED
    BY <1>4, <1>5

LEMMA ReturnToInstanceOK == ASSUME IInv, ReturnToInstance PROVE IInv'
  <1> DEFINE f == [Caller EXCEPT !.outcome = Top.outcome]
  <1>1. Len(stack) > 1 /\ stack # <<>> /\ Caller.kind = "instance" /\ Top.outcome \in Outcome
    BY EndedOK DEF ReturnToInstance
  <1>2. Caller \in InstanceFrame
    BY <1>1, CallerOK, CallOrInstance
  <1>3. f \in InstanceFrame
    BY <1>1, <1>2, InstanceFrameOK
  <1>4. InCode(program, f)
    BY <1>3 DEF InstanceFrame, InCode
  <1>5. StackOK(program, WithCaller(f)) /\ StackOK(program, Popped)
    BY <1>1, <1>3, <1>4, WithCallerOK, PoppedOK DEF Activation
  <1>6. Settled \in Seq(CallRecord)
    BY <1>1, SettledOK
  <1>7. stack' \in {WithCaller(f), Popped} /\ calls' = Settled
    BY DEF ReturnToInstance
  <1> QED
    BY <1>5, <1>6, <1>7 DEF IInv, TypeOK, StackOK, SpecInRange, ReturnToInstance, globalVars, objectVars, runVars

-----------------------------------------------------------------------------
(* The drivers. *)

LEMMA DriverCallsOK ==
  ASSUME IInv, NEW f \in Functions, NEW v \in Value, NEW at, DriverCalls(f, v, at)
  PROVE  StackOK(program, stack') /\ calls' \in Seq(CallRecord)
  <1>1. /\ NewCall(f, v) \in Activation
        /\ InCode(program, NewCall(f, v))
        /\ NewRecord(f, v) \in CallRecord
    BY NewCallOK DEF Activation
  <1>2. StackOK(program, <<NewCall(f, v)>>)
    BY <1>1, SingleOK
  <1>3. Append(calls, NewRecord(f, v)) \in Seq(CallRecord)
    BY <1>1, AppendProperties DEF IInv, TypeOK
  <1> QED
    BY <1>2, <1>3 DEF DriverCalls

LEMMA SpecOK ==
  ASSUME IInv, nextSpec <= Len(program.specs)
  PROVE  /\ program.specs[nextSpec].type \in Types
         /\ program.specs[nextSpec].it \in Functions
  <1>1. program \in Program /\ nextSpec \in Nat \ {0}
    BY LoweredBody, ProgramsAreLowered DEF IInv, TypeOK
  <1>2. program.specs \in Seq([type : Types, it : Functions])
    BY <1>1 DEF Program
  <1>3. program.specs[nextSpec] \in [type : Types, it : Functions]
    <2>1. nextSpec \in 1..Len(program.specs)
      BY <1>1, <1>2, LenProperties
    <2> QED
      BY <1>2, <2>1, ElementOfSeq
  <1> QED
    BY <1>3

LEMMA DefaultIsValue == DefaultValue \in Value
  BY DEF DefaultValue, IntValue, Value

LEMMA InitGlobalsOK == ASSUME IInv, InitGlobals PROVE IInv'
  <1>1. program \in Program
    BY ProgramsAreLowered DEF IInv, TypeOK
  <1>2. CASE program.globalInit = NoFunction
    BY <1>2 DEF IInv, TypeOK, StackOK, SpecInRange, InitGlobals, objectVars
  <1>3. CASE program.globalInit # NoFunction
    <2>1. program.globalInit \in Functions
      BY <1>1, <1>3 DEF Program
    <2>2. DriverCalls(program.globalInit, DefaultValue, "globals")
      BY <1>3 DEF InitGlobals
    <2>3. StackOK(program, stack') /\ calls' \in Seq(CallRecord) /\ driver' = "globals"
      BY <2>1, <2>2, DefaultIsValue, DriverCallsOK DEF DriverCalls
    <2> QED
      BY <1>3, <2>3 DEF IInv, TypeOK, StackOK, SpecInRange, InitGlobals, objectVars
  <1> QED
    BY <1>2, <1>3

LEMMA CallEntryOK == ASSUME IInv, CallEntry PROVE IInv'
  <1>1. program.entry \in Functions
    BY ProgramsAreLowered DEF IInv, TypeOK, Program
  <1>2. StackOK(program, stack') /\ calls' \in Seq(CallRecord) /\ driver' = "entry"
    BY <1>1, DefaultIsValue, DriverCallsOK DEF CallEntry, DriverCalls
  <1> QED
    BY <1>2 DEF IInv, TypeOK, StackOK, SpecInRange, CallEntry, globalVars, objectVars

LEMMA NoSpecsOK == ASSUME IInv, NoSpecs PROVE IInv'
  <1>1. <<Raised(NoSite)>> \in Seq(Diagnostic)
    BY EmptySeq DEF Raised, NoSite, Diagnostic, Site
  <1> QED
    BY <1>1 DEF IInv, TypeOK, StackOK, SpecInRange, NoSpecs, globalVars, objectVars

LEMMA AllSpecsRunOK == ASSUME IInv, AllSpecsRun PROVE IInv'
  BY DEF IInv, TypeOK, StackOK, SpecInRange, AllSpecsRun, globalVars, objectVars

LEMMA StartSpecOK == ASSUME IInv, StartSpec PROVE IInv'
  <1> DEFINE spec == program.specs[nextSpec]
             v == ObjectRef(singletons[spec.type])
  <1>1. nextSpec <= Len(program.specs) /\ spec.type \in Objects
    BY DEF StartSpec, SpecPending
  <1>2. spec.it \in Functions
    BY <1>1, SpecOK
  <1>3. singletons[spec.type] \in Nat
    BY <1>1 DEF IInv, TypeOK
  <1>4. v \in Value
    BY <1>3 DEF ObjectRef, Value
  <1>5. StackOK(program, stack') /\ calls' \in Seq(CallRecord) /\ driver' = "spec"
    BY <1>2, <1>4, DriverCallsOK DEF StartSpec, DriverCalls
  <1>6. served' \in [Objects -> SUBSET Nat]
    BY <1>1, <1>3 DEF StartSpec, IInv, TypeOK
  <1> QED
    BY <1>1, <1>5, <1>6 DEF IInv, TypeOK, StackOK, SpecInRange, StartSpec, globalVars

LEMMA CreateReceiverOK == ASSUME IInv, CreateReceiver PROVE IInv'
  <1> DEFINE t == program.specs[nextSpec].type
  <1>1. stack = <<>> /\ nextSpec <= Len(program.specs)
    BY DEF CreateReceiver, Idle, SpecPending
  <1>2. t \in Types
    BY <1>1, SpecOK
  <1>3. StackOK(program, Append(stack, NewInstance(t)))
    BY <1>1, <1>2, NewInstanceOK, PushOK DEF Activation
  <1>4. stack' = Append(stack, NewInstance(t)) /\ allocated' = allocated + 1
    BY DEF CreateReceiver, Allocate
  <1> QED
    BY <1>1, <1>3, <1>4 DEF IInv, TypeOK, StackOK, SpecInRange, CreateReceiver, globalVars

LEMMA ReportsOK ==
  ASSUME IInv, NEW at, Reports(at)
  PROVE  /\ Settled \in Seq(CallRecord)
         /\ StackOK(program, <<>>)
         /\ Top.outcome.tag = "ok" => Top.outcome.value \in Value
         /\ Top.outcome.tag # "ok" => /\ Top.outcome.diag \in Diagnostic
                                      /\ <<Top.outcome.diag>> \in Seq(Diagnostic)
  <1>1. /\ stack # <<>>
        /\ Top.outcome.tag = "ok" => Top.outcome.value \in Value
        /\ Top.outcome.tag # "ok" => Top.outcome.diag \in Diagnostic
    BY EndedOK DEF Reports
  <1>2. \A d \in Diagnostic : <<d>> \in Seq(Diagnostic)
    OBVIOUS
  <1> QED
    BY <1>1, <1>2, SettledOK, EmptyStackOK

LEMMA GlobalsDoneOK == ASSUME IInv, GlobalsDone PROVE IInv'
  <1>1. Reports("globals")
    BY DEF GlobalsDone
  <1>2. stack' = <<>> /\ calls' = Settled /\ driver' \in {"idle", "done"}
    BY DEF GlobalsDone
  <1>3. globalsReady' \in BOOLEAN /\ diagnostics' \in Seq(Diagnostic)
    BY <1>1, ReportsOK DEF GlobalsDone, IInv, TypeOK
  <1> QED
    BY <1>1, <1>2, <1>3, ReportsOK
    DEF IInv, TypeOK, StackOK, SpecInRange, GlobalsDone, objectVars

LEMMA EntryDoneOK == ASSUME IInv, EntryDone PROVE IInv'
  <1>1. Reports("entry")
    BY DEF EntryDone
  <1>2. stack' = <<>> /\ calls' = Settled /\ driver' = "done"
    BY DEF EntryDone
  <1>3. diagnostics' \in Seq(Diagnostic)
    BY <1>1, ReportsOK, EmptySeq DEF EntryDone
  <1> QED
    BY <1>1, <1>2, <1>3, ReportsOK
    DEF IInv, TypeOK, StackOK, SpecInRange, EntryDone, globalVars, objectVars

LEMMA ReceiverReadyOK == ASSUME IInv, ReceiverReady PROVE IInv'
  <1>1. Reports("receiver") /\ Top.outcome.tag = "ok" /\ driver = "receiver"
    BY DEF ReceiverReady, Reports
  <1>2. nextSpec <= Len(program.specs)
    BY <1>1 DEF IInv, SpecInRange
  <1>3. program.specs[nextSpec].it \in Functions /\ Top.outcome.value \in Value
    BY <1>1, <1>2, SpecOK, ReportsOK
  <1>4. StackOK(program, stack') /\ calls' \in Seq(CallRecord) /\ driver' = "spec"
    BY <1>3, DriverCallsOK DEF ReceiverReady, DriverCalls
  <1> QED
    BY <1>2, <1>4 DEF IInv, TypeOK, StackOK, SpecInRange, ReceiverReady, globalVars, objectVars

LEMMA SpecDoneOK == ASSUME IInv, SpecDone PROVE IInv'
  <1>1. PICK at : Reports(at)
    BY DEF SpecDone
  <1>2. stack' = <<>> /\ calls' = Settled /\ driver' = "idle" /\ nextSpec' = nextSpec + 1
    BY DEF SpecDone
  <1>3. verdicts' \in Seq({"PASS", "FAIL"})
    <2>1. verdicts' \in {Append(verdicts, "PASS"), Append(verdicts, "FAIL")}
      BY DEF SpecDone
    <2>2. verdicts \in Seq({"PASS", "FAIL"})
      BY DEF IInv, TypeOK
    <2>3. /\ Append(verdicts, "PASS") \in Seq({"PASS", "FAIL"})
          /\ Append(verdicts, "FAIL") \in Seq({"PASS", "FAIL"})
      BY <2>2, AppendProperties
    <2> QED
      BY <2>1, <2>3
  <1>4. diagnostics' \in Seq(Diagnostic)
    <2>1. diagnostics \in Seq(Diagnostic)
      BY DEF IInv, TypeOK
    <2>2. CASE Top.outcome.tag = "ok"
      BY <2>1, <2>2 DEF SpecDone
    <2>3. CASE Top.outcome.tag # "ok"
      <3>1. Top.outcome.diag \in Diagnostic
        BY <1>1, <2>3, ReportsOK
      <3>2. diagnostics' = Append(diagnostics, Top.outcome.diag)
        BY <2>3 DEF SpecDone
      <3> QED
        BY <2>1, <3>1, <3>2, AppendProperties
    <2> QED
      BY <2>2, <2>3
  <1> QED
    BY <1>1, <1>2, <1>3, <1>4, ReportsOK
    DEF IInv, TypeOK, StackOK, SpecInRange, SpecDone, globalVars, objectVars

LEMMA OverflowOK == ASSUME IInv, Overflow PROVE IInv'
  BY EmptyStackOK
  DEF IInv, TypeOK, StackOK, SpecInRange, Overflow, globalVars, objectVars

-----------------------------------------------------------------------------
LEMMA InitOK == Init => IInv
  <1> SUFFICES ASSUME Init PROVE IInv
    OBVIOUS
  <1>1. globals \in [Globals -> Value]
    BY DefaultIsValue DEF Init
  <1>2. /\ <<>> \in Seq(Activation) /\ <<>> \in Seq(CallRecord)
        /\ <<>> \in Seq(Diagnostic) /\ <<>> \in Seq({"PASS", "FAIL"})
    BY EmptySeq
  <1>3. singletons \in [Objects -> Nat] /\ served \in [Objects -> SUBSET Nat]
    BY DEF Init
  <1>4. /\ stack \in Seq(Activation) /\ calls \in Seq(CallRecord)
        /\ diagnostics \in Seq(Diagnostic) /\ verdicts \in Seq({"PASS", "FAIL"})
    BY <1>2 DEF Init
  <1>5. /\ program \in Programs /\ allocated \in Nat
        /\ driver = "boot" /\ nextSpec \in Nat \ {0}
    BY DEF Init
  <1>6. globalsReady \in BOOLEAN
    BY DEF Init
  <1>7. TypeOK
    BY <1>1, <1>3, <1>4, <1>5, <1>6 DEF TypeOK
  <1> QED
    BY <1>5, <1>7, EmptyStackOK DEF Init, IInv, SpecInRange

LEMMA StepOK == IInv /\ [Next]_vars => IInv'
  <1> SUFFICES ASSUME IInv, [Next]_vars PROVE IInv'
    OBVIOUS
  <1>1. CASE BodyStep
    BY <1>1, BodyStepOK
  <1>2. CASE InstanceStep
    BY <1>2, InstanceStepOK
  <1>3. CASE ReturnStep
    BY <1>3, RunCleanupOK, ReturnValueOK, PropagateErrorOK, ReturnToCleanupOK, ReturnToInstanceOK
    DEF ReturnStep
  <1>4. CASE DriverStep
    BY <1>4, InitGlobalsOK, GlobalsDoneOK, CallEntryOK, EntryDoneOK, NoSpecsOK, AllSpecsRunOK,
       StartSpecOK, CreateReceiverOK, ReceiverReadyOK, SpecDoneOK
    DEF DriverStep
  <1>5. CASE Overflow
    BY <1>5, OverflowOK
  <1>6. CASE UNCHANGED vars
    BY <1>6 DEF IInv, TypeOK, StackOK, SpecInRange, vars, globalVars, objectVars, runVars
  <1> QED
    BY <1>1, <1>2, <1>3, <1>4, <1>5, <1>6 DEF Next

\* Whatever lowered program the interpreter runs, and however deep its calls
\* nest, the interpreter's state keeps its type: in particular no frame leaves
\* the code of its function and every callee returns to the call it came from.
THEOREM TypeCorrect == Spec => []TypeOK
  <1>1. IInv => TypeOK
    BY DEF IInv
  <1> QED
    BY <1>1, InitOK, StepOK, PTL DEF Spec

-----------------------------------------------------------------------------
(* The inductive invariant of cleanup: what ties each activation to its
   record. *)

\* The closures ds are still owed: the first ones the call registered, as many
\* as have not been attempted.
Owed(ds, r) ==
  /\ Len(r.attempted) + Len(ds) = Len(r.registered)
  /\ \A k \in 1..Len(ds) : ds[k] = r.registered[k]

\* A call on the stack has an unfinished record, which agrees with it on whether
\* its body has ended and on what cleanup it owes.
Tied(f, r) ==
  /\ r.outcome = Running
  /\ r.body = Running <=> f.outcome = Running
  /\ Owed(f.defers, r)

FrameTied(f, cs) == f.kind = "call" => f.id \in 1..Len(cs) /\ Tied(f, cs[f.id])

\* No two calls on the stack share a record.
OwnRecords(s) ==
  \A i, j \in 1..Len(s) :
    i # j /\ s[i].kind = "call" /\ s[j].kind = "call" => s[i].id # s[j].id

Linked(s, cs) == (\A i \in 1..Len(s) : FrameTied(s[i], cs)) /\ OwnRecords(s)

\* CleanupDiscipline for one record.
Disciplined(r) ==
  /\ Len(r.attempted) <= Len(r.registered)
  /\ \A i \in 1..Len(r.attempted) :
       r.attempted[i] = r.registered[Len(r.registered) + 1 - i]
  /\ r.body = Running => r.attempted = <<>>
  /\ r.outcome # Running => r.body # Running /\ Len(r.attempted) = Len(r.registered)

AllDisciplined(cs) == \A c \in 1..Len(cs) : Disciplined(cs[c])

Accounted == Linked(stack, calls) /\ AllDisciplined(calls)

CleanupInv == IInv /\ Accounted

-----------------------------------------------------------------------------
(* Sequences, whatever is appended to or stored in them. *)

LEMMA AppendedSeq ==
  ASSUME NEW S, NEW s \in Seq(S), NEW e, NEW t, t = Append(s, e)
  PROVE  /\ Len(s) \in Nat /\ Len(t) = Len(s) + 1
         /\ \A i \in 1..Len(s) : t[i] = s[i]
         /\ t[Len(s) + 1] = e
  BY LenProperties

LEMMA StoredSeq ==
  ASSUME NEW S, NEW s \in Seq(S), NEW i, NEW e, NEW t, t = [s EXCEPT ![i] = e]
  PROVE  /\ Len(s) \in Nat /\ Len(t) = Len(s)
         /\ t \in Seq(S \cup {e})
         /\ \A j \in 1..Len(s) : t[j] = IF j = i THEN e ELSE s[j]
  <1>1. s \in [1..Len(s) -> S] /\ Len(s) \in Nat /\ DOMAIN s = 1..Len(s)
    BY LenProperties
  <1>2. t \in [1..Len(s) -> S \cup {e}]
    BY <1>1
  <1>3. t \in Seq(S \cup {e})
    BY <1>1, <1>2, SeqDef
  <1>4. Len(t) = Len(s)
    BY <1>1, <1>2, <1>3, LenProperties
  <1> QED
    BY <1>1, <1>3, <1>4

-----------------------------------------------------------------------------
(* What the steps do to stack and records keeps them linked. *)

\* A new call.
LEMMA LinkPush ==
  ASSUME NEW S, NEW s \in Seq(S), NEW R, NEW cs \in Seq(R), Linked(s, cs),
         AllDisciplined(cs), NEW fn, NEW v, NEW f,
         f.kind = "call", f.id = Len(cs) + 1, f.defers = <<>>, f.outcome = Running
  PROVE  /\ Linked(Append(s, f), Append(cs, NewRecord(fn, v)))
         /\ AllDisciplined(Append(cs, NewRecord(fn, v)))
  <1>1. PICK t : t = Append(s, f)
    OBVIOUS
  <1>2. PICK r : r = NewRecord(fn, v)
    OBVIOUS
  <1>3. PICK ds : ds = Append(cs, r)
    OBVIOUS
  <1>4. /\ Len(s) \in Nat /\ Len(t) = Len(s) + 1
        /\ \A i \in 1..Len(s) : t[i] = s[i]
        /\ t[Len(s) + 1] = f
    BY <1>1, AppendedSeq
  <1>5. /\ Len(cs) \in Nat /\ Len(ds) = Len(cs) + 1
        /\ \A i \in 1..Len(cs) : ds[i] = cs[i]
        /\ ds[Len(cs) + 1] = r
    BY <1>3, AppendedSeq
  <1>6. /\ r.registered = <<>> /\ r.attempted = <<>>
        /\ r.body = Running /\ r.outcome = Running
    BY <1>2 DEF NewRecord
  <1>7. Tied(f, r) /\ Disciplined(r)
    BY <1>6 DEF Tied, Owed, Disciplined
  <1>8. \A i \in 1..Len(t) : FrameTied(t[i], ds)
    <2>1. ASSUME NEW i \in 1..Len(s) PROVE FrameTied(t[i], ds)
      <3>1. FrameTied(s[i], cs)
        BY DEF Linked
      <3> QED
        BY <3>1, <1>4, <1>5 DEF FrameTied
    <2>2. FrameTied(f, ds)
      BY <1>5, <1>7 DEF FrameTied
    <2> QED
      BY <2>1, <2>2, <1>4
  <1>9. OwnRecords(t)
    <2>1. ASSUME NEW i \in 1..Len(s), s[i].kind = "call" PROVE s[i].id < f.id
      BY <1>5, <2>1 DEF Linked, FrameTied
    <2>2. \A i \in 1..Len(s) : s[i].kind = "call" => s[i].id # f.id
      BY <2>1, <1>5 DEF Linked, FrameTied
    <2> QED
      BY <2>2, <1>4 DEF Linked, OwnRecords
  <1>10. AllDisciplined(ds)
    BY <1>5, <1>7 DEF AllDisciplined
  <1> QED
    BY <1>1, <1>2, <1>3, <1>8, <1>9, <1>10 DEF Linked

\* An instance under construction.
LEMMA LinkPushInstance ==
  ASSUME NEW S, NEW s \in Seq(S), NEW cs, Linked(s, cs), NEW f, f.kind # "call"
  PROVE  Linked(Append(s, f), cs)
  <1>1. PICK t : t = Append(s, f)
    OBVIOUS
  <1>2. /\ Len(s) \in Nat /\ Len(t) = Len(s) + 1
        /\ \A i \in 1..Len(s) : t[i] = s[i]
        /\ t[Len(s) + 1] = f
    BY <1>1, AppendedSeq
  <1>3. Linked(t, cs)
    BY <1>2 DEF Linked, FrameTied, OwnRecords
  <1> QED
    BY <1>1, <1>3

\* The innermost activation moves on; its record stays.
LEMMA LinkKeep ==
  ASSUME NEW S, NEW s \in Seq(S), NEW cs, Linked(s, cs), s # <<>>,
         NEW f, f.kind = s[Len(s)].kind,
         f.kind = "call" => /\ f.id = s[Len(s)].id
                            /\ f.defers = s[Len(s)].defers
                            /\ f.outcome = s[Len(s)].outcome
  PROVE  Linked([s EXCEPT ![Len(s)] = f], cs)
  <1>1. PICK t : t = [s EXCEPT ![Len(s)] = f]
    OBVIOUS
  <1>2. /\ Len(s) \in Nat \ {0} /\ Len(t) = Len(s)
        /\ \A i \in 1..Len(s) : t[i] = IF i = Len(s) THEN f ELSE s[i]
    BY <1>1, StoredSeq, EmptySeq
  <1>3. \A i \in 1..Len(s) : FrameTied(t[i], cs)
    BY <1>2 DEF Linked, FrameTied, Tied
  <1>4. OwnRecords(t)
    BY <1>2 DEF Linked, OwnRecords
  <1> QED
    BY <1>1, <1>2, <1>3, <1>4 DEF Linked

\* The innermost call moves on together with its record.
LEMMA LinkChange ==
  ASSUME NEW S, NEW s \in Seq(S), NEW R, NEW cs \in Seq(R), Linked(s, cs),
         AllDisciplined(cs), s # <<>>, NEW f, NEW r,
         f.kind = "call", s[Len(s)].kind = "call", f.id = s[Len(s)].id,
         Tied(f, r), Disciplined(r)
  PROVE  /\ Linked([s EXCEPT ![Len(s)] = f], [cs EXCEPT ![f.id] = r])
         /\ AllDisciplined([cs EXCEPT ![f.id] = r])
  <1>1. PICK t : t = [s EXCEPT ![Len(s)] = f]
    OBVIOUS
  <1>2. PICK ds : ds = [cs EXCEPT ![f.id] = r]
    OBVIOUS
  <1>3. /\ Len(s) \in Nat \ {0} /\ Len(t) = Len(s)
        /\ \A i \in 1..Len(s) : t[i] = IF i = Len(s) THEN f ELSE s[i]
    BY <1>1, StoredSeq, EmptySeq
  <1>4. f.id \in 1..Len(cs)
    BY <1>3 DEF Linked, FrameTied
  <1>5. /\ Len(ds) = Len(cs)
        /\ \A c \in 1..Len(cs) : ds[c] = IF c = f.id THEN r ELSE cs[c]
    BY <1>2, StoredSeq
  <1>6. \A i \in 1..Len(s) : i # Len(s) /\ s[i].kind = "call" => s[i].id # f.id
    BY <1>3 DEF Linked, OwnRecords
  <1>7. \A i \in 1..Len(s) : FrameTied(t[i], ds)
    BY <1>3, <1>4, <1>5, <1>6 DEF Linked, FrameTied
  <1>8. OwnRecords(t)
    BY <1>3 DEF Linked, OwnRecords
  <1>9. AllDisciplined(ds)
    BY <1>5 DEF AllDisciplined
  <1> QED
    BY <1>1, <1>2, <1>3, <1>7, <1>8, <1>9 DEF Linked

\* The innermost activation leaves the stack; its record is settled.
LEMMA LinkPop ==
  ASSUME NEW S, NEW s \in Seq(S), NEW cs \in Seq(CallRecord), Linked(s, cs),
         AllDisciplined(cs), s # <<>>,
         s[Len(s)].kind = "call" => s[Len(s)].outcome # Running /\ s[Len(s)].defers = <<>>,
         NEW ds,
         ds = IF s[Len(s)].kind = "call"
                THEN [cs EXCEPT ![s[Len(s)].id].outcome = s[Len(s)].outcome] ELSE cs
  PROVE  Linked(SubSeq(s, 1, Len(s) - 1), ds) /\ AllDisciplined(ds)
  <1>1. PICK t : t = SubSeq(s, 1, Len(s) - 1)
    OBVIOUS
  <1>2. /\ Len(s) \in Nat \ {0} /\ Len(t) = Len(s) - 1
        /\ \A i \in 1..(Len(s) - 1) : t[i] = s[i]
    BY <1>1, FrontOfSeq, EmptySeq
  <1>3. Linked(t, cs)
    BY <1>2 DEF Linked, OwnRecords
  <1>4. CASE s[Len(s)].kind # "call"
    BY <1>1, <1>3, <1>4
  <1>5. CASE s[Len(s)].kind = "call"
    <2>1. PICK id : id = s[Len(s)].id
      OBVIOUS
    <2>2. id \in 1..Len(cs) /\ Tied(s[Len(s)], cs[id])
      BY <1>2, <1>5, <2>1 DEF Linked, FrameTied
    <2>3. PICK r : r = [cs[id] EXCEPT !.outcome = s[Len(s)].outcome]
      OBVIOUS
    <2>4. cs[id] \in CallRecord
      BY <2>2, ElementOfSeq
    <2>5. /\ r.registered = cs[id].registered /\ r.attempted = cs[id].attempted
          /\ r.body = cs[id].body
      BY <2>3, <2>4 DEF CallRecord
    <2>6. Disciplined(r)
      <3>1. Disciplined(cs[id])
        BY <2>2 DEF AllDisciplined
      <3>2. Len(<<>>) = 0
        OBVIOUS
      <3>3. Len(cs[id].attempted) = Len(cs[id].registered)
        <4>1. cs[id].attempted \in Seq(Closure)
          BY <2>4 DEF CallRecord
        <4>2. Len(cs[id].attempted) \in Nat
          BY <4>1, LenProperties
        <4>3. Len(cs[id].attempted) + Len(s[Len(s)].defers) = Len(cs[id].registered)
          BY <2>2 DEF Tied, Owed
        <4>4. Len(s[Len(s)].defers) = 0
          BY <1>5, <3>2
        <4> QED
          BY <4>2, <4>3, <4>4
      <3>4. cs[id].body # Running
        BY <1>5, <2>2 DEF Tied
      <3> QED
        BY <3>1, <3>3, <3>4, <2>5 DEF Disciplined
    <2>7. ds = [cs EXCEPT ![id] = r]
      BY <1>5, <2>1, <2>3
    <2>8. /\ Len(ds) = Len(cs)
          /\ \A c \in 1..Len(cs) : ds[c] = IF c = id THEN r ELSE cs[c]
      BY <2>7, StoredSeq
    <2>9. AllDisciplined(ds)
      BY <2>6, <2>8 DEF AllDisciplined
    <2>10. \A i \in 1..Len(t) : t[i].kind = "call" => t[i].id # id
      BY <1>2, <1>5, <2>1 DEF Linked, OwnRecords
    <2>11. Linked(t, ds)
      BY <1>3, <2>8, <2>10 DEF Linked, FrameTied
    <2> QED
      BY <1>1, <2>9, <2>11
  <1> QED
    BY <1>4, <1>5

-----------------------------------------------------------------------------
(* The steps, grouped by what they do to stack and records. *)

LEMMA Sequences ==
  ASSUME CleanupInv
  PROVE  /\ stack \in Seq(Activation) /\ calls \in Seq(CallRecord)
         /\ Linked(stack, calls) /\ AllDisciplined(calls)
  BY DEF CleanupInv, Accounted, IInv, TypeOK

LEMMA SameStep ==
  ASSUME CleanupInv, stack' = stack, calls' = calls
  PROVE  Accounted'
  BY Sequences DEF Accounted

LEMMA LinkEmpty == ASSUME NEW cs PROVE Linked(<<>>, cs)
  <1>1. Len(<<>>) = 0
    OBVIOUS
  <1> QED
    BY <1>1 DEF Linked, OwnRecords

\* Nothing is left on the stack.
LEMMA EmptyStep ==
  ASSUME stack' = <<>>, AllDisciplined(calls')
  PROVE  Accounted'
  BY LinkEmpty DEF Accounted

LEMMA KeepStep ==
  ASSUME CleanupInv, stack # <<>>, NEW f, f.kind = Top.kind,
         f.kind = "call" => f.id = Top.id /\ f.defers = Top.defers /\ f.outcome = Top.outcome,
         stack' = WithTop(f), calls' = calls
  PROVE  Accounted'
  <1>1. Linked(WithTop(f), calls)
    BY Sequences, LinkKeep DEF WithTop, Top
  <1> QED
    BY <1>1, Sequences DEF Accounted

\* A frame that moves in its code.
LEMMA MoveStep ==
  ASSUME CleanupInv, InBody, calls' = calls,
         \/ \E l : stack' = WithTop([Top EXCEPT !.pc = @ + 1, !.locals = l])
         \/ \E b : stack' = WithTop([Top EXCEPT !.block = b, !.pc = 1])
  PROVE  Accounted'
  <1>1. stack # <<>> /\ Top \in CallFrame
    BY InBodyOK DEF CleanupInv
  <1>2. CASE \E l : stack' = WithTop([Top EXCEPT !.pc = @ + 1, !.locals = l])
    <2>1. PICK l : stack' = WithTop([Top EXCEPT !.pc = @ + 1, !.locals = l])
      BY <1>2
    <2>2. PICK f : f = [Top EXCEPT !.pc = @ + 1, !.locals = l]
      OBVIOUS
    <2>3. f.kind = Top.kind /\ f.id = Top.id /\ f.defers = Top.defers /\ f.outcome = Top.outcome
      BY <1>1, <2>2 DEF CallFrame
    <2> QED
      BY <1>1, <2>1, <2>2, <2>3, KeepStep
  <1>3. CASE \E b : stack' = WithTop([Top EXCEPT !.block = b, !.pc = 1])
    <2>1. PICK b : stack' = WithTop([Top EXCEPT !.block = b, !.pc = 1])
      BY <1>3
    <2>2. PICK f : f = [Top EXCEPT !.block = b, !.pc = 1]
      OBVIOUS
    <2>3. f.kind = Top.kind /\ f.id = Top.id /\ f.defers = Top.defers /\ f.outcome = Top.outcome
      BY <1>1, <2>2 DEF CallFrame
    <2> QED
      BY <1>1, <2>1, <2>2, <2>3, KeepStep
  <1> QED
    BY <1>2, <1>3

LEMMA CallStep ==
  ASSUME CleanupInv, NEW fn, NEW v,
         stack' = Append(stack, NewCall(fn, v)),
         calls' = Append(calls, NewRecord(fn, v))
  PROVE  Accounted'
  <1>1. /\ NewCall(fn, v).kind = "call" /\ NewCall(fn, v).id = Len(calls) + 1
        /\ NewCall(fn, v).defers = <<>> /\ NewCall(fn, v).outcome = Running
    BY DEF NewCall
  <1> QED
    BY <1>1, Sequences, LinkPush DEF Accounted

LEMMA DriverStepCalls ==
  ASSUME CleanupInv, NEW fn, NEW v, NEW at, DriverCalls(fn, v, at)
  PROVE  Accounted'
  <1>1. /\ NewCall(fn, v).kind = "call" /\ NewCall(fn, v).id = Len(calls) + 1
        /\ NewCall(fn, v).defers = <<>> /\ NewCall(fn, v).outcome = Running
    BY DEF NewCall
  <1>2. <<>> \in Seq(Activation)
    BY EmptySeq
  <1>3. /\ Linked(Append(<<>>, NewCall(fn, v)), Append(calls, NewRecord(fn, v)))
        /\ AllDisciplined(Append(calls, NewRecord(fn, v)))
    BY <1>1, <1>2, Sequences, LinkEmpty, LinkPush
  <1>4. stack' = Append(<<>>, NewCall(fn, v)) /\ calls' = Append(calls, NewRecord(fn, v))
    BY DEF DriverCalls
  <1> QED
    BY <1>3, <1>4 DEF Accounted

LEMMA NewInstanceStep ==
  ASSUME CleanupInv, NEW t, stack' = Append(stack, NewInstance(t)), calls' = calls
  PROVE  Accounted'
  <1>1. NewInstance(t).kind # "call"
    BY DEF NewInstance
  <1>2. Linked(Append(stack, NewInstance(t)), calls)
    BY <1>1, Sequences, LinkPushInstance
  <1> QED
    BY <1>2, Sequences DEF Accounted

\* The record of the call a frame belongs to.
LEMMA RecordOf ==
  ASSUME NEW S, NEW s \in Seq(S), NEW cs \in Seq(CallRecord), Linked(s, cs),
         AllDisciplined(cs), s # <<>>, s[Len(s)].kind = "call"
  PROVE  /\ s[Len(s)].id \in 1..Len(cs)
         /\ cs[s[Len(s)].id] \in CallRecord
         /\ Tied(s[Len(s)], cs[s[Len(s)].id])
         /\ Disciplined(cs[s[Len(s)].id])
  <1>1. Len(s) \in Nat \ {0}
    BY EmptySeq
  <1>2. s[Len(s)].id \in 1..Len(cs) /\ Tied(s[Len(s)], cs[s[Len(s)].id])
    BY <1>1 DEF Linked, FrameTied
  <1> QED
    BY <1>2, ElementOfSeq DEF AllDisciplined

\* A body ends: its cleanup is owed in full.
LEMMA LinkEnd ==
  ASSUME NEW S, NEW s \in Seq(S), NEW cs \in Seq(CallRecord), Linked(s, cs),
         AllDisciplined(cs), s # <<>>, s[Len(s)] \in CallFrame,
         s[Len(s)].outcome = Running, NEW o, o # Running
  PROVE  /\ Linked([s EXCEPT ![Len(s)] = [s[Len(s)] EXCEPT !.outcome = o]],
                   [cs EXCEPT ![s[Len(s)].id].body = o])
         /\ AllDisciplined([cs EXCEPT ![s[Len(s)].id].body = o])
  <1>1. PICK top : top = s[Len(s)]
    OBVIOUS
  <1>2. PICK f : f = [top EXCEPT !.outcome = o]
    OBVIOUS
  <1>3. PICK r : r = [cs[top.id] EXCEPT !.body = o]
    OBVIOUS
  <1>4. f.kind = "call" /\ top.kind = "call" /\ f.id = top.id /\ f.defers = top.defers /\ f.outcome = o
    BY <1>1, <1>2 DEF CallFrame
  <1>5. cs[top.id] \in CallRecord /\ Tied(top, cs[top.id]) /\ Disciplined(cs[top.id])
    BY <1>1, <1>4, RecordOf
  <1>6. /\ r.registered = cs[top.id].registered /\ r.attempted = cs[top.id].attempted
        /\ r.outcome = cs[top.id].outcome /\ r.body = o
    BY <1>3, <1>5 DEF CallRecord
  <1>7. Tied(f, r)
    BY <1>4, <1>5, <1>6 DEF Tied, Owed
  <1>8. Disciplined(r)
    BY <1>5, <1>6 DEF Disciplined, Tied
  <1>9. /\ Linked([s EXCEPT ![Len(s)] = f], [cs EXCEPT ![f.id] = r])
        /\ AllDisciplined([cs EXCEPT ![f.id] = r])
    BY <1>1, <1>4, <1>7, <1>8, LinkChange
  <1>10. [cs EXCEPT ![f.id] = r] = [cs EXCEPT ![top.id].body = o]
    BY <1>3, <1>4
  <1> QED
    BY <1>1, <1>2, <1>9, <1>10

LEMMA EndBodyStep ==
  ASSUME CleanupInv, InBody, NEW o, o # Running, EndBody(o)
  PROVE  Accounted'
  <1>1. stack # <<>> /\ Top \in CallFrame /\ Top.outcome = Running
    BY InBodyOK DEF CleanupInv
  <1>2. /\ stack' = [stack EXCEPT ![Len(stack)] = [stack[Len(stack)] EXCEPT !.outcome = o]]
        /\ calls' = [calls EXCEPT ![stack[Len(stack)].id].body = o]
    BY DEF EndBody, WithTop, Top
  <1>3. Linked(stack', calls') /\ AllDisciplined(calls')
    BY <1>1, <1>2, Sequences, LinkEnd DEF Top
  <1> QED
    BY <1>3 DEF Accounted

LEMMA ExecDeferStep == ASSUME CleanupInv, ExecDefer PROVE Accounted'
  <1>1. PICK c : /\ stack' = WithTop([Top EXCEPT !.pc = @ + 1, !.defers = Append(@, c)])
                 /\ calls' = [calls EXCEPT ![Top.id].registered = Append(@, c)]
    BY DEF ExecDefer
  <1>2. stack # <<>> /\ Top \in CallFrame /\ Top.outcome = Running
    BY InBodyOK DEF CleanupInv, ExecDefer, AtStatement
  <1>3. PICK old : old = calls[Top.id]
    OBVIOUS
  <1>4. PICK f : f = [Top EXCEPT !.pc = @ + 1, !.defers = Append(@, c)]
    OBVIOUS
  <1>5. PICK r : r = [old EXCEPT !.registered = Append(@, c)]
    OBVIOUS
  <1>6. /\ f.kind = "call" /\ Top.kind = "call" /\ f.id = Top.id /\ f.outcome = Top.outcome
        /\ f.defers = Append(Top.defers, c)
    BY <1>2, <1>4 DEF CallFrame
  <1>7. old \in CallRecord /\ Tied(Top, old) /\ Disciplined(old)
    BY <1>2, <1>3, <1>6, Sequences, RecordOf DEF Top
  <1>8. /\ r.registered = Append(old.registered, c) /\ r.attempted = old.attempted
        /\ r.outcome = old.outcome /\ r.body = old.body
    BY <1>5, <1>7 DEF CallRecord
  <1>9. Len(old.attempted) = 0 /\ old.attempted = <<>>
    <2>1. Len(<<>>) = 0
      OBVIOUS
    <2> QED
      BY <1>2, <1>7, <2>1 DEF Tied, Disciplined
  <1>10. /\ Top.defers \in Seq(Closure) /\ old.registered \in Seq(Closure)
         /\ Len(Top.defers) \in Nat
    BY <1>2, <1>7, LenProperties DEF CallFrame, CallRecord
  <1>11. Len(Top.defers) = Len(old.registered) /\ \A k \in 1..Len(Top.defers) : Top.defers[k] = old.registered[k]
    BY <1>7, <1>9, <1>10 DEF Tied, Owed
  <1>12. Owed(f.defers, r)
    <2>1. /\ Len(f.defers) = Len(Top.defers) + 1
          /\ \A k \in 1..Len(Top.defers) : f.defers[k] = Top.defers[k]
          /\ f.defers[Len(Top.defers) + 1] = c
      BY <1>6, <1>10, AppendedSeq
    <2>2. /\ Len(r.registered) = Len(Top.defers) + 1
          /\ \A k \in 1..Len(Top.defers) : r.registered[k] = old.registered[k]
          /\ r.registered[Len(Top.defers) + 1] = c
      BY <1>8, <1>10, <1>11, AppendedSeq
    <2> QED
      BY <1>8, <1>9, <1>10, <1>11, <2>1, <2>2 DEF Owed
  <1>13. Tied(f, r)
    BY <1>6, <1>7, <1>8, <1>12 DEF Tied
  <1>14. Disciplined(r)
    <2>1. Len(r.registered) \in Nat
      BY <1>8, <1>10, AppendedSeq
    <2> QED
      BY <1>7, <1>8, <1>9, <2>1 DEF Disciplined, Tied
  <1>15. stack' = [stack EXCEPT ![Len(stack)] = f] /\ calls' = [calls EXCEPT ![f.id] = r]
    BY <1>1, <1>3, <1>4, <1>5, <1>6 DEF WithTop
  <1>16. Linked(stack', calls') /\ AllDisciplined(calls')
    BY <1>2, <1>6, <1>13, <1>14, <1>15, Sequences, LinkChange DEF Top
  <1> QED
    BY <1>16 DEF Accounted

\* The latest closure owed is attempted.
LEMMA AttemptLatest ==
  ASSUME NEW ds \in Seq(Closure), ds # <<>>, NEW old \in CallRecord, Owed(ds, old),
         old.body # Running, old.outcome = Running, Disciplined(old),
         NEW rest, Len(rest) = Len(ds) - 1, \A i \in 1..(Len(ds) - 1) : rest[i] = ds[i],
         NEW r, r.registered = old.registered, r.body = old.body, r.outcome = old.outcome,
         r.attempted = Append(old.attempted, LastDefer(ds))
  PROVE  Owed(rest, r) /\ Disciplined(r)
  <1>1. PICK n \in Nat \ {0} : n = Len(ds)
    BY EmptySeq
  <1>2. PICK a \in Nat : a = Len(old.attempted)
    BY LenProperties DEF CallRecord
  <1>3. a + n = Len(old.registered) /\ \A k \in 1..n : ds[k] = old.registered[k]
    BY <1>1, <1>2 DEF Owed
  <1>4. old.attempted \in Seq(Closure)
    BY DEF CallRecord
  <1>5. /\ Len(r.attempted) = a + 1
        /\ \A i \in 1..a : r.attempted[i] = old.attempted[i]
        /\ r.attempted[a + 1] = ds[n]
    BY <1>1, <1>2, <1>4, AppendedSeq DEF LastDefer
  <1>6. Owed(rest, r)
    <2>1. Len(rest) = n - 1 /\ \A k \in 1..(n - 1) : rest[k] = ds[k]
      BY <1>1
    <2>2. Len(r.attempted) + Len(rest) = Len(r.registered)
      <3>1. (a + 1) + (n - 1) = a + n
        OBVIOUS
      <3>2. Len(r.registered) = a + n
        BY <1>3
      <3> QED
        BY <1>5, <2>1, <3>1, <3>2
    <2>3. \A k \in 1..(n - 1) : ds[k] = r.registered[k]
      BY <1>3
    <2> QED
      BY <2>1, <2>2, <2>3 DEF Owed
  <1>7. \A i \in 1..a : old.attempted[i] = old.registered[a + n + 1 - i]
    BY <1>2, <1>3 DEF Disciplined
  <1>8. \A i \in 1..(a + 1) : r.attempted[i] = r.registered[a + n + 1 - i]
    <2>1. ASSUME NEW i \in 1..a PROVE r.attempted[i] = r.registered[a + n + 1 - i]
      BY <1>5, <1>7
    <2>2. a + n + 1 - (a + 1) = n
      BY <1>1, <1>2
    <2>3. r.attempted[a + 1] = r.registered[a + n + 1 - (a + 1)]
      BY <1>1, <1>3, <1>5, <2>2
    <2>4. \A i \in 1..(a + 1) : i \in 1..a \/ i = a + 1
      OBVIOUS
    <2> QED
      BY <2>1, <2>3, <2>4
  <1>9. Len(r.attempted) <= Len(r.registered)
    BY <1>3, <1>5
  <1>10. Disciplined(r)
    BY <1>3, <1>5, <1>8, <1>9 DEF Disciplined
  <1> QED
    BY <1>6, <1>10

LEMMA RunCleanupStep == ASSUME CleanupInv, RunCleanup PROVE Accounted'
  <1>1. /\ stack # <<>> /\ Top \in CallFrame /\ Top.outcome # Running
        /\ Top.defers # <<>> /\ Top.defers \in Seq(Closure)
    BY InnermostNonempty, TopOK, CallOrInstance DEF CleanupInv, RunCleanup, Unwinding, CallFrame
  <1>2. PICK c : c = LastDefer(Top.defers)
    OBVIOUS
  <1>3. PICK rest : rest = SubSeq(Top.defers, 1, Len(Top.defers) - 1)
    OBVIOUS
  <1>4. PICK f : f = [Top EXCEPT !.defers = rest]
    OBVIOUS
  <1>5. PICK old : old = calls[Top.id]
    OBVIOUS
  <1>6. PICK r : r = [old EXCEPT !.attempted = Append(@, LastDefer(Top.defers))]
    OBVIOUS
  <1>7. /\ f.kind = "call" /\ Top.kind = "call" /\ f.id = Top.id
        /\ f.outcome = Top.outcome /\ f.defers = rest
    BY <1>1, <1>4 DEF CallFrame
  <1>8. old \in CallRecord /\ Tied(Top, old) /\ Disciplined(old)
    BY <1>1, <1>5, <1>7, Sequences, RecordOf DEF Top
  <1>9. Owed(rest, r) /\ Disciplined(r) /\ r.body = old.body /\ r.outcome = Running
    <2>1. /\ r.registered = old.registered /\ r.body = old.body /\ r.outcome = old.outcome
          /\ r.attempted = Append(old.attempted, LastDefer(Top.defers))
      BY <1>6, <1>8 DEF CallRecord
    <2>2. /\ Len(rest) = Len(Top.defers) - 1
          /\ \A i \in 1..(Len(Top.defers) - 1) : rest[i] = Top.defers[i]
      BY <1>1, <1>3, FrontOfSeq
    <2>3. Owed(rest, r) /\ Disciplined(r)
      BY <1>1, <1>8, <2>1, <2>2, AttemptLatest DEF Tied
    <2> QED
      BY <1>8, <2>1, <2>3 DEF Tied
  <1>10. Tied(f, r)
    BY <1>7, <1>8, <1>9 DEF Tied
  <1>11. PICK t : t = [stack EXCEPT ![Len(stack)] = f]
    OBVIOUS
  <1>12. PICK ds : ds = [calls EXCEPT ![f.id] = r]
    OBVIOUS
  <1>13. Linked(t, ds) /\ AllDisciplined(ds)
    BY <1>1, <1>7, <1>9, <1>10, <1>11, <1>12, Sequences, LinkChange DEF Top
  <1>14. t \in Seq(Activation \cup {f}) /\ ds \in Seq(CallRecord \cup {r}) /\ Len(ds) = Len(calls)
    <2>1. stack \in Seq(Activation) /\ calls \in Seq(CallRecord)
      BY Sequences
    <2>2. t \in Seq(Activation \cup {f})
      BY <1>11, <2>1, StoredSeq
    <2>3. ds \in Seq(CallRecord \cup {r})
      BY <1>12, <2>1, StoredSeq
    <2>4. Len(ds) = Len(calls)
      BY <1>12, <2>1, StoredSeq
    <2> QED
      BY <2>2, <2>3, <2>4
  <1>15. /\ NewCall(c.fn, c.arg).kind = "call" /\ NewCall(c.fn, c.arg).id = Len(ds) + 1
         /\ NewCall(c.fn, c.arg).defers = <<>> /\ NewCall(c.fn, c.arg).outcome = Running
    BY <1>14 DEF NewCall
  <1>16. /\ Linked(Append(t, NewCall(c.fn, c.arg)), Append(ds, NewRecord(c.fn, c.arg)))
         /\ AllDisciplined(Append(ds, NewRecord(c.fn, c.arg)))
    BY <1>13, <1>14, <1>15, LinkPush
  <1>17. stack' = Append(t, NewCall(c.fn, c.arg)) /\ calls' = Append(ds, NewRecord(c.fn, c.arg))
    BY <1>2, <1>3, <1>4, <1>5, <1>6, <1>7, <1>11, <1>12 DEF RunCleanup, WithTop
  <1> QED
    BY <1>16, <1>17 DEF Accounted

\* The innermost activation has ended and leaves.
LEMMA PopStep ==
  ASSUME CleanupInv, Ended
  PROVE  /\ Popped \in Seq(Activation) /\ Settled \in Seq(CallRecord)
         /\ Linked(Popped, Settled) /\ AllDisciplined(Settled)
         /\ Len(stack) > 1 =>
              /\ Popped # <<>> /\ Len(Popped) = Len(stack) - 1
              /\ Popped[Len(Popped)] = Caller
  <1>1. /\ stack # <<>>
        /\ Top.kind = "call" => Top.outcome # Running /\ Top.defers = <<>>
    BY EndedOK, InnermostNonempty DEF CleanupInv, Ended, Unwinding, Innermost
  <1>2. Popped \in Seq(Activation) /\ Settled \in Seq(CallRecord)
    BY <1>1, Sequences, FrontOfSeq, SettledOK DEF Popped, CleanupInv
  <1>3. Linked(Popped, Settled) /\ AllDisciplined(Settled)
    BY <1>1, Sequences, LinkPop DEF Popped, Settled, Top
  <1>4. ASSUME Len(stack) > 1
        PROVE  /\ Popped # <<>> /\ Len(Popped) = Len(stack) - 1
               /\ Popped[Len(Popped)] = Caller
    <2>1. /\ Len(stack) \in Nat /\ Len(Popped) = Len(stack) - 1
          /\ \A i \in 1..(Len(stack) - 1) : Popped[i] = stack[i]
      BY <1>1, Sequences, FrontOfSeq, LenProperties DEF Popped
    <2>2. Popped # <<>>
      BY <1>2, <1>4, <2>1, EmptySeq
    <2> QED
      BY <1>4, <2>1, <2>2 DEF Caller
  <1> QED
    BY <1>2, <1>3, <1>4

LEMMA ReturnValueStep == ASSUME CleanupInv, ReturnValue PROVE Accounted'
  <1>1. PICK l : /\ stack' = WithCaller([Caller EXCEPT !.pc = @ + 1, !.locals = l])
                 /\ calls' = Settled
    BY DEF ReturnValue
  <1>2. Ended /\ Len(stack) > 1 /\ Caller.kind = "call"
    BY DEF ReturnValue
  <1>3. Caller \in CallFrame
    BY <1>2, CallerOK, CallOrInstance DEF CleanupInv
  <1>4. PICK f : f = [Caller EXCEPT !.pc = @ + 1, !.locals = l]
    OBVIOUS
  <1>5. f.kind = Caller.kind /\ f.id = Caller.id /\ f.defers = Caller.defers /\ f.outcome = Caller.outcome
    BY <1>3, <1>4 DEF CallFrame
  <1>6. Linked([Popped EXCEPT ![Len(Popped)] = f], Settled)
    BY <1>2, <1>5, PopStep, LinkKeep
  <1>7. stack' = [Popped EXCEPT ![Len(Popped)] = f]
    BY <1>1, <1>2, <1>4, PopStep DEF WithCaller
  <1> QED
    BY <1>1, <1>2, <1>6, <1>7, PopStep DEF Accounted

LEMMA PropagateErrorStep == ASSUME CleanupInv, PropagateError PROVE Accounted'
  <1>1. Ended /\ Len(stack) > 1 /\ Caller.kind = "call" /\ Caller.outcome = Running
    BY DEF PropagateError
  <1>2. Caller \in CallFrame /\ Top.outcome # Running
    BY <1>1, CallerOK, CallOrInstance, EndedOK DEF CleanupInv
  <1>3. PICK s : s = Popped
    OBVIOUS
  <1>4. PICK cs : cs = Settled
    OBVIOUS
  <1>5. /\ s \in Seq(Activation) /\ cs \in Seq(CallRecord) /\ Linked(s, cs) /\ AllDisciplined(cs)
        /\ s # <<>> /\ Len(s) = Len(stack) - 1 /\ s[Len(s)] = Caller
    BY <1>1, <1>3, <1>4, PopStep
  <1>6. PICK o : o = Top.outcome
    OBVIOUS
  <1>7. /\ Linked([s EXCEPT ![Len(s)] = [s[Len(s)] EXCEPT !.outcome = o]],
                  [cs EXCEPT ![s[Len(s)].id].body = o])
        /\ AllDisciplined([cs EXCEPT ![s[Len(s)].id].body = o])
    BY <1>1, <1>2, <1>5, <1>6, LinkEnd
  <1>8. /\ stack' = [s EXCEPT ![Len(s)] = [s[Len(s)] EXCEPT !.outcome = o]]
        /\ calls' = [cs EXCEPT ![s[Len(s)].id].body = o]
    BY <1>3, <1>4, <1>5, <1>6 DEF PropagateError, WithCaller
  <1> QED
    BY <1>7, <1>8 DEF Accounted

LEMMA ReturnToCleanupStep == ASSUME CleanupInv, ReturnToCleanup PROVE Accounted'
  <1>1. Ended /\ Len(stack) > 1 /\ Caller.kind = "call" /\ Caller.outcome # Running
    BY DEF ReturnToCleanup
  <1>2. Caller \in CallFrame
    BY <1>1, CallerOK, CallOrInstance DEF CleanupInv
  <1>3. PICK s : s = Popped
    OBVIOUS
  <1>4. PICK cs : cs = Settled
    OBVIOUS
  <1>5. /\ s \in Seq(Activation) /\ cs \in Seq(CallRecord) /\ Linked(s, cs) /\ AllDisciplined(cs)
        /\ s # <<>> /\ Len(s) = Len(stack) - 1 /\ s[Len(s)] = Caller
    BY <1>1, <1>3, <1>4, PopStep
  <1>6. CASE Top.outcome.tag = "ok"
    BY <1>3, <1>4, <1>5, <1>6 DEF ReturnToCleanup, Accounted
  <1>7. CASE Top.outcome.tag # "ok"
    <2>1. PICK d : d = Top.outcome.diag
      OBVIOUS
    <2>2. PICK f : f = [Caller EXCEPT !.outcome = ReportFailure(@, d)]
      OBVIOUS
    <2>3. PICK old : old = cs[Caller.id]
      OBVIOUS
    <2>4. PICK r : r = [old EXCEPT !.failures = Append(@, d)]
      OBVIOUS
    <2>5. ReportFailure(Caller.outcome, d) # Running
      BY DEF ReportFailure, Err, Running
    <2>6. /\ f.kind = "call" /\ f.id = Caller.id /\ f.defers = Caller.defers
          /\ f.outcome # Running
      BY <1>2, <2>2, <2>5 DEF CallFrame
    <2>7. old \in CallRecord /\ Tied(Caller, old) /\ Disciplined(old)
      BY <1>1, <1>5, <2>3, RecordOf
    <2>8. /\ r.registered = old.registered /\ r.attempted = old.attempted
          /\ r.body = old.body /\ r.outcome = old.outcome
      BY <2>4, <2>7 DEF CallRecord
    <2>9. Tied(f, r) /\ Disciplined(r)
      BY <1>1, <2>6, <2>7, <2>8 DEF Tied, Owed, Disciplined
    <2>10. /\ Linked([s EXCEPT ![Len(s)] = f], [cs EXCEPT ![f.id] = r])
           /\ AllDisciplined([cs EXCEPT ![f.id] = r])
      BY <1>1, <1>5, <2>6, <2>9, LinkChange
    <2>11. stack' = [s EXCEPT ![Len(s)] = f]
      BY <1>3, <1>5, <1>7, <2>1, <2>2 DEF ReturnToCleanup, WithCaller
    <2>12. calls' = [cs EXCEPT ![f.id] = r]
      BY <1>4, <1>7, <2>1, <2>3, <2>4, <2>6 DEF ReturnToCleanup
    <2> QED
      BY <2>10, <2>11, <2>12 DEF Accounted
  <1> QED
    BY <1>6, <1>7

LEMMA ReturnToInstanceStep == ASSUME CleanupInv, ReturnToInstance PROVE Accounted'
  <1>1. Ended /\ Len(stack) > 1 /\ Caller.kind = "instance" /\ calls' = Settled
    BY DEF ReturnToInstance
  <1>2. Caller \in InstanceFrame
    BY <1>1, CallerOK, CallOrInstance DEF CleanupInv
  <1>3. PICK f : f = [Caller EXCEPT !.outcome = Top.outcome]
    OBVIOUS
  <1>4. f.kind = Caller.kind /\ f.kind # "call"
    BY <1>2, <1>3 DEF InstanceFrame
  <1>5. Linked([Popped EXCEPT ![Len(Popped)] = f], Settled)
    BY <1>1, <1>4, PopStep, LinkKeep
  <1>6. stack' \in {Popped, [Popped EXCEPT ![Len(Popped)] = f]}
    BY <1>1, <1>3, PopStep DEF ReturnToInstance, WithCaller
  <1> QED
    BY <1>1, <1>5, <1>6, PopStep DEF Accounted

-----------------------------------------------------------------------------
(* The steps of an instance under construction. *)

LEMMA InitialiseStep ==
  ASSUME CleanupInv, stack # <<>>, Top \in InstanceFrame, NEW g, NEW st, Initialise(g, st)
  PROVE  Accounted'
  <1>1. PICK f : f = [Top EXCEPT !.stage = st]
    OBVIOUS
  <1>2. f.kind = Top.kind /\ f.kind # "call"
    BY <1>1 DEF InstanceFrame
  <1>3. CASE g = NoFunction
    <2>1. stack' = WithTop(f) /\ calls' = calls
      BY <1>1, <1>3 DEF Initialise
    <2> QED
      BY <1>2, <2>1, KeepStep
  <1>4. CASE g # NoFunction
    <2>1. PICK v : /\ stack' = Append(WithTop(f), NewCall(g, v))
                   /\ calls' = Append(calls, NewRecord(g, v))
      BY <1>1, <1>4 DEF Initialise
    <2>2. PICK t : t = [stack EXCEPT ![Len(stack)] = f]
      OBVIOUS
    <2>3. Linked(t, calls)
      BY <1>2, <2>2, Sequences, LinkKeep DEF Top
    <2>4. t \in Seq(Activation \cup {f})
      BY <2>2, Sequences, StoredSeq
    <2>5. /\ NewCall(g, v).kind = "call" /\ NewCall(g, v).id = Len(calls) + 1
          /\ NewCall(g, v).defers = <<>> /\ NewCall(g, v).outcome = Running
      BY DEF NewCall
    <2>6. /\ Linked(Append(t, NewCall(g, v)), Append(calls, NewRecord(g, v)))
          /\ AllDisciplined(Append(calls, NewRecord(g, v)))
      BY <2>3, <2>4, <2>5, Sequences, LinkPush
    <2> QED
      BY <2>1, <2>2, <2>6 DEF Accounted, WithTop
  <1> QED
    BY <1>3, <1>4

LEMMA PublishStep == ASSUME CleanupInv, Publish PROVE Accounted'
  <1>1. stack # <<>> /\ Top \in InstanceFrame
    BY BuildingOK DEF Publish, CleanupInv
  <1>2. PICK f : f = [Top EXCEPT !.outcome = Ok(ObjectRef(Top.inst))]
    OBVIOUS
  <1>3. f.kind = Top.kind /\ f.kind # "call"
    BY <1>1, <1>2 DEF InstanceFrame
  <1>4. stack' = WithTop(f) /\ calls' = calls
    BY <1>2 DEF Publish
  <1> QED
    BY <1>1, <1>3, <1>4, KeepStep

LEMMA InstanceStepAccounted == ASSUME CleanupInv, InstanceStep PROVE Accounted'
  <1>1. CASE ReadSingleton
    <2>1. \E l : stack' = WithTop([Top EXCEPT !.pc = @ + 1, !.locals = l])
      BY <1>1 DEF ReadSingleton
    <2>2. InBody /\ calls' = calls
      BY <1>1 DEF ReadSingleton, AtStatement
    <2> QED
      BY <2>1, <2>2, MoveStep
  <1>2. CASE ExecInstance
    BY <1>2, NewInstanceStep DEF ExecInstance, Allocate
  <1>3. CASE RunFieldInit
    BY <1>3, BuildingOK, InitialiseStep DEF RunFieldInit, CleanupInv
  <1>4. CASE RunNew
    BY <1>4, BuildingOK, InitialiseStep DEF RunNew, CleanupInv
  <1> QED
    BY <1>1, <1>2, <1>3, <1>4, PublishStep DEF InstanceStep

LEMMA BodyStepAccounted == ASSUME CleanupInv, BodyStep PROVE Accounted'
  <1>1. CASE ExecUse
    <2>1. \E l : stack' = WithTop([Top EXCEPT !.pc = @ + 1, !.locals = l])
      BY <1>1 DEF ExecUse
    <2>2. InBody /\ calls' = calls
      BY <1>1 DEF ExecUse, AtStatement
    <2> QED
      BY <2>1, <2>2, MoveStep
  <1>2. CASE ExecCall
    BY <1>2, CallStep DEF ExecCall
  <1>3. CASE ExecFail
    <2>1. Err(Raised(HereIn(Top))) # Running
      BY DEF Err, Running
    <2> QED
      BY <1>3, <2>1, EndBodyStep DEF ExecFail, AtStatement
  <1>4. CASE EnterUnreachable
    <2>1. Err(Raised(HereIn(Top))) # Running
      BY DEF Err, Running
    <2> QED
      BY <1>4, <2>1, EndBodyStep DEF EnterUnreachable, AtTerminator
  <1>5. CASE Return
    <2>1. Ok(Read(Top, CurrentBlock(Top).term.arg)) # Running
      BY DEF Ok, Running
    <2> QED
      BY <1>5, <2>1, EndBodyStep DEF Return, AtTerminator
  <1>6. CASE Goto \/ Switch
    <2>1. InBody /\ calls' = calls
      BY <1>6 DEF Goto, Switch, AtTerminator, JumpTo
    <2>2. \E b : stack' = WithTop([Top EXCEPT !.block = b, !.pc = 1])
      BY <1>6 DEF Goto, Switch, JumpTo
    <2> QED
      BY <2>1, <2>2, MoveStep
  <1> QED
    BY <1>1, <1>2, <1>3, <1>4, <1>5, <1>6, ExecDeferStep DEF BodyStep

-----------------------------------------------------------------------------
(* The drivers. *)

\* The last activation reports to the driver.
LEMMA ReportStep ==
  ASSUME CleanupInv, NEW at, Reports(at), stack' = <<>>, calls' = Settled
  PROVE  Accounted'
  BY PopStep, EmptyStep DEF Reports

LEMMA DriverStepAccounted == ASSUME CleanupInv, DriverStep PROVE Accounted'
  <1>1. CASE InitGlobals
    BY <1>1, SameStep, DriverStepCalls DEF InitGlobals
  <1>2. CASE GlobalsDone
    BY <1>2, ReportStep DEF GlobalsDone
  <1>3. CASE CallEntry
    BY <1>3, DriverStepCalls DEF CallEntry
  <1>4. CASE EntryDone
    BY <1>4, ReportStep DEF EntryDone
  <1>5. CASE NoSpecs \/ AllSpecsRun
    BY <1>5, SameStep DEF NoSpecs, AllSpecsRun
  <1>6. CASE StartSpec
    BY <1>6, DriverStepCalls DEF StartSpec
  <1>7. CASE CreateReceiver
    BY <1>7, NewInstanceStep DEF CreateReceiver, Allocate
  <1>8. CASE ReceiverReady
    BY <1>8, DriverStepCalls DEF ReceiverReady
  <1>9. CASE SpecDone
    <2>1. PICK at : Reports(at)
      BY <1>9 DEF SpecDone
    <2> QED
      BY <1>9, <2>1, ReportStep DEF SpecDone
  <1> QED
    BY <1>1, <1>2, <1>3, <1>4, <1>5, <1>6, <1>7, <1>8, <1>9 DEF DriverStep

-----------------------------------------------------------------------------
LEMMA CleanupInit == Init => CleanupInv
  <1> SUFFICES ASSUME Init PROVE CleanupInv
    OBVIOUS
  <1>1. Len(<<>>) = 0
    OBVIOUS
  <1>2. stack = <<>> /\ AllDisciplined(calls)
    BY <1>1 DEF Init, AllDisciplined
  <1> QED
    BY <1>2, InitOK, LinkEmpty DEF CleanupInv, Accounted

LEMMA CleanupNext == CleanupInv /\ [Next]_vars => CleanupInv'
  <1> SUFFICES ASSUME CleanupInv, [Next]_vars PROVE Accounted'
    BY StepOK DEF CleanupInv
  <1>1. CASE BodyStep
    BY <1>1, BodyStepAccounted
  <1>2. CASE InstanceStep
    BY <1>2, InstanceStepAccounted
  <1>3. CASE ReturnStep
    BY <1>3, RunCleanupStep, ReturnValueStep, PropagateErrorStep, ReturnToCleanupStep,
       ReturnToInstanceStep
    DEF ReturnStep
  <1>4. CASE DriverStep
    BY <1>4, DriverStepAccounted
  <1>5. CASE Overflow
    BY <1>5, Sequences, EmptyStep DEF Overflow
  <1>6. CASE UNCHANGED vars
    BY <1>6, SameStep DEF vars
  <1> QED
    BY <1>1, <1>2, <1>3, <1>4, <1>5, <1>6 DEF Next

LEMMA CleanupEnough == CleanupInv => CleanupDiscipline
  <1> SUFFICES ASSUME CleanupInv PROVE CleanupDiscipline
    OBVIOUS
  <1>1. DOMAIN calls = 1..Len(calls) /\ AllDisciplined(calls)
    BY Sequences, LenProperties
  <1> QED
    BY <1>1 DEF AllDisciplined, Disciplined, CleanupDiscipline, Finished

\* Whatever lowered program the interpreter runs, finish_callable_exit attempts
\* the deferred closures of every call once each, last registered first, after
\* the body has ended and before the call returns: on a normal return, on an
\* error raised in the body or below it, and when cleanup itself fails.
THEOREM CleanupAlways == Spec => []CleanupDiscipline
  BY CleanupInit, CleanupNext, CleanupEnough, PTL DEF Spec
=============================================================================
