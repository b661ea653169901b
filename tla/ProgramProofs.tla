---------------------------- MODULE ProgramProofs ----------------------------
(* What the two drivers and the creation of objects promise of every lowered
   program: globals first, published objects complete and, if the program
   never re-enters the construction of an object, shared; every spec judged;
   and, in its second part, that every failure of cleanup is reported. *)
EXTENDS CallReport, InterpreterProofs, FiniteSetTheorems, WellFoundedInduction

-----------------------------------------------------------------------------
(* The inductive invariants. *)

\* A call of f on the instance n has returned successfully, if there is an f.
Did(f, n, cs) ==
  f # NoFunction =>
    \E c \in 1..Len(cs) :
      cs[c].fn = f /\ cs[c].arg = ObjectRef(n) /\ cs[c].outcome.tag = "ok"

\* The initialiser that was called before the stage of the instance frame f.
InitialiserOf(pr, f) == IF f.stage = "new" THEN pr.fieldInit[f.type] ELSE pr.new[f.type]

\* The activation g is the call of an initialiser that f waits for.
RunsFor(pr, g, f, cs) ==
  /\ f.stage # "fieldInit"
  /\ g.kind = "call"
  /\ cs[g.id].fn = InitialiserOf(pr, f)
  /\ cs[g.id].arg = ObjectRef(f.inst)

\* The stage of an instance says what has been done for it, but for the
\* initialiser that is running.
BuiltAt(pr, s, cs, i) ==
  /\ s[i].inst # 0
  /\ i < Len(s) => s[i].outcome = Running /\ RunsFor(pr, s[i + 1], s[i], cs)
  /\ s[i].outcome = Running =>
       /\ s[i].stage = "publish" => Did(pr.fieldInit[s[i].type], s[i].inst, cs)
       /\ i = Len(s) /\ s[i].stage # "fieldInit" =>
            Did(InitialiserOf(pr, s[i]), s[i].inst, cs)

Built(pr, s, cs) == \A i \in 1..Len(s) : s[i].kind = "instance" => BuiltAt(pr, s, cs, i)

Complete(pr, sg, cs) ==
  \A o \in Objects : sg[o] # 0 => Did(pr.fieldInit[o], sg[o], cs) /\ Did(pr.new[o], sg[o], cs)

BuildInv == Built(program, stack, calls) /\ Complete(program, singletons, calls)

\* The call at the bottom of the stack is a call of f, recorded at c.
BottomCalls(s, cs, f) == Len(s) > 0 /\ s[1].kind = "call" /\ cs[s[1].id].fn = f

\* The initialiser of the globals was the first call, and has succeeded.
GlobalsSet(cs) == Len(cs) > 0 /\ cs[1].fn = program.globalInit /\ cs[1].outcome.tag = "ok"

GlobalsInv ==
  /\ driver = "boot" => stack = <<>> /\ calls = <<>> /\ ~globalsReady
  /\ driver = "globals" =>
       /\ ~globalsReady
       /\ program.globalInit # NoFunction
       /\ BottomCalls(stack, calls, program.globalInit) /\ stack[1].id = 1
  /\ driver \in {"idle", "entry", "receiver", "spec"} => globalsReady
  /\ globalsReady /\ program.globalInit # NoFunction => GlobalsSet(calls)

Succeeded(f, cs) == \E c \in 1..Len(cs) : cs[c].fn = f /\ cs[c].outcome.tag = "ok"

Failed(vs) == {i \in 1..Len(vs) : vs[i] = "FAIL"}

\* The verdicts are those of the specs before nextSpec.
Judged ==
  /\ Len(verdicts) = nextSpec - 1
  /\ nextSpec <= Len(program.specs) + 1
  /\ \A i \in 1..Len(verdicts) : verdicts[i] = "PASS" => Succeeded(program.specs[i].it, calls)

Counted == driver \notin {"done", "aborted"} => Len(diagnostics) = Cardinality(Failed(verdicts))

JudgedAll ==
  program.mode = "test" /\ driver = "done" /\ globalsReady /\ program.specs # <<>> =>
    /\ Len(verdicts) = Len(program.specs)
    /\ Len(diagnostics) = Cardinality(Failed(verdicts))

RunnerInv ==
  /\ driver = "entry" => program.mode = "run"
  /\ driver = "spec" => BottomCalls(stack, calls, program.specs[nextSpec].it)
  /\ Judged /\ Counted /\ JudgedAll

\* The objects that the activation f may still look up, and those that what it
\* calls may.
Inner(pr, needs, f) ==
  IF f.kind = "call" THEN needs[f.fn] ELSE InitialiserNeeds(pr, needs, f.type)

Outer(pr, needs, f) ==
  IF f.kind = "call" THEN needs[f.fn]
    ELSE ({f.type} \cap Objects) \cup InitialiserNeeds(pr, needs, f.type)

\* What is called or created needs no more than what calls or creates it.
Nested(pr, needs, s) ==
  \A i, j \in 1..Len(s) : i < j => Outer(pr, needs, s[j]) \subseteq Inner(pr, needs, s[i])

\* The statements of the function f call or defer the function g, or make a t.
Mentions(pr, f, g) ==
  \E b \in DOMAIN pr.body[f] : \E i \in DOMAIN pr.body[f][b].stmts :
    pr.body[f][b].stmts[i].op \in {"call", "defer"} /\ pr.body[f][b].stmts[i].fn = g

Makes(pr, f, t) ==
  \E b \in DOMAIN pr.body[f] : \E i \in DOMAIN pr.body[f][b].stmts :
    pr.body[f][b].stmts[i].op = "instance" /\ pr.body[f][b].stmts[i].type = t

\* What a call has deferred is deferred by its code.
DeferredInCode(pr, s) ==
  \A i \in 1..Len(s) : s[i].kind = "call" =>
    \A k \in 1..Len(s[i].defers) : Mentions(pr, s[i].fn, s[i].defers[k].fn)

\* An object under construction is not published.
Unpublished(s, sg) ==
  \A i \in 1..Len(s) :
    s[i].kind = "instance" /\ s[i].outcome = Running /\ s[i].type \in Objects => sg[s[i].type] = 0

ServedPublished(sg, sv) ==
  \A o \in Objects : sv[o] \subseteq {sg[o]} /\ (sg[o] = 0 => sv[o] = {})

Needs(pr) == CHOOSE needs \in [Functions -> SUBSET Objects] : Covers(pr, needs)

SharedInv ==
  /\ NoReentry(program)
  /\ Nested(program, Needs(program), stack)
  /\ DeferredInCode(program, stack)
  /\ Unpublished(stack, singletons)
  /\ ServedPublished(singletons, served)

-----------------------------------------------------------------------------
(* The history of calls only grows. *)

\* The record r became q: the call is the same, and an outcome is final.
Grown(r, q) ==
  /\ q.fn = r.fn /\ q.arg = r.arg
  /\ r.outcome # Running => q.outcome = r.outcome

Kept(cs, ds) ==
  /\ Len(cs) <= Len(ds)
  /\ \A c \in 1..Len(cs) : Grown(cs[c], ds[c])

LEMMA KeptSame == ASSUME NEW cs \in Seq(CallRecord) PROVE Kept(cs, cs)
  BY LenProperties DEF Kept, Grown

LEMMA KeptTwice ==
  ASSUME NEW cs \in Seq(CallRecord), NEW ds \in Seq(CallRecord), NEW es \in Seq(CallRecord),
         Kept(cs, ds), Kept(ds, es)
  PROVE  Kept(cs, es)
  <1>1. Len(cs) \in Nat /\ Len(ds) \in Nat /\ Len(es) \in Nat
    BY LenProperties
  <1> QED
    BY <1>1 DEF Kept, Grown

LEMMA KeptAppended ==
  ASSUME NEW cs \in Seq(CallRecord), NEW r
  PROVE  Kept(cs, Append(cs, r))
  <1>1. PICK ds : ds = Append(cs, r)
    OBVIOUS
  <1>2. Kept(cs, ds)
    BY <1>1, AppendedSeq DEF Kept, Grown
  <1> QED
    BY <1>1, <1>2

LEMMA KeptStored ==
  ASSUME NEW cs \in Seq(CallRecord), NEW id, NEW r,
         id \in 1..Len(cs) => Grown(cs[id], r)
  PROVE  Kept(cs, [cs EXCEPT ![id] = r])
  <1>1. PICK ds : ds = [cs EXCEPT ![id] = r]
    OBVIOUS
  <1>2. Kept(cs, ds)
    BY <1>1, StoredSeq DEF Kept, Grown
  <1> QED
    BY <1>1, <1>2

\* What a step notes about a call that goes on.
LEMMA KeptNoted ==
  ASSUME NEW cs \in Seq(CallRecord), NEW id, NEW x
  PROVE  /\ Kept(cs, [cs EXCEPT ![id].body = x])
         /\ Kept(cs, [cs EXCEPT ![id].registered = Append(@, x)])
         /\ Kept(cs, [cs EXCEPT ![id].attempted = Append(@, x)])
         /\ Kept(cs, [cs EXCEPT ![id].failures = Append(@, x)])
  <1>1. id \in 1..Len(cs) => cs[id] \in CallRecord
    BY ElementOfSeq
  <1>2. Kept(cs, [cs EXCEPT ![id].body = x])
    <2>1. id \in 1..Len(cs) => Grown(cs[id], [cs[id] EXCEPT !.body = x])
      BY <1>1 DEF CallRecord, Grown
    <2> QED
      BY <2>1, KeptStored
  <1>3. Kept(cs, [cs EXCEPT ![id].registered = Append(@, x)])
    <2>1. id \in 1..Len(cs) => Grown(cs[id], [cs[id] EXCEPT !.registered = Append(@, x)])
      BY <1>1 DEF CallRecord, Grown
    <2> QED
      BY <2>1, KeptStored
  <1>4. Kept(cs, [cs EXCEPT ![id].attempted = Append(@, x)])
    <2>1. id \in 1..Len(cs) => Grown(cs[id], [cs[id] EXCEPT !.attempted = Append(@, x)])
      BY <1>1 DEF CallRecord, Grown
    <2> QED
      BY <2>1, KeptStored
  <1>5. Kept(cs, [cs EXCEPT ![id].failures = Append(@, x)])
    <2>1. id \in 1..Len(cs) => Grown(cs[id], [cs[id] EXCEPT !.failures = Append(@, x)])
      BY <1>1 DEF CallRecord, Grown
    <2> QED
      BY <2>1, KeptStored
  <1> QED
    BY <1>2, <1>3, <1>4, <1>5

\* The call that ends is settled in its record, which had no outcome before.
LEMMA KeptSettled ==
  ASSUME CleanupInv, Ended
  PROVE  /\ Settled \in Seq(CallRecord)
         /\ Kept(calls, Settled)
         /\ Top.kind = "call" =>
              /\ Top.id \in 1..Len(calls)
              /\ Settled[Top.id].fn = calls[Top.id].fn
              /\ Settled[Top.id].arg = calls[Top.id].arg
              /\ Settled[Top.id].outcome = Top.outcome
  <1>1. stack # <<>> /\ Settled \in Seq(CallRecord)
    BY PopStep, EndedOK DEF CleanupInv
  <1>2. CASE Top.kind # "call"
    BY <1>1, <1>2, Sequences, KeptSame DEF Settled
  <1>3. CASE Top.kind = "call"
    <2>1. PICK id : id = Top.id
      OBVIOUS
    <2>2. id \in 1..Len(calls) /\ calls[id] \in CallRecord /\ calls[id].outcome = Running
      BY <1>1, <1>3, <2>1, Sequences, RecordOf DEF Top, Tied
    <2>3. PICK r : r = [calls[id] EXCEPT !.outcome = Top.outcome]
      OBVIOUS
    <2>4. r.fn = calls[id].fn /\ r.arg = calls[id].arg /\ r.outcome = Top.outcome
      BY <2>2, <2>3 DEF CallRecord
    <2>5. Settled = [calls EXCEPT ![id] = r]
      BY <1>3, <2>1, <2>3 DEF Settled
    <2>6. Kept(calls, [calls EXCEPT ![id] = r])
      BY <2>2, <2>4, Sequences, KeptStored DEF Grown
    <2>7. Settled[id] = r
      BY <2>2, <2>5, Sequences, StoredSeq
    <2> QED
      BY <1>1, <2>1, <2>2, <2>4, <2>5, <2>6, <2>7
  <1> QED
    BY <1>2, <1>3

-----------------------------------------------------------------------------
(* What the steps do to the stack, activation by activation. *)

\* The activation f, later.
Same(pr, f, g) ==
  /\ g.kind = f.kind
  /\ f.kind = "call" =>
       /\ g.id = f.id /\ g.fn = f.fn
       /\ \A k \in 1..Len(g.defers) :
            \/ k \in 1..Len(f.defers) /\ g.defers[k] = f.defers[k]
            \/ Mentions(pr, f.fn, g.defers[k].fn)
  /\ f.kind = "instance" =>
       g.type = f.type /\ g.inst = f.inst /\ (g.outcome = Running => f.outcome = Running)

\* The first n activations stay, the last of them possibly changed.
Below(pr, s, t, n) ==
  /\ Len(s) \in Nat /\ Len(t) \in Nat /\ n \in 1..Len(s) /\ n <= Len(t)
  /\ \A i \in 1..(n - 1) : t[i] = s[i]
  /\ Same(pr, s[n], t[n])

\* The innermost activation moves, calls or creates, or returns.
Moved(pr, s, t) == Len(t) = Len(s) /\ Below(pr, s, t, Len(s))

Grew(pr, s, t) == Len(t) = Len(s) + 1 /\ Below(pr, s, t, Len(s))

Returned(pr, s, t) == Len(t) = Len(s) - 1 /\ Below(pr, s, t, Len(s) - 1)

\* An instance on which no initialiser has run yet, of no published object.
Fresh(g) ==
  /\ g.kind = "instance" /\ g.inst # 0 /\ g.stage = "fieldInit" /\ g.outcome = Running
  /\ g.type \in Objects => singletons[g.type] = 0

\* Why the activation f called or created g.
Caused(pr, f, g) ==
  \/ /\ g.kind = "call" /\ g.defers = <<>> /\ g.fn \in Functions
     /\ f.kind = "call" =>
          Mentions(pr, f.fn, g.fn) \/ \E k \in 1..Len(f.defers) : f.defers[k].fn = g.fn
     /\ f.kind = "instance" => g.fn \in {pr.fieldInit[f.type], pr.new[f.type]} \ {NoFunction}
  \/ Fresh(g) /\ f.kind = "call" /\ Makes(pr, f.fn, g.type)

LEMMA FreshInstance ==
  ASSUME CleanupInv, NEW t, t \in Objects => singletons[t] = 0
  PROVE  Fresh(NewInstance(t)) /\ NewInstance(t).type = t
  <1>1. allocated \in Nat
    BY DEF CleanupInv, IInv, TypeOK
  <1> QED
    BY <1>1 DEF Fresh, NewInstance

LEMMA SameSame == ASSUME NEW pr, NEW f PROVE Same(pr, f, f)
  BY DEF Same

LEMMA TopMoved ==
  ASSUME CleanupInv, stack # <<>>, NEW f, Same(program, Top, f), NEW t, t = WithTop(f)
  PROVE  /\ Moved(program, stack, t) /\ t[Len(stack)] = f
         /\ \A i \in 1..(Len(stack) - 1) : t[i] = stack[i]
  <1>1. Len(stack) \in Nat \ {0}
    BY Sequences, EmptySeq
  <1>2. Len(t) = Len(stack) /\ \A i \in 1..Len(stack) : t[i] = IF i = Len(stack) THEN f ELSE stack[i]
    BY Sequences, StoredSeq DEF WithTop
  <1> QED
    BY <1>1, <1>2 DEF Moved, Below, Top

\* The innermost activation becomes f and calls g.
Pushes(f, g) == stack' = Append(WithTop(f), g)

LEMMA TopPushed ==
  ASSUME CleanupInv, stack # <<>>, NEW f, Same(program, Top, f), NEW g, Pushes(f, g)
  PROVE  /\ Grew(program, stack, stack')
         /\ stack'[Len(stack)] = f /\ stack'[Len(stack) + 1] = g
         /\ \A i \in 1..(Len(stack) - 1) : stack'[i] = stack[i]
  <1>1. Len(stack) \in Nat \ {0}
    BY Sequences, EmptySeq
  <1>2. PICK u : u = WithTop(f)
    OBVIOUS
  <1>3. /\ Len(u) = Len(stack) /\ u \in Seq(Activation \cup {f})
        /\ \A i \in 1..Len(stack) : u[i] = IF i = Len(stack) THEN f ELSE stack[i]
    BY <1>2, Sequences, StoredSeq DEF WithTop
  <1>4. PICK t : t = stack'
    OBVIOUS
  <1>5. t = Append(u, g)
    BY <1>2, <1>4 DEF Pushes
  <1>6. Len(t) = Len(u) + 1 /\ t[Len(u) + 1] = g /\ \A i \in 1..Len(u) : t[i] = u[i]
    BY <1>3, <1>5, AppendedSeq
  <1>7. /\ Grew(program, stack, t)
        /\ t[Len(stack)] = f /\ t[Len(stack) + 1] = g
        /\ \A i \in 1..(Len(stack) - 1) : t[i] = stack[i]
    BY <1>1, <1>3, <1>6 DEF Grew, Below, Top
  <1> QED
    BY <1>4, <1>7

LEMMA Pushed ==
  ASSUME CleanupInv, stack # <<>>, NEW g, NEW t, t = Append(stack, g)
  PROVE  /\ Grew(program, stack, t) /\ t[Len(stack) + 1] = g
         /\ \A i \in 1..Len(stack) : t[i] = stack[i]
  <1>1. Len(stack) \in Nat \ {0}
    BY Sequences, EmptySeq
  <1>2. Len(t) = Len(stack) + 1 /\ t[Len(stack) + 1] = g /\ \A i \in 1..Len(stack) : t[i] = stack[i]
    BY Sequences, AppendedSeq
  <1> QED
    BY <1>1, <1>2, SameSame DEF Grew, Below

LEMMA TopPopped ==
  ASSUME CleanupInv, Len(stack) > 1, NEW t, t = Popped
  PROVE  /\ Returned(program, stack, t) /\ Len(stack) \in Nat
         /\ \A i \in 1..(Len(stack) - 1) : t[i] = stack[i]
  <1>1. Len(stack) \in Nat /\ stack # <<>>
    BY Sequences, EmptySeq, LenProperties
  <1>2. Len(t) = Len(stack) - 1 /\ \A i \in 1..(Len(stack) - 1) : t[i] = stack[i]
    BY <1>1, Sequences, FrontOfSeq DEF Popped
  <1> QED
    BY <1>1, <1>2, SameSame DEF Returned, Below

LEMMA CallerMoved ==
  ASSUME CleanupInv, Len(stack) > 1, NEW f, Same(program, Caller, f), NEW t, t = WithCaller(f)
  PROVE  /\ Returned(program, stack, t) /\ t[Len(stack) - 1] = f /\ Len(stack) \in Nat
         /\ \A i \in 1..(Len(stack) - 2) : t[i] = stack[i]
  <1>1. Len(stack) \in Nat /\ stack # <<>>
    BY Sequences, EmptySeq, LenProperties
  <1>2. PICK u : u = Popped
    OBVIOUS
  <1>3. /\ Len(u) = Len(stack) - 1 /\ u \in Seq(Activation)
        /\ \A i \in 1..(Len(stack) - 1) : u[i] = stack[i]
    BY <1>1, <1>2, Sequences, FrontOfSeq DEF Popped
  <1>4. t = [u EXCEPT ![Len(stack) - 1] = f]
    BY <1>2 DEF WithCaller
  <1>5. Len(t) = Len(u) /\ \A i \in 1..Len(u) : t[i] = IF i = Len(stack) - 1 THEN f ELSE u[i]
    BY <1>3, <1>4, StoredSeq
  <1> QED
    BY <1>1, <1>3, <1>5 DEF Returned, Below, Caller

-----------------------------------------------------------------------------
(* The shape of every step that is not the driver's. *)

LEMMA AtCode ==
  ASSUME CleanupInv, InBody, HasStatement(Top), NEW s, s = CurrentStatement(Top)
  PROVE  /\ s.op \in {"call", "defer"} => Mentions(program, Top.fn, s.fn)
         /\ s.op = "instance" => Makes(program, Top.fn, s.type)
         /\ s \in Statement
  <1>1. stack # <<>> /\ Top \in CallFrame /\ InCode(program, Top) /\ Top.kind = "call"
    BY InBodyOK DEF CleanupInv, CallFrame
  <1>2. program \in Programs /\ Top.fn \in Functions
    BY <1>1 DEF CleanupInv, IInv, TypeOK, CallFrame
  <1>3. PICK body : body = program.body[Top.fn]
    OBVIOUS
  <1>4. body \in Seq(Block) /\ Top.block \in 1..Len(body) /\ body[Top.block] \in Block
    BY <1>1, <1>2, <1>3, LoweredBody DEF InCode
  <1>5. body[Top.block].stmts \in Seq(Statement)
    BY <1>4 DEF Block
  <1>6. Top.pc \in 1..Len(body[Top.block].stmts)
    BY <1>1, <1>3, <1>5, LenProperties DEF InCode, HasStatement, CurrentBlock
  <1>7. Top.block \in DOMAIN body /\ Top.pc \in DOMAIN body[Top.block].stmts
    BY <1>4, <1>5, <1>6, LenProperties
  <1>8. s = body[Top.block].stmts[Top.pc]
    BY <1>3 DEF CurrentStatement, CurrentBlock
  <1> QED
    BY <1>3, <1>5, <1>6, <1>7, <1>8, ElementOfSeq DEF Mentions, Makes

\* A frame that moves in its code, or ends its body.
LEMMA SameFrame ==
  ASSUME NEW pr, NEW f \in CallFrame
  PROVE  /\ \A l : Same(pr, f, [f EXCEPT !.pc = @ + 1, !.locals = l])
         /\ \A b : Same(pr, f, [f EXCEPT !.block = b, !.pc = 1])
         /\ \A o : Same(pr, f, [f EXCEPT !.outcome = o])
  BY DEF Same, CallFrame

LEMMA BodyShape ==
  ASSUME CleanupInv, BodyStep
  PROVE  /\ stack # <<>> /\ Top.kind = "call"
         /\ \/ Moved(program, stack, stack')
            \/ Grew(program, stack, stack') /\ Caused(program, Top, stack'[Len(stack) + 1])
  <1>1. InBody
    BY DEF BodyStep, ExecUse, ExecCall, ExecDefer, ExecFail, Goto, Switch, Return,
           EnterUnreachable, AtStatement, AtTerminator
  <1>2. stack # <<>> /\ Top \in CallFrame /\ Top.kind = "call"
    BY <1>1, InBodyOK DEF CleanupInv, CallFrame
  <1>3. CASE ExecUse
    <2>1. PICK l : stack' = WithTop([Top EXCEPT !.pc = @ + 1, !.locals = l])
      BY <1>3 DEF ExecUse
    <2> QED
      BY <1>2, <2>1, SameFrame, TopMoved
  <1>4. CASE Goto \/ Switch
    <2>1. PICK b : stack' = WithTop([Top EXCEPT !.block = b, !.pc = 1])
      BY <1>4 DEF Goto, Switch, JumpTo
    <2> QED
      BY <1>2, <2>1, SameFrame, TopMoved
  <1>5. CASE ExecFail \/ EnterUnreachable \/ Return
    <2>1. PICK o : stack' = WithTop([Top EXCEPT !.outcome = o])
      BY <1>5 DEF ExecFail, EnterUnreachable, Return, EndBody
    <2> QED
      BY <1>2, <2>1, SameFrame, TopMoved
  <1>6. CASE ExecCall
    <2>1. PICK s : s = CurrentStatement(Top)
      OBVIOUS
    <2>2. PICK v : stack' = Append(stack, NewCall(s.fn, v))
      BY <1>6, <2>1 DEF ExecCall
    <2>3. s.op = "call" /\ s \in Statement /\ Mentions(program, Top.fn, s.fn)
      BY <1>1, <1>6, <2>1, AtCode DEF ExecCall, AtStatement
    <2>4. s.fn \in Functions
      BY <2>3 DEF Statement
    <2>5. PICK g : g = NewCall(s.fn, v)
      OBVIOUS
    <2>6. Caused(program, Top, g)
      BY <1>2, <2>3, <2>4, <2>5 DEF Caused, NewCall
    <2>7. stack' = Append(stack, g)
      BY <2>2, <2>5
    <2>8. Grew(program, stack, stack') /\ stack'[Len(stack) + 1] = g
      BY <1>2, <2>7, Pushed
    <2> QED
      BY <1>2, <2>6, <2>8
  <1>7. CASE ExecDefer
    <2>1. PICK s : s = CurrentStatement(Top)
      OBVIOUS
    <2>2. PICK c : c = [fn |-> s.fn, arg |-> Read(Top, s.arg)]
      OBVIOUS
    <2>3. Mentions(program, Top.fn, s.fn)
      BY <1>1, <1>7, <2>1, AtCode DEF ExecDefer, AtStatement
    <2>4. PICK f : f = [Top EXCEPT !.pc = @ + 1, !.defers = Append(@, c)]
      OBVIOUS
    <2>5. stack' = WithTop(f)
      BY <1>7, <2>1, <2>2, <2>4 DEF ExecDefer
    <2>6. /\ f.kind = Top.kind /\ f.id = Top.id /\ f.fn = Top.fn
          /\ f.defers = Append(Top.defers, c) /\ Top.defers \in Seq(Closure)
      BY <1>2, <2>4 DEF CallFrame
    <2>7. /\ Len(Top.defers) \in Nat /\ Len(f.defers) = Len(Top.defers) + 1
          /\ \A k \in 1..Len(Top.defers) : f.defers[k] = Top.defers[k]
          /\ f.defers[Len(Top.defers) + 1] = c
      BY <2>6, AppendedSeq
    <2>8. Same(program, Top, f)
      BY <1>2, <2>2, <2>3, <2>6, <2>7 DEF Same
    <2> QED
      BY <1>2, <2>5, <2>8, TopMoved
  <1> QED
    BY <1>2, <1>3, <1>4, <1>5, <1>6, <1>7 DEF BodyStep

LEMMA InstanceShape ==
  ASSUME CleanupInv, InstanceStep
  PROVE  /\ stack # <<>>
         /\ \/ Moved(program, stack, stack')
            \/ Grew(program, stack, stack') /\ Caused(program, Top, stack'[Len(stack) + 1])
  <1>1. program \in Program
    BY LoweredBody, ProgramsAreLowered DEF CleanupInv, IInv, TypeOK
  <1>2. CASE ReadSingleton
    <2>1. PICK l : stack' = WithTop([Top EXCEPT !.pc = @ + 1, !.locals = l])
      BY <1>2 DEF ReadSingleton
    <2>2. stack # <<>> /\ Top \in CallFrame
      BY <1>2, InBodyOK DEF CleanupInv, ReadSingleton, AtStatement
    <2> QED
      BY <2>1, <2>2, SameFrame, TopMoved
  <1>3. CASE ExecInstance
    <2>1. PICK s : s = CurrentStatement(Top)
      OBVIOUS
    <2>2. /\ stack' = Append(stack, NewInstance(s.type))
          /\ s.type \in Objects => singletons[s.type] = 0
      BY <1>3, <2>1 DEF ExecInstance, Allocate
    <2>3. stack # <<>> /\ Top \in CallFrame /\ InBody
      BY <1>3, InBodyOK DEF CleanupInv, ExecInstance, AtStatement
    <2>4. Makes(program, Top.fn, s.type)
      BY <1>3, <2>1, <2>3, AtCode DEF ExecInstance, AtStatement
    <2>5. PICK g : g = NewInstance(s.type)
      OBVIOUS
    <2>6. Fresh(g) /\ g.type = s.type
      BY <2>2, <2>5, FreshInstance
    <2>7. Caused(program, Top, g)
      BY <2>3, <2>4, <2>6 DEF Caused, CallFrame
    <2>8. stack' = Append(stack, g)
      BY <2>2, <2>5
    <2>9. Grew(program, stack, stack') /\ stack'[Len(stack) + 1] = g
      BY <2>3, <2>8, Pushed
    <2> QED
      BY <2>3, <2>7, <2>9
  <1>4. ASSUME NEW g, NEW st, Top \in InstanceFrame, stack # <<>>, Initialise(g, st),
               g \in {program.fieldInit[Top.type], program.new[Top.type]},
               g \in Functions \cup {NoFunction}
        PROVE  \/ Moved(program, stack, stack')
               \/ Grew(program, stack, stack') /\ Caused(program, Top, stack'[Len(stack) + 1])
    <2>1. PICK f : f = [Top EXCEPT !.stage = st]
      OBVIOUS
    <2>2. Same(program, Top, f) /\ Top.kind = "instance"
      BY <1>4, <2>1 DEF Same, InstanceFrame
    <2>3. CASE g = NoFunction
      BY <1>4, <2>1, <2>2, <2>3, TopMoved DEF Initialise
    <2>4. CASE g # NoFunction
      <3>1. PICK v : stack' = Append(WithTop(f), NewCall(g, v))
        BY <1>4, <2>1, <2>4 DEF Initialise
      <3>2. PICK c : c = NewCall(g, v)
        OBVIOUS
      <3>3. Caused(program, Top, c)
        BY <1>4, <2>2, <2>4, <3>2 DEF Caused, NewCall
      <3>4. Pushes(f, c)
        BY <3>1, <3>2 DEF Pushes
      <3>5. Grew(program, stack, stack') /\ stack'[Len(stack) + 1] = c
        BY <1>4, <2>2, <3>4, TopPushed
      <3> QED
        BY <3>3, <3>5
    <2> QED
      BY <2>3, <2>4
  <1>5. CASE RunFieldInit \/ RunNew
    <2>1. stack # <<>> /\ Top \in InstanceFrame
      BY <1>5, BuildingOK DEF RunFieldInit, RunNew, CleanupInv
    <2>2. /\ program.fieldInit[Top.type] \in Functions \cup {NoFunction}
          /\ program.new[Top.type] \in Functions \cup {NoFunction}
      BY <1>1, <2>1 DEF Program, InstanceFrame
    <2> QED
      BY <1>4, <1>5, <2>1, <2>2 DEF RunFieldInit, RunNew
  <1>6. CASE Publish
    <2>1. PICK o : stack' = WithTop([Top EXCEPT !.outcome = o])
      BY <1>6 DEF Publish
    <2>2. stack # <<>> /\ Top \in InstanceFrame
      BY <1>6, BuildingOK DEF Publish, CleanupInv
    <2>3. Same(program, Top, [Top EXCEPT !.outcome = o])
      BY <1>6, <2>2 DEF Same, InstanceFrame, Publish, Building
    <2> QED
      BY <2>1, <2>2, <2>3, TopMoved
  <1> QED
    BY <1>2, <1>3, <1>5, <1>6 DEF InstanceStep

LEMMA ReturnShape ==
  ASSUME CleanupInv, ReturnStep
  PROVE  /\ stack # <<>>
         /\ \/ ~RunCleanup /\ Returned(program, stack, stack') /\ Len(stack) > 1
            \/ /\ RunCleanup /\ Grew(program, stack, stack')
               /\ Caused(program, Top, stack'[Len(stack) + 1])
  <1>0. Ended => ~RunCleanup
    BY DEF Ended, RunCleanup, Unwinding, Innermost
  <1>1. CASE RunCleanup
    <2>1. /\ stack # <<>> /\ Top \in CallFrame /\ Top.kind = "call"
          /\ Top.defers # <<>> /\ Top.defers \in Seq(Closure)
      BY <1>1, InnermostNonempty, TopOK, CallOrInstance DEF CleanupInv, RunCleanup, Unwinding, CallFrame
    <2>2. PICK c : c = LastDefer(Top.defers)
      OBVIOUS
    <2>3. PICK rest : rest = SubSeq(Top.defers, 1, Len(Top.defers) - 1)
      OBVIOUS
    <2>4. PICK f : f = [Top EXCEPT !.defers = rest]
      OBVIOUS
    <2>5. stack' = Append(WithTop(f), NewCall(c.fn, c.arg))
      BY <1>1, <2>2, <2>3, <2>4 DEF RunCleanup
    <2>6. /\ Len(Top.defers) \in Nat \ {0} /\ Len(rest) = Len(Top.defers) - 1
          /\ \A i \in 1..(Len(Top.defers) - 1) : rest[i] = Top.defers[i]
      BY <2>1, <2>3, FrontOfSeq, EmptySeq
    <2>7. f.kind = "call" /\ f.id = Top.id /\ f.fn = Top.fn /\ f.defers = rest
      BY <2>1, <2>4 DEF CallFrame
    <2>8. Same(program, Top, f)
      BY <2>1, <2>6, <2>7 DEF Same
    <2>9. c \in Closure /\ Len(Top.defers) \in 1..Len(Top.defers) /\ c = Top.defers[Len(Top.defers)]
      BY <2>1, <2>2, <2>6, ElementOfSeq DEF LastDefer
    <2>10. c.fn \in Functions
      BY <2>9 DEF Closure
    <2>11. PICK g : g = NewCall(c.fn, c.arg)
      OBVIOUS
    <2>12. Caused(program, Top, g)
      BY <2>1, <2>9, <2>10, <2>11 DEF Caused, NewCall
    <2>13. Pushes(f, g)
      BY <2>5, <2>11 DEF Pushes
    <2>14. Grew(program, stack, stack') /\ stack'[Len(stack) + 1] = g
      BY <2>1, <2>8, <2>13, TopPushed
    <2> QED
      BY <1>1, <2>1, <2>12, <2>14
  <1>2. CASE ReturnValue
    <2>1. PICK l : stack' = WithCaller([Caller EXCEPT !.pc = @ + 1, !.locals = l])
      BY <1>2 DEF ReturnValue
    <2>2. Len(stack) > 1 /\ Caller \in CallFrame /\ stack # <<>>
      BY <1>2, CallerOK, CallOrInstance DEF CleanupInv, ReturnValue
    <2> QED
      BY <1>0, <1>2, <2>1, <2>2, SameFrame, CallerMoved DEF ReturnValue
  <1>3. CASE PropagateError
    <2>1. stack' = WithCaller([Caller EXCEPT !.outcome = Top.outcome])
      BY <1>3 DEF PropagateError
    <2>2. Len(stack) > 1 /\ Caller \in CallFrame /\ stack # <<>>
      BY <1>3, CallerOK, CallOrInstance DEF CleanupInv, PropagateError
    <2> QED
      BY <1>0, <1>3, <2>1, <2>2, SameFrame, CallerMoved DEF PropagateError
  <1>4. CASE ReturnToCleanup
    <2>1. \/ stack' = Popped
          \/ \E o : stack' = WithCaller([Caller EXCEPT !.outcome = o])
      BY <1>4 DEF ReturnToCleanup
    <2>2. Len(stack) > 1 /\ Caller \in CallFrame /\ stack # <<>>
      BY <1>4, CallerOK, CallOrInstance DEF CleanupInv, ReturnToCleanup
    <2> QED
      BY <1>0, <1>4, <2>1, <2>2, SameFrame, CallerMoved, TopPopped DEF ReturnToCleanup
  <1>5. CASE ReturnToInstance
    <2>1. stack' \in {Popped, WithCaller([Caller EXCEPT !.outcome = Top.outcome])}
      BY <1>5 DEF ReturnToInstance
    <2>2. Len(stack) > 1 /\ Caller \in InstanceFrame /\ stack # <<>>
      BY <1>5, CallerOK, CallOrInstance DEF CleanupInv, ReturnToInstance
    <2>3. Top.outcome # Running
      BY <1>5, EndedOK DEF CleanupInv, ReturnToInstance
    <2>4. Same(program, Caller, [Caller EXCEPT !.outcome = Top.outcome])
      BY <2>2, <2>3 DEF Same, InstanceFrame
    <2> QED
      BY <1>0, <1>5, <2>1, <2>2, <2>4, CallerMoved, TopPopped DEF ReturnToInstance
  <1> QED
    BY <1>1, <1>2, <1>3, <1>4, <1>5 DEF ReturnStep

-----------------------------------------------------------------------------
(* The history of calls only grows. *)

LEMMA StepHistory ==
  ASSUME CleanupInv, BodyStep \/ InstanceStep \/ ReturnStep
  PROVE  Kept(calls, calls')
  <1>1. calls \in Seq(CallRecord) /\ calls' \in Seq(CallRecord)
    <2>1. IInv'
      BY StepOK DEF CleanupInv, Next
    <2> QED
      BY <2>1, Sequences DEF IInv, TypeOK
  <1>2. CASE calls' = calls
    BY <1>1, <1>2, KeptSame
  <1>3. ASSUME NEW r, calls' = Append(calls, r) PROVE Kept(calls, calls')
    BY <1>1, <1>3, KeptAppended
  <1>4. CASE BodyStep
    <2>1. \/ calls' = calls
          \/ \E r : calls' = Append(calls, r)
          \/ \E id, x : calls' = [calls EXCEPT ![id].body = x]
          \/ \E id, x : calls' = [calls EXCEPT ![id].registered = Append(@, x)]
      BY <1>4 DEF BodyStep, ExecUse, ExecCall, ExecDefer, ExecFail, Goto, Switch, Return,
                  EnterUnreachable, EndBody, JumpTo
    <2>2. ASSUME NEW id, NEW x, calls' = [calls EXCEPT ![id].body = x]
          PROVE  Kept(calls, calls')
      BY <1>1, <2>2, KeptNoted
    <2>3. ASSUME NEW id, NEW x, calls' = [calls EXCEPT ![id].registered = Append(@, x)]
          PROVE  Kept(calls, calls')
      BY <1>1, <2>3, KeptNoted
    <2> QED
      BY <1>2, <1>3, <2>1, <2>2, <2>3
  <1>5. CASE InstanceStep
    <2>1. calls' = calls \/ \E r : calls' = Append(calls, r)
      BY <1>5 DEF InstanceStep, ReadSingleton, ExecInstance, RunFieldInit, RunNew, Initialise,
                  Publish
    <2> QED
      BY <1>2, <1>3, <2>1
  <1>6. CASE RunCleanup
    <2>1. PICK cs : cs = [calls EXCEPT ![Top.id].attempted = Append(@, LastDefer(Top.defers))]
      OBVIOUS
    <2>2. PICK r : calls' = Append(cs, r)
      BY <1>6, <2>1 DEF RunCleanup
    <2>3. /\ stack # <<>> /\ Top \in CallFrame
          /\ Top.defers # <<>> /\ Top.defers \in Seq(Closure)
      BY <1>6, InnermostNonempty, TopOK, CallOrInstance DEF CleanupInv, RunCleanup, Unwinding, CallFrame
    <2>4. LastDefer(Top.defers) \in Closure
      BY <2>3, EmptySeq, ElementOfSeq DEF LastDefer
    <2>5. cs \in Seq(CallRecord)
      BY <1>1, <2>1, <2>4, AttemptedOK
    <2>6. Kept(calls, cs)
      BY <1>1, <2>1, KeptNoted
    <2>7. Kept(cs, calls')
      BY <2>2, <2>5, KeptAppended
    <2> QED
      BY <1>1, <2>5, <2>6, <2>7, KeptTwice
  <1>7. CASE ReturnStep /\ ~RunCleanup
    <2>1. Ended
      BY <1>7 DEF ReturnStep, ReturnValue, PropagateError, ReturnToCleanup, ReturnToInstance
    <2>2. PICK cs : cs = Settled
      OBVIOUS
    <2>3. cs \in Seq(CallRecord) /\ Kept(calls, cs)
      BY <2>1, <2>2, KeptSettled
    <2>4. \/ calls' = cs
          \/ \E id, x : calls' = [cs EXCEPT ![id].body = x]
          \/ \E id, x : calls' = [cs EXCEPT ![id].failures = Append(@, x)]
      BY <1>7, <2>2 DEF ReturnStep, ReturnValue, PropagateError, ReturnToCleanup, ReturnToInstance
    <2>5. Kept(cs, calls')
      <3>1. ASSUME NEW id, NEW x, calls' = [cs EXCEPT ![id].body = x]
            PROVE  Kept(cs, calls')
        BY <2>3, <3>1, KeptNoted
      <3>2. ASSUME NEW id, NEW x, calls' = [cs EXCEPT ![id].failures = Append(@, x)]
            PROVE  Kept(cs, calls')
        BY <2>3, <3>2, KeptNoted
      <3> QED
        BY <2>3, <2>4, <3>1, <3>2, KeptSame
    <2> QED
      BY <1>1, <2>3, <2>5, KeptTwice
  <1> QED
    BY <1>4, <1>5, <1>6, <1>7 DEF ReturnStep

\* Every step of the tree of calls: below its innermost activation, or below the
\* caller of that one if it returns, nothing moves.
Advanced(pr, s, t) ==
  \/ Moved(pr, s, t)
  \/ Grew(pr, s, t) /\ Caused(pr, s[Len(s)], t[Len(t)])
  \/ Returned(pr, s, t) /\ Len(s) > 1

TreeStep == BodyStep \/ InstanceStep \/ ReturnStep

LEMMA TreeShape ==
  ASSUME CleanupInv, TreeStep
  PROVE  /\ stack # <<>> /\ Len(stack) \in Nat \ {0}
         /\ Advanced(program, stack, stack')
         /\ Kept(calls, calls')
         /\ program' = program
         /\ UNCHANGED runVars /\ globalsReady' = globalsReady
  <1>1. stack # <<>>
    BY BodyShape, InstanceShape, ReturnShape DEF TreeStep
  <1>2. Len(stack) \in Nat \ {0}
    BY <1>1, Sequences, EmptySeq
  <1>3. \/ Moved(program, stack, stack')
        \/ Grew(program, stack, stack') /\ Caused(program, Top, stack'[Len(stack) + 1])
        \/ Returned(program, stack, stack') /\ Len(stack) > 1
    BY BodyShape, InstanceShape, ReturnShape DEF TreeStep
  <1>4. Advanced(program, stack, stack')
    BY <1>2, <1>3 DEF Advanced, Grew, Top
  <1>5. Kept(calls, calls')
    BY StepHistory DEF TreeStep
  <1>6. program' = program /\ UNCHANGED runVars /\ globalsReady' = globalsReady
    BY DEF TreeStep, BodyStep, ExecUse, ExecCall, ExecDefer, ExecFail, Goto, Switch, Return,
           EnterUnreachable, EndBody, JumpTo, InstanceStep, ReadSingleton, ExecInstance,
           RunFieldInit, RunNew, Initialise, Publish, ReturnStep, RunCleanup, ReturnValue,
           PropagateError, ReturnToCleanup, ReturnToInstance, globalVars, runVars
  <1> QED
    BY <1>1, <1>2, <1>4, <1>5, <1>6

\* The activation at the bottom stays where the driver put it.
LEMMA BottomStays ==
  ASSUME NEW pr, NEW s, NEW t, Len(s) \in Nat \ {0}, Advanced(pr, s, t)
  PROVE  Len(t) \in Nat \ {0} /\ Same(pr, s[1], t[1])
  <1>1. PICK n \in 1..Len(s) : Below(pr, s, t, n)
    BY DEF Advanced, Moved, Grew, Returned, Below
  <1>2. CASE n = 1
    BY <1>1, <1>2 DEF Below
  <1>3. CASE n # 1
    BY <1>1, <1>3, SameSame DEF Below
  <1> QED
    BY <1>2, <1>3

LEMMA BottomCallStays ==
  ASSUME CleanupInv, TreeStep, NEW f, BottomCalls(stack, calls, f)
  PROVE  BottomCalls(stack', calls', f) /\ stack'[1].id = stack[1].id
  <1>1. Len(stack') \in Nat \ {0} /\ Same(program, stack[1], stack'[1]) /\ Kept(calls, calls')
    BY TreeShape, BottomStays
  <1>2. stack[1].id \in 1..Len(calls)
    BY Sequences, TreeShape DEF BottomCalls, Linked, FrameTied
  <1> QED
    BY <1>1, <1>2 DEF BottomCalls, Same, Kept, Grown

LEMMA DriverCallsShape ==
  ASSUME CleanupInv, NEW f, NEW v, NEW at, DriverCalls(f, v, at)
  PROVE  /\ Len(stack') = 1 /\ stack'[1] = NewCall(f, v) /\ stack'[1].id = Len(calls) + 1
         /\ Len(calls') = Len(calls) + 1 /\ Len(calls) \in Nat
         /\ calls'[Len(calls) + 1] = NewRecord(f, v)
         /\ BottomCalls(stack', calls', f)
         /\ Kept(calls, calls')
         /\ driver' = at
  <1>1. stack' = <<NewCall(f, v)>> /\ calls' = Append(calls, NewRecord(f, v)) /\ driver' = at
    BY DEF DriverCalls
  <1>2. calls \in Seq(CallRecord)
    BY Sequences
  <1>3. PICK ds : ds = calls'
    OBVIOUS
  <1>4. /\ Len(calls) \in Nat /\ Len(ds) = Len(calls) + 1
        /\ ds[Len(calls) + 1] = NewRecord(f, v)
    BY <1>1, <1>2, <1>3, AppendedSeq
  <1>5. Kept(calls, ds)
    BY <1>1, <1>2, <1>3, KeptAppended
  <1>6. Len(stack') = 1 /\ stack'[1] = NewCall(f, v)
    BY <1>1
  <1>7. /\ NewCall(f, v).kind = "call" /\ NewCall(f, v).id = Len(calls) + 1
        /\ NewRecord(f, v).fn = f
    BY DEF NewCall, NewRecord
  <1> QED
    BY <1>1, <1>3, <1>4, <1>5, <1>6, <1>7 DEF BottomCalls

LEMMA ReportShape ==
  ASSUME CleanupInv, NEW at, Reports(at), calls' = Settled
  PROVE  /\ driver = at /\ Len(stack) = 1 /\ Top = stack[1]
         /\ Kept(calls, calls')
         /\ Top.outcome \in Outcome \ {Running}
         /\ Top.kind = "call" =>
              /\ Top.id \in 1..Len(calls')
              /\ calls'[Top.id].fn = calls[Top.id].fn
              /\ calls'[Top.id].outcome = Top.outcome
  <1>1. Ended /\ Len(stack) = 1 /\ driver = at
    BY DEF Reports
  <1>2. Top = stack[1]
    BY <1>1 DEF Top
  <1>3. Top.outcome \in Outcome \ {Running}
    BY <1>1, EndedOK DEF CleanupInv
  <1> QED
    BY <1>1, <1>2, <1>3, KeptSettled DEF Kept

LEMMA DriverHistory == ASSUME CleanupInv, DriverStep PROVE Kept(calls, calls')
  <1>1. CASE CreateReceiver \/ NoSpecs \/ AllSpecsRun
    BY <1>1, Sequences, KeptSame DEF CreateReceiver, NoSpecs, AllSpecsRun
  <1>2. CASE InitGlobals
    BY <1>2, Sequences, KeptSame, DriverCallsShape DEF InitGlobals
  <1>3. CASE CallEntry \/ StartSpec
    BY <1>3, DriverCallsShape DEF CallEntry, StartSpec
  <1>4. CASE ReceiverReady
    BY <1>4, DriverCallsShape DEF ReceiverReady
  <1>5. CASE GlobalsDone \/ EntryDone
    BY <1>5, ReportShape DEF GlobalsDone, EntryDone
  <1>6. CASE SpecDone
    BY <1>6, ReportShape DEF SpecDone
  <1> QED
    BY <1>1, <1>2, <1>3, <1>4, <1>5, <1>6 DEF DriverStep

\* The driver starts one call or the creation of one receiver, or waits.
LEMMA DriverShape ==
  ASSUME CleanupInv, DriverStep
  PROVE  \/ Len(stack') = 0
         \/ Len(stack') = 1 /\ stack'[1].kind = "call" /\ stack'[1].defers = <<>>
         \/ Len(stack') = 1 /\ Fresh(stack'[1])
  <1>1. ASSUME NEW f, NEW v, NEW at, DriverCalls(f, v, at)
        PROVE  Len(stack') = 1 /\ stack'[1].kind = "call" /\ stack'[1].defers = <<>>
    BY <1>1 DEF DriverCalls, NewCall
  <1>2. CASE InitGlobals \/ CallEntry \/ StartSpec \/ ReceiverReady
    BY <1>1, <1>2 DEF InitGlobals, Idle, CallEntry, StartSpec, ReceiverReady
  <1>3. CASE CreateReceiver
    <2>1. PICK t : stack' = <<NewInstance(t)>> /\ (t \in Objects => singletons[t] = 0)
      BY <1>3 DEF CreateReceiver, Allocate, Idle
    <2>2. PICK g : g = NewInstance(t)
      OBVIOUS
    <2>3. Fresh(g)
      BY <2>1, <2>2, FreshInstance
    <2> QED
      BY <2>1, <2>2, <2>3
  <1>4. CASE GlobalsDone \/ EntryDone \/ SpecDone \/ NoSpecs \/ AllSpecsRun
    BY <1>4 DEF GlobalsDone, EntryDone, SpecDone, NoSpecs, AllSpecsRun, Idle
  <1> QED
    BY <1>2, <1>3, <1>4 DEF DriverStep

-----------------------------------------------------------------------------
(* Globals first. *)

LEMMA GlobalsEnough == CleanupInv /\ GlobalsInv => GlobalsFirst
  <1> SUFFICES ASSUME CleanupInv, GlobalsInv PROVE GlobalsFirst
    OBVIOUS
  <1>1. calls \in Seq(CallRecord)
    BY Sequences
  <1>2. calls = <<>> <=> Len(calls) = 0
    BY <1>1, EmptySeq
  <1> QED
    BY <1>2 DEF GlobalsFirst, GlobalsSet, GlobalsInv

LEMMA GlobalsKept ==
  ASSUME Kept(calls, calls'), program' = program, Len(calls) \in Nat, Len(calls') \in Nat,
         GlobalsSet(calls)
  PROVE  GlobalsSet(calls)'
  BY DEF Kept, Grown, GlobalsSet, Running

LEMMA GlobalsTree == ASSUME CleanupInv, CleanupInv', GlobalsInv, TreeStep PROVE GlobalsInv'
  <1>1. /\ stack # <<>> /\ Kept(calls, calls') /\ program' = program
        /\ driver' = driver /\ globalsReady' = globalsReady
    BY TreeShape DEF runVars
  <1>2. Len(calls) \in Nat /\ Len(calls') \in Nat
    BY Sequences, LenProperties DEF CleanupInv, IInv, TypeOK
  <1>3. driver' # "boot"
    BY <1>1 DEF GlobalsInv
  <1>4. CASE driver = "globals"
    BY <1>1, <1>4, BottomCallStays DEF GlobalsInv
  <1>5. CASE driver # "globals"
    BY <1>1, <1>2, <1>3, <1>5, GlobalsKept DEF GlobalsInv
  <1> QED
    BY <1>4, <1>5

LEMMA GlobalsDriver == ASSUME CleanupInv, CleanupInv', GlobalsInv, DriverStep PROVE GlobalsInv'
  <1>1. Len(calls) \in Nat /\ Len(calls') \in Nat
    BY Sequences, LenProperties DEF CleanupInv, IInv, TypeOK
  <1>2. program' = program
    BY DEF DriverStep, InitGlobals, GlobalsDone, CallEntry, EntryDone, NoSpecs, AllSpecsRun,
           StartSpec, CreateReceiver, ReceiverReady, SpecDone
  <1>3. CASE InitGlobals
    <2>1. driver = "boot" /\ calls = <<>> /\ ~globalsReady
      BY <1>3 DEF InitGlobals, Idle, GlobalsInv
    <2>2. CASE program.globalInit = NoFunction
      BY <1>2, <1>3, <2>2 DEF InitGlobals, GlobalsInv
    <2>3. CASE program.globalInit # NoFunction
      <3>1. DriverCalls(program.globalInit, DefaultValue, "globals") /\ globalsReady' = globalsReady
        BY <1>3, <2>3 DEF InitGlobals
      <3>2. driver' = "globals" /\ BottomCalls(stack', calls', program.globalInit) /\ stack'[1].id = 1
        BY <2>1, <3>1, EmptySeq, DriverCallsShape
      <3> QED
        BY <1>2, <2>1, <2>3, <3>1, <3>2 DEF GlobalsInv
    <2> QED
      BY <2>2, <2>3
  <1>4. CASE GlobalsDone
    <2>1. Reports("globals") /\ calls' = Settled
      BY <1>4 DEF GlobalsDone
    <2>2. /\ driver = "globals" /\ Top = stack[1] /\ Kept(calls, calls')
          /\ Top.kind = "call" =>
               /\ Top.id \in 1..Len(calls')
               /\ calls'[Top.id].fn = calls[Top.id].fn
               /\ calls'[Top.id].outcome = Top.outcome
      BY <2>1, ReportShape
    <2>3. /\ ~globalsReady /\ Top.kind = "call" /\ Top.id = 1
          /\ calls[1].fn = program.globalInit
      BY <2>2 DEF GlobalsInv, BottomCalls
    <2>4. CASE Top.outcome.tag = "ok"
      <3>1. GlobalsSet(calls)'
        BY <1>1, <1>2, <2>2, <2>3, <2>4 DEF GlobalsSet
      <3>2. driver' = "idle" /\ globalsReady'
        BY <1>4, <2>4 DEF GlobalsDone
      <3> QED
        BY <2>3, <3>1, <3>2 DEF GlobalsInv
    <2>5. CASE Top.outcome.tag # "ok"
      BY <1>4, <2>3, <2>5 DEF GlobalsDone, GlobalsInv
    <2> QED
      BY <2>4, <2>5
  <1>5. CASE CallEntry \/ StartSpec \/ CreateReceiver \/ ReceiverReady
    <2>1. driver \in {"idle", "receiver"} /\ driver' \in {"entry", "spec", "receiver"}
      BY <1>5 DEF CallEntry, StartSpec, CreateReceiver, ReceiverReady, DriverCalls, Idle, Reports
    <2>2. globalsReady' = globalsReady
      BY <1>5 DEF CallEntry, StartSpec, CreateReceiver, ReceiverReady, globalVars
    <2>3. Kept(calls, calls')
      BY DriverHistory
    <2> QED
      BY <1>1, <1>2, <2>1, <2>2, <2>3, GlobalsKept DEF GlobalsInv
  <1>6. CASE EntryDone \/ SpecDone
    <2>1. PICK at : Reports(at) /\ at # "globals" /\ calls' = Settled
      BY <1>6 DEF EntryDone, SpecDone
    <2>2. Kept(calls, calls') /\ driver \notin {"boot", "globals"}
      BY <1>6, <2>1, ReportShape DEF EntryDone, SpecDone, Reports
    <2>3. driver' \in {"idle", "done"} /\ globalsReady' = globalsReady
      BY <1>6 DEF EntryDone, SpecDone, globalVars
    <2>4. driver' = "idle" => globalsReady
      BY <1>6, <2>2 DEF EntryDone, SpecDone, Reports, GlobalsInv
    <2> QED
      BY <1>1, <1>2, <2>2, <2>3, <2>4, GlobalsKept DEF GlobalsInv
  <1>7. CASE NoSpecs \/ AllSpecsRun
    BY <1>2, <1>7 DEF NoSpecs, AllSpecsRun, Idle, globalVars, GlobalsInv, GlobalsSet
  <1> QED
    BY <1>3, <1>4, <1>5, <1>6, <1>7 DEF DriverStep

LEMMA GlobalsInit == Init => GlobalsInv
  BY DEF Init, GlobalsInv

LEMMA GlobalsNext == CleanupInv /\ CleanupInv' /\ GlobalsInv /\ [Next]_vars => GlobalsInv'
  <1> SUFFICES ASSUME CleanupInv, CleanupInv', GlobalsInv, [Next]_vars PROVE GlobalsInv'
    OBVIOUS
  <1>1. CASE Overflow
    <2>1. program' = program /\ globalsReady' = globalsReady /\ calls' = calls /\ driver' = "aborted"
      BY <1>1 DEF Overflow, globalVars
    <2> QED
      BY <2>1 DEF GlobalsInv, GlobalsSet
  <1>2. CASE UNCHANGED vars
    BY <1>2 DEF vars, globalVars, runVars, GlobalsInv, GlobalsSet, BottomCalls
  <1> QED
    BY <1>1, <1>2, GlobalsTree, GlobalsDriver DEF Next, TreeStep

\* run and run_specs of every program call ensure_globals first and give up
\* when it fails: the entry, the specs and their receivers run only after the
\* initialiser of the globals, the very first call, has returned successfully.
THEOREM GlobalsAlwaysFirst == Spec => []GlobalsFirst
  BY CleanupInit, CleanupNext, GlobalsInit, GlobalsNext, GlobalsEnough, PTL DEF Spec

-----------------------------------------------------------------------------
(* Every spec is judged. *)

LEMMA SuccessKept ==
  ASSUME NEW cs, NEW ds, Len(cs) \in Nat, Len(ds) \in Nat, Kept(cs, ds), NEW f, Succeeded(f, cs)
  PROVE  Succeeded(f, ds)
  <1>1. PICK c \in 1..Len(cs) : cs[c].fn = f /\ cs[c].outcome.tag = "ok"
    BY DEF Succeeded
  <1>2. c \in 1..Len(ds) /\ ds[c].fn = f /\ ds[c].outcome.tag = "ok"
    BY <1>1 DEF Kept, Grown, Running
  <1> QED
    BY <1>2 DEF Succeeded

LEMMA FailedGrows ==
  ASSUME NEW vs \in Seq({"PASS", "FAIL"})
  PROVE  /\ Failed(Append(vs, "PASS")) = Failed(vs)
         /\ Cardinality(Failed(Append(vs, "FAIL"))) = Cardinality(Failed(vs)) + 1
         /\ Cardinality(Failed(vs)) \in Nat
  <1>1. Len(vs) \in Nat
    BY LenProperties
  <1>2. IsFiniteSet(1..Len(vs))
    BY <1>1, FS_Interval
  <1>3. IsFiniteSet(Failed(vs))
    BY <1>2, FS_Subset DEF Failed
  <1>4. Failed(Append(vs, "PASS")) = Failed(vs)
    <2>1. PICK ws : ws = Append(vs, "PASS")
      OBVIOUS
    <2>2. Len(ws) = Len(vs) + 1 /\ ws[Len(vs) + 1] = "PASS" /\ \A i \in 1..Len(vs) : ws[i] = vs[i]
      BY <2>1, AppendedSeq
    <2>3. Failed(ws) = Failed(vs)
      BY <1>1, <2>2 DEF Failed
    <2> QED
      BY <2>1, <2>3
  <1>5. Failed(Append(vs, "FAIL")) = Failed(vs) \cup {Len(vs) + 1}
    <2>1. PICK ws : ws = Append(vs, "FAIL")
      OBVIOUS
    <2>2. Len(ws) = Len(vs) + 1 /\ ws[Len(vs) + 1] = "FAIL" /\ \A i \in 1..Len(vs) : ws[i] = vs[i]
      BY <2>1, AppendedSeq
    <2>3. Failed(ws) = Failed(vs) \cup {Len(vs) + 1}
      BY <1>1, <2>2 DEF Failed
    <2> QED
      BY <2>1, <2>3
  <1>6. Len(vs) + 1 \notin Failed(vs)
    BY <1>1 DEF Failed
  <1> QED
    BY <1>3, <1>4, <1>5, <1>6, FS_AddElement, FS_CardinalityType

LEMMA RunnerTypes ==
  ASSUME CleanupInv
  PROVE  /\ Len(program.specs) \in Nat /\ nextSpec \in Nat \ {0}
         /\ verdicts \in Seq({"PASS", "FAIL"}) /\ Len(verdicts) \in Nat
         /\ diagnostics \in Seq(Diagnostic) /\ Len(diagnostics) \in Nat
         /\ Len(calls) \in Nat
  <1>1. /\ program \in Program /\ nextSpec \in Nat \ {0} /\ calls \in Seq(CallRecord)
        /\ verdicts \in Seq({"PASS", "FAIL"}) /\ diagnostics \in Seq(Diagnostic)
    BY ProgramsAreLowered DEF CleanupInv, IInv, TypeOK
  <1>2. program.specs \in Seq([type : Types, it : Functions])
    BY <1>1 DEF Program
  <1> QED
    BY <1>1, <1>2, LenProperties

\* A step that judges nothing.
LEMMA JudgedKept ==
  ASSUME CleanupInv, Len(calls') \in Nat, Kept(calls, calls'), program' = program, Judged,
         verdicts' = verdicts, nextSpec' = nextSpec
  PROVE  Judged'
  <1>1. \A f : Succeeded(f, calls) => Succeeded(f, calls')
    BY RunnerTypes, SuccessKept
  <1> QED
    BY <1>1 DEF Judged

LEMMA RunnerTree == ASSUME CleanupInv, Len(calls') \in Nat, RunnerInv, TreeStep PROVE RunnerInv'
  <1>1. /\ Kept(calls, calls') /\ program' = program /\ globalsReady' = globalsReady
        /\ driver' = driver /\ nextSpec' = nextSpec /\ verdicts' = verdicts
        /\ diagnostics' = diagnostics
    BY TreeShape DEF runVars
  <1>2. Judged'
    BY <1>1, JudgedKept DEF RunnerInv
  <1>3. Counted' /\ JudgedAll'
    BY <1>1 DEF RunnerInv, Counted, JudgedAll
  <1>4. ASSUME driver = "spec" PROVE BottomCalls(stack', calls', program.specs[nextSpec].it)
    BY <1>4, BottomCallStays DEF RunnerInv
  <1> QED
    BY <1>1, <1>2, <1>3, <1>4 DEF RunnerInv

\* The verdict on a spec.
LEMMA RunnerSpecDone ==
  ASSUME CleanupInv, Len(calls') \in Nat, RunnerInv, SpecDone
  PROVE  RunnerInv'
  <1>1. /\ program' = program /\ globalsReady' = globalsReady /\ driver' = "idle"
        /\ nextSpec' = nextSpec + 1 /\ calls' = Settled
    BY DEF SpecDone, globalVars
  <1>2. PICK at : Reports(at) /\ at \in {"spec", "receiver"} /\ (at = "receiver" => Top.outcome.tag = "err")
    BY DEF SpecDone
  <1>3. /\ driver = at /\ Len(stack) = 1 /\ Top = stack[1] /\ Kept(calls, calls')
        /\ Top.kind = "call" =>
             /\ Top.id \in 1..Len(calls')
             /\ calls'[Top.id].fn = calls[Top.id].fn
             /\ calls'[Top.id].outcome = Top.outcome
    BY <1>1, <1>2, ReportShape
  <1>4. nextSpec <= Len(program.specs)
    BY <1>2, <1>3 DEF CleanupInv, IInv, SpecInRange
  <1>5. \A f : Succeeded(f, calls) => Succeeded(f, calls')
    BY <1>3, RunnerTypes, SuccessKept
  <1>6. Judged /\ Counted /\ Len(diagnostics) = Cardinality(Failed(verdicts))
    BY <1>2, <1>3 DEF RunnerInv, Counted
  <1>7. PICK vs : vs = verdicts'
    OBVIOUS
  <1>8. CASE Top.outcome.tag = "ok"
    <2>1. vs = Append(verdicts, "PASS") /\ diagnostics' = diagnostics
      BY <1>7, <1>8 DEF SpecDone
    <2>2. /\ Len(vs) = Len(verdicts) + 1 /\ vs[Len(verdicts) + 1] = "PASS"
          /\ \A i \in 1..Len(verdicts) : vs[i] = verdicts[i]
      BY <2>1, RunnerTypes, AppendedSeq
    <2>3. Succeeded(program.specs[nextSpec].it, calls')
      <3>1. driver = "spec"
        BY <1>2, <1>3, <1>8
      <3>2. Top.kind = "call" /\ calls[Top.id].fn = program.specs[nextSpec].it
        BY <1>3, <3>1 DEF RunnerInv, BottomCalls
      <3> QED
        BY <1>3, <1>8, <3>2 DEF Succeeded
    <2>4. Judged'
      <3>1. ASSUME NEW i \in 1..Len(vs), vs[i] = "PASS"
            PROVE  Succeeded(program.specs[i].it, calls')
        <4>1. CASE i \in 1..Len(verdicts)
          BY <1>5, <1>6, <2>2, <3>1, <4>1 DEF Judged
        <4>2. CASE i = Len(verdicts) + 1
          BY <1>6, <2>3, <4>2, RunnerTypes DEF Judged
        <4> QED
          BY <2>2, <4>1, <4>2, RunnerTypes
      <3> QED
        BY <1>1, <1>4, <1>6, <1>7, <2>2, <3>1, RunnerTypes DEF Judged
    <2>5. Counted'
      BY <1>6, <1>7, <2>1, RunnerTypes, FailedGrows DEF Counted
    <2> QED
      BY <1>1, <2>4, <2>5 DEF RunnerInv, JudgedAll
  <1>9. CASE Top.outcome.tag # "ok"
    <2>1. vs = Append(verdicts, "FAIL") /\ diagnostics' = Append(diagnostics, Top.outcome.diag)
      BY <1>7, <1>9 DEF SpecDone
    <2>2. /\ Len(vs) = Len(verdicts) + 1 /\ vs[Len(verdicts) + 1] = "FAIL"
          /\ \A i \in 1..Len(verdicts) : vs[i] = verdicts[i]
      BY <2>1, RunnerTypes, AppendedSeq
    <2>3. Judged'
      BY <1>1, <1>4, <1>5, <1>6, <1>7, <2>2, RunnerTypes DEF Judged
    <2>4. Len(diagnostics') = Len(diagnostics) + 1
      BY <2>1, RunnerTypes, LenProperties
    <2>5. Counted'
      BY <1>6, <1>7, <2>1, <2>4, RunnerTypes, FailedGrows DEF Counted
    <2> QED
      BY <1>1, <2>3, <2>5 DEF RunnerInv, JudgedAll
  <1> QED
    BY <1>8, <1>9

LEMMA RunnerDriver ==
  ASSUME CleanupInv, Len(calls') \in Nat, GlobalsInv, RunnerInv, DriverStep, ~SpecDone
  PROVE  RunnerInv'
  <1>1. program' = program /\ nextSpec' = nextSpec /\ verdicts' = verdicts
    BY DEF DriverStep, InitGlobals, GlobalsDone, CallEntry, EntryDone, NoSpecs, AllSpecsRun,
           StartSpec, CreateReceiver, ReceiverReady
  <1>2. Kept(calls, calls')
    BY DriverHistory
  <1>3. Judged'
    BY <1>1, <1>2, JudgedKept DEF RunnerInv
  <1>4. CASE InitGlobals
    BY <1>1, <1>3, <1>4 DEF InitGlobals, Idle, DriverCalls, RunnerInv, Counted, JudgedAll
  <1>5. CASE GlobalsDone
    BY <1>1, <1>3, <1>5 DEF GlobalsDone, Reports, GlobalsInv, RunnerInv, Counted, JudgedAll
  <1>6. CASE CallEntry \/ CreateReceiver
    BY <1>1, <1>3, <1>6 DEF CallEntry, CreateReceiver, Idle, DriverCalls, RunnerInv, Counted, JudgedAll
  <1>7. CASE EntryDone
    BY <1>1, <1>3, <1>7 DEF EntryDone, Reports, RunnerInv, Counted, JudgedAll
  <1>8. CASE NoSpecs
    BY <1>1, <1>3, <1>8 DEF NoSpecs, RunnerInv, Counted, JudgedAll
  <1>9. CASE AllSpecsRun
    <2>1. driver = "idle" /\ driver' = "done" /\ nextSpec > Len(program.specs) /\ diagnostics' = diagnostics
      BY <1>9 DEF AllSpecsRun, Idle, NoSpecLeft
    <2>2. Len(verdicts) = Len(program.specs)
      BY <2>1, RunnerTypes DEF RunnerInv, Judged
    <2> QED
      BY <1>1, <1>3, <2>1, <2>2 DEF RunnerInv, Counted, JudgedAll
  <1>10. CASE StartSpec \/ ReceiverReady
    <2>1. /\ driver \in {"idle", "receiver"} /\ driver' = "spec" /\ diagnostics' = diagnostics
      BY <1>10 DEF StartSpec, ReceiverReady, Idle, Reports, DriverCalls
    <2>2. BottomCalls(stack', calls', program.specs[nextSpec].it)
      BY <1>10, DriverCallsShape DEF StartSpec, ReceiverReady
    <2> QED
      BY <1>1, <1>3, <2>1, <2>2 DEF RunnerInv, Counted, JudgedAll
  <1> QED
    BY <1>4, <1>5, <1>6, <1>7, <1>8, <1>9, <1>10 DEF DriverStep

LEMMA RunnerInit == Init => RunnerInv
  <1> SUFFICES ASSUME Init PROVE RunnerInv
    OBVIOUS
  <1>1. /\ driver = "boot" /\ verdicts = <<>> /\ diagnostics = <<>> /\ nextSpec = 1
        /\ program \in Program
    BY ProgramsAreLowered DEF Init
  <1>2. Len(program.specs) \in Nat
    BY <1>1, LenProperties DEF Program
  <1>3. Failed(<<>>) = {}
    BY DEF Failed
  <1> QED
    BY <1>1, <1>2, <1>3, FS_EmptySet DEF RunnerInv, Judged, Counted, JudgedAll

LEMMA RunnerNext ==
  CleanupInv /\ CleanupInv' /\ GlobalsInv /\ RunnerInv /\ [Next]_vars => RunnerInv'
  <1> SUFFICES ASSUME CleanupInv, CleanupInv', GlobalsInv, RunnerInv, [Next]_vars PROVE RunnerInv'
    OBVIOUS
  <1>1. Len(calls') \in Nat
    BY LenProperties DEF CleanupInv, IInv, TypeOK
  <1>2. CASE Overflow
    BY <1>2 DEF Overflow, RunnerInv, Judged, Counted, JudgedAll
  <1>3. CASE UNCHANGED vars
    BY <1>3 DEF vars, globalVars, runVars, RunnerInv, Judged, Counted, JudgedAll, BottomCalls
  <1> QED
    BY <1>1, <1>2, <1>3, RunnerTree, RunnerSpecDone, RunnerDriver DEF Next, TreeStep

LEMMA RunnerEnough == CleanupInv /\ RunnerInv => EverySpecJudged
  <1> SUFFICES ASSUME CleanupInv, RunnerInv PROVE EverySpecJudged
    OBVIOUS
  <1>1. DOMAIN verdicts = 1..Len(verdicts) /\ DOMAIN calls = 1..Len(calls)
    BY RunnerTypes, Sequences, LenProperties
  <1>2. {i \in DOMAIN verdicts : verdicts[i] = "FAIL"} = Failed(verdicts)
    BY <1>1 DEF Failed
  <1> QED
    BY <1>1, <1>2 DEF EverySpecJudged, RunnerInv, Judged, JudgedAll, Succeeded

\* run_specs of every program judges each spec exactly once, whichever of them
\* fail; it passes a spec only if its body has returned successfully, and the
\* diagnostics it reports are as many as its failed specs.
THEOREM SpecsAlwaysJudged == Spec => []EverySpecJudged
  BY CleanupInit, CleanupNext, GlobalsInit, GlobalsNext, RunnerInit, RunnerNext, RunnerEnough,
     PTL DEF Spec

-----------------------------------------------------------------------------
(* A published object is complete. *)

LEMMA DidKept ==
  ASSUME NEW cs, NEW ds, Len(cs) \in Nat, Len(ds) \in Nat, Kept(cs, ds), NEW f, NEW n, Did(f, n, cs)
  PROVE  Did(f, n, ds)
  <1>1. CASE f # NoFunction
    <2>1. PICK c \in 1..Len(cs) :
            cs[c].fn = f /\ cs[c].arg = ObjectRef(n) /\ cs[c].outcome.tag = "ok"
      BY <1>1 DEF Did
    <2>2. c \in 1..Len(ds) /\ ds[c].fn = f /\ ds[c].arg = ObjectRef(n) /\ ds[c].outcome.tag = "ok"
      BY <2>1 DEF Kept, Grown, Running
    <2> QED
      BY <2>2 DEF Did
  <1> QED
    BY <1>1 DEF Did

\* What waits below the activations a step changes is as complete as before.
LEMMA BuiltBelow ==
  ASSUME NEW pr, NEW s, NEW t, NEW n, NEW cs, NEW ds, Len(cs) \in Nat, Len(ds) \in Nat,
         Built(pr, s, cs), Linked(s, cs), Kept(cs, ds), Below(pr, s, t, n),
         NEW i \in 1..(n - 1), t[i].kind = "instance"
  PROVE  BuiltAt(pr, t, ds, i)
  <1>1. /\ Len(s) \in Nat /\ Len(t) \in Nat /\ n \in 1..Len(s) /\ n <= Len(t)
        /\ i \in 1..Len(s) /\ i < Len(s) /\ i < Len(t) /\ t[i] = s[i]
    BY DEF Below
  <1>2. BuiltAt(pr, s, cs, i)
    BY <1>1 DEF Built
  <1>3. s[i].inst # 0 /\ s[i].outcome = Running /\ RunsFor(pr, s[i + 1], s[i], cs)
    BY <1>1, <1>2 DEF BuiltAt
  <1>4. t[i + 1].kind = "call" /\ t[i + 1].id = s[i + 1].id
    <2>1. CASE i + 1 = n
      BY <1>3, <2>1 DEF Below, Same, RunsFor
    <2>2. CASE i + 1 # n
      <3>1. i + 1 \in 1..(n - 1)
        BY <1>1, <2>2
      <3> QED
        BY <1>3, <3>1 DEF Below, RunsFor
    <2> QED
      BY <2>1, <2>2
  <1>5. s[i + 1].id \in 1..Len(cs)
    <2>1. i + 1 \in 1..Len(s)
      BY <1>1
    <2> QED
      BY <1>3, <2>1 DEF RunsFor, Linked, FrameTied
  <1>6. RunsFor(pr, t[i + 1], t[i], ds)
    BY <1>1, <1>3, <1>4, <1>5 DEF RunsFor, Kept, Grown
  <1>7. s[i].stage = "publish" => Did(pr.fieldInit[s[i].type], s[i].inst, cs)
    BY <1>2, <1>3 DEF BuiltAt
  <1>8. s[i].stage = "publish" => Did(pr.fieldInit[s[i].type], s[i].inst, ds)
    BY <1>7, DidKept
  <1> QED
    BY <1>1, <1>3, <1>6, <1>8 DEF BuiltAt

BuildTypes == Len(calls) \in Nat /\ Len(calls') \in Nat

LEMMA BuiltStep ==
  ASSUME CleanupInv, BuildTypes, BuildInv, program' = program, Kept(calls, calls'),
         NEW n, Below(program, stack, stack', n),
         \A i \in n..Len(stack') : stack'[i].kind = "instance" => BuiltAt(program, stack', calls', i)
  PROVE  Built(program, stack, calls)'
  <1>1. Len(stack') \in Nat /\ n \in Nat /\ n <= Len(stack')
    BY DEF Below
  <1>2. ASSUME NEW i \in 1..(n - 1), stack'[i].kind = "instance"
        PROVE  BuiltAt(program, stack', calls', i)
    BY <1>2, Sequences, BuiltBelow DEF BuildTypes, BuildInv
  <1>3. \A i \in 1..Len(stack') : i \in 1..(n - 1) \/ i \in n..Len(stack')
    BY <1>1
  <1> QED
    BY <1>2, <1>3 DEF Built

LEMMA CompleteKept ==
  ASSUME BuildTypes, BuildInv, program' = program, Kept(calls, calls'), singletons' = singletons
  PROVE  Complete(program, singletons, calls)'
  BY DidKept DEF BuildTypes, BuildInv, Complete

\* An activation that began has nothing to show yet.
LEMMA FreshBuilt ==
  ASSUME NEW pr, NEW t, NEW ds, NEW i, Fresh(t[i]), i = Len(t)
  PROVE  BuiltAt(pr, t, ds, i)
  BY DEF Fresh, BuiltAt

\* A call moves, calls, creates or returns to a call.
LEMMA BuiltInCall ==
  ASSUME CleanupInv, BuildTypes, BuildInv, TreeStep,
         \/ Top.kind = "call" /\ Len(stack') >= Len(stack)
         \/ Len(stack') < Len(stack) /\ Caller.kind = "call"
  PROVE  Built(program, stack, calls)'
  <1>1. /\ Len(stack) \in Nat \ {0} /\ Advanced(program, stack, stack')
        /\ Kept(calls, calls') /\ program' = program
    BY TreeShape
  <1>2. CASE Moved(program, stack, stack')
    <2>1. Below(program, stack, stack', Len(stack)) /\ Len(stack') = Len(stack)
      BY <1>2 DEF Moved
    <2>2. stack'[Len(stack)].kind = "call"
      BY <1>1, <2>1 DEF Below, Same, Top
    <2> QED
      BY <1>1, <2>1, <2>2, BuiltStep
  <1>3. CASE Grew(program, stack, stack') /\ Caused(program, Top, stack'[Len(stack')])
    <2>1. Below(program, stack, stack', Len(stack)) /\ Len(stack') = Len(stack) + 1
      BY <1>3 DEF Grew
    <2>2. stack'[Len(stack)].kind = "call"
      BY <1>1, <2>1 DEF Below, Same, Top
    <2>3. stack'[Len(stack')].kind = "call" \/ Fresh(stack'[Len(stack')])
      BY <1>3 DEF Caused
    <2>4. stack'[Len(stack')].kind = "instance" => BuiltAt(program, stack', calls', Len(stack'))
      BY <2>3, FreshBuilt
    <2>5. \A i \in Len(stack)..Len(stack') : i = Len(stack) \/ i = Len(stack')
      BY <1>1, <2>1
    <2> QED
      BY <1>1, <2>1, <2>2, <2>4, <2>5, BuiltStep
  <1>4. CASE Returned(program, stack, stack') /\ Len(stack) > 1
    <2>1. Below(program, stack, stack', Len(stack) - 1) /\ Len(stack') = Len(stack) - 1
      BY <1>4 DEF Returned
    <2>2. stack'[Len(stack) - 1].kind = "call"
      BY <1>1, <2>1 DEF Below, Same, Caller
    <2>3. \A i \in (Len(stack) - 1)..Len(stack') : i = Len(stack) - 1
      BY <1>1, <2>1
    <2> QED
      BY <1>1, <2>1, <2>2, <2>3, BuiltStep
  <1> QED
    BY <1>1, <1>2, <1>3, <1>4 DEF Advanced, Top

\* The instance at work is as complete as its stage says.
LEMMA BuildingTop ==
  ASSUME CleanupInv, BuildInv, NEW st, Building(st)
  PROVE  /\ stack # <<>> /\ Top \in InstanceFrame /\ Len(stack) \in Nat \ {0}
         /\ Top = stack[Len(stack)] /\ Top.inst # 0 /\ Top.stage = st /\ Top.outcome = Running
         /\ st = "publish" => Did(program.fieldInit[Top.type], Top.inst, calls)
         /\ st # "fieldInit" => Did(InitialiserOf(program, Top), Top.inst, calls)
  <1>1. stack # <<>> /\ Top \in InstanceFrame /\ Top.stage = st /\ Top.outcome = Running
    BY BuildingOK DEF CleanupInv, Building
  <1>2. Len(stack) \in Nat \ {0} /\ Top = stack[Len(stack)] /\ Top.kind = "instance"
    BY <1>1, Sequences, EmptySeq DEF Top, InstanceFrame
  <1>3. BuiltAt(program, stack, calls, Len(stack))
    BY <1>2 DEF BuildInv, Built
  <1> QED
    BY <1>1, <1>2, <1>3 DEF BuiltAt

LEMMA BuiltInitialise ==
  ASSUME CleanupInv, BuildTypes, BuildInv, RunFieldInit \/ RunNew
  PROVE  Built(program, stack, calls)'
  <1>1. PICK old \in {"fieldInit", "new"} :
          /\ Building(old)
          /\ old = "fieldInit" => RunFieldInit
          /\ old = "new" => RunNew
    BY DEF RunFieldInit, RunNew
  <1>2. PICK st : st = IF old = "fieldInit" THEN "new" ELSE "publish"
    OBVIOUS
  <1>3. PICK f : f = [Top EXCEPT !.stage = st]
    OBVIOUS
  <1>4. /\ stack # <<>> /\ Top \in InstanceFrame /\ Len(stack) \in Nat \ {0}
        /\ Top = stack[Len(stack)] /\ Top.inst # 0 /\ Top.stage = old /\ Top.outcome = Running
        /\ old = "new" => Did(InitialiserOf(program, Top), Top.inst, calls)
    BY <1>1, BuildingTop
  <1>5. /\ f.kind = "instance" /\ f.type = Top.type /\ f.inst = Top.inst /\ f.stage = st
        /\ f.outcome = Running
    BY <1>3, <1>4 DEF InstanceFrame
  <1>6. PICK g : g = InitialiserOf(program, f)
    OBVIOUS
  <1>7. Initialise(g, st)
    BY <1>1, <1>2, <1>5, <1>6 DEF RunFieldInit, RunNew, InitialiserOf
  <1>8. /\ program' = program /\ Kept(calls, calls') /\ Same(program, Top, f)
    <2>1. TreeStep
      BY <1>1 DEF TreeStep, InstanceStep
    <2>2. Same(program, Top, f)
      BY <1>4, <1>5 DEF Same, InstanceFrame
    <2> QED
      BY <2>1, <2>2, TreeShape
  <1>9. st = "publish" => Did(program.fieldInit[f.type], f.inst, calls')
    <2>1. st = "publish" => Did(program.fieldInit[f.type], f.inst, calls)
      BY <1>2, <1>4, <1>5 DEF InitialiserOf
    <2> QED
      BY <1>8, <2>1, DidKept DEF BuildTypes
  <1>10. CASE g = NoFunction
    <2>1. stack' = WithTop(f) /\ calls' = calls
      BY <1>3, <1>7, <1>10 DEF Initialise
    <2>2. Moved(program, stack, stack') /\ stack'[Len(stack)] = f
      BY <1>4, <1>8, <2>1, TopMoved
    <2>3. Did(g, f.inst, calls')
      BY <1>10 DEF Did
    <2>4. BuiltAt(program, stack', calls', Len(stack))
      BY <1>4, <1>5, <1>6, <1>9, <2>2, <2>3 DEF BuiltAt, Moved
    <2> QED
      BY <1>4, <1>8, <2>2, <2>4, BuiltStep DEF Moved
  <1>11. CASE g # NoFunction
    <2>1. /\ stack' = Append(WithTop(f), NewCall(g, ObjectRef(Top.inst)))
          /\ calls' = Append(calls, NewRecord(g, ObjectRef(Top.inst)))
      BY <1>3, <1>7, <1>11 DEF Initialise
    <2>2. PICK c : c = NewCall(g, ObjectRef(Top.inst))
      OBVIOUS
    <2>3. Pushes(f, c)
      BY <2>1, <2>2 DEF Pushes
    <2>4. /\ Grew(program, stack, stack')
          /\ stack'[Len(stack)] = f /\ stack'[Len(stack) + 1] = c
      BY <1>4, <1>8, <2>3, TopPushed
    <2>5. PICK ds : ds = calls'
      OBVIOUS
    <2>6. Len(calls) \in Nat /\ ds[Len(calls) + 1] = NewRecord(g, ObjectRef(Top.inst))
      BY <2>1, <2>5, Sequences, AppendedSeq
    <2>7. c.kind = "call" /\ c.id = Len(calls) + 1
      BY <2>2 DEF NewCall
    <2>8. calls'[c.id].fn = g /\ calls'[c.id].arg = ObjectRef(f.inst)
      BY <1>5, <2>5, <2>6, <2>7 DEF NewRecord
    <2>9. RunsFor(program, c, f, calls')
      BY <1>2, <1>5, <1>6, <2>7, <2>8 DEF RunsFor
    <2>10. Len(stack') = Len(stack) + 1
      BY <2>4 DEF Grew
    <2>11. BuiltAt(program, stack', calls', Len(stack))
      BY <1>4, <1>5, <1>9, <2>4, <2>9, <2>10 DEF BuiltAt
    <2>12. \A i \in Len(stack)..Len(stack') : i = Len(stack) \/ i = Len(stack) + 1
      BY <1>4, <2>10
    <2>13. Below(program, stack, stack', Len(stack))
      BY <2>4 DEF Grew
    <2> QED
      BY <1>8, <2>4, <2>7, <2>11, <2>12, <2>13, BuiltStep
  <1> QED
    BY <1>10, <1>11

LEMMA BuiltPublish ==
  ASSUME CleanupInv, BuildTypes, BuildInv, Publish
  PROVE  BuildInv'
  <1>1. /\ stack # <<>> /\ Top \in InstanceFrame /\ Len(stack) \in Nat \ {0}
        /\ Top = stack[Len(stack)] /\ Top.inst # 0 /\ Top.stage = "publish"
        /\ Did(program.fieldInit[Top.type], Top.inst, calls)
        /\ Did(program.new[Top.type], Top.inst, calls)
    BY BuildingTop DEF Publish, InitialiserOf
  <1>2. PICK f : f = [Top EXCEPT !.outcome = Ok(ObjectRef(Top.inst))]
    OBVIOUS
  <1>3. /\ program' = program /\ calls' = calls /\ stack' = WithTop(f)
        /\ \A o \in Objects :
             singletons'[o] = IF o = Top.type THEN Top.inst ELSE singletons[o]
    <2>1. singletons \in [Objects -> Nat]
      BY DEF CleanupInv, IInv, TypeOK
    <2> QED
      BY <1>2, <2>1 DEF Publish
  <1>4. /\ f.kind = "instance" /\ f.type = Top.type /\ f.inst = Top.inst /\ f.outcome # Running
        /\ Same(program, Top, f)
    BY <1>1, <1>2 DEF InstanceFrame, Ok, Running, Same
  <1>5. Moved(program, stack, stack') /\ stack'[Len(stack)] = f
    BY <1>1, <1>3, <1>4, TopMoved
  <1>6. BuiltAt(program, stack', calls', Len(stack))
    BY <1>1, <1>4, <1>5 DEF BuiltAt, Moved
  <1>7. Kept(calls, calls')
    BY <1>3, Sequences, KeptSame
  <1>8. Built(program, stack, calls)'
    BY <1>1, <1>3, <1>5, <1>6, <1>7, BuiltStep DEF Moved
  <1>9. Complete(program, singletons, calls)'
    BY <1>1, <1>3 DEF BuildInv, Complete
  <1> QED
    BY <1>8, <1>9 DEF BuildInv

\* An initialiser returns to the instance it was called on.
LEMMA BuiltReturned ==
  ASSUME CleanupInv, BuildTypes, BuildInv, ReturnToInstance
  PROVE  Built(program, stack, calls)'
  <1>1. /\ Ended /\ Len(stack) > 1 /\ Caller.kind = "instance" /\ calls' = Settled
        /\ Top.outcome.tag = "ok" => stack' = Popped
        /\ Top.outcome.tag # "ok" => stack' = WithCaller([Caller EXCEPT !.outcome = Top.outcome])
    BY DEF ReturnToInstance
  <1>2. PICK n : n = Len(stack) - 1
    OBVIOUS
  <1>3. /\ Len(stack) \in Nat /\ n \in 1..Len(stack) /\ n < Len(stack) /\ n + 1 = Len(stack)
        /\ Caller = stack[n] /\ Top = stack[n + 1] /\ Caller \in InstanceFrame
    BY <1>1, <1>2, Sequences, LenProperties, CallerOK, CallOrInstance DEF CleanupInv, Caller, Top
  <1>4. BuiltAt(program, stack, calls, n)
    BY <1>1, <1>3 DEF BuildInv, Built
  <1>5. /\ Caller.inst # 0 /\ Caller.outcome = Running
        /\ RunsFor(program, Top, Caller, calls)
        /\ Caller.stage = "publish" => Did(program.fieldInit[Caller.type], Caller.inst, calls)
    BY <1>3, <1>4 DEF BuiltAt
  <1>6. /\ Kept(calls, calls')
        /\ Top.id \in 1..Len(calls)
        /\ calls'[Top.id].fn = calls[Top.id].fn
        /\ calls'[Top.id].arg = calls[Top.id].arg
        /\ calls'[Top.id].outcome = Top.outcome
    BY <1>1, <1>5, KeptSettled DEF RunsFor
  <1>7. program' = program
    BY DEF ReturnToInstance
  <1>8. CASE Top.outcome.tag = "ok"
    <2>1. Returned(program, stack, stack') /\ stack'[n] = Caller
      BY <1>1, <1>2, <1>3, <1>8, TopPopped
    <2>2. Did(InitialiserOf(program, Caller), Caller.inst, calls')
      <3>1. Top.id \in 1..Len(calls')
        BY <1>6 DEF Kept, BuildTypes
      <3> QED
        BY <1>5, <1>6, <1>8, <3>1 DEF RunsFor, Did
    <2>3. Caller.stage = "publish" => Did(program.fieldInit[Caller.type], Caller.inst, calls')
      BY <1>5, <1>6, DidKept DEF BuildTypes
    <2>4. Len(stack') = n
      BY <1>2, <2>1 DEF Returned
    <2>5. BuiltAt(program, stack', calls', n)
      BY <1>3, <1>5, <2>1, <2>2, <2>3, <2>4 DEF BuiltAt
    <2>6. Below(program, stack, stack', n)
      BY <1>2, <2>1 DEF Returned
    <2>7. \A i \in n..Len(stack') : i = n
      BY <1>3, <2>4
    <2> QED
      BY <1>6, <1>7, <2>5, <2>6, <2>7, BuiltStep
  <1>9. CASE Top.outcome.tag # "ok"
    <2>1. PICK f : f = [Caller EXCEPT !.outcome = Top.outcome]
      OBVIOUS
    <2>2. Top.outcome # Running
      BY <1>1, EndedOK DEF CleanupInv
    <2>3. f.inst = Caller.inst /\ f.outcome # Running /\ Same(program, Caller, f)
      BY <1>3, <2>1, <2>2 DEF InstanceFrame, Same
    <2>4. Returned(program, stack, stack') /\ stack'[n] = f
      BY <1>1, <1>2, <1>9, <2>1, <2>3, CallerMoved
    <2>5. Len(stack') = n /\ Below(program, stack, stack', n)
      BY <1>2, <2>4 DEF Returned
    <2>6. BuiltAt(program, stack', calls', n)
      BY <1>3, <1>5, <2>3, <2>4, <2>5 DEF BuiltAt
    <2>7. \A i \in n..Len(stack') : i = n
      BY <1>3, <2>5
    <2> QED
      BY <1>6, <1>7, <2>5, <2>6, <2>7, BuiltStep
  <1> QED
    BY <1>8, <1>9

LEMMA BuildTree == ASSUME CleanupInv, BuildTypes, BuildInv, TreeStep PROVE BuildInv'
  <1>1. program' = program /\ Kept(calls, calls') /\ Advanced(program, stack, stack')
    BY TreeShape
  <1>2. Len(stack) \in Nat /\ Len(stack') \in Nat
    BY <1>1 DEF Advanced, Moved, Grew, Returned, Below
  <1>3. CASE Publish
    BY <1>3, BuiltPublish
  <1>4. CASE ~Publish
    <2>1. singletons' = singletons
      BY <1>4 DEF TreeStep, BodyStep, ExecUse, ExecCall, ExecDefer, ExecFail, Goto, Switch, Return,
             EnterUnreachable, EndBody, JumpTo, InstanceStep, ReadSingleton, ExecInstance,
             RunFieldInit, RunNew, Initialise, ReturnStep, RunCleanup, ReturnValue,
             PropagateError, ReturnToCleanup, ReturnToInstance, objectVars
    <2>2. Complete(program, singletons, calls)'
      BY <1>1, <2>1, CompleteKept
    <2>3. CASE RunFieldInit \/ RunNew
      BY <2>2, <2>3, BuiltInitialise DEF BuildInv
    <2>4. CASE ReturnToInstance
      BY <2>2, <2>4, BuiltReturned DEF BuildInv
    <2>5. CASE BodyStep
      <3>1. Top.kind = "call" /\ Len(stack') >= Len(stack)
        BY <1>2, <2>5, BodyShape DEF Moved, Grew
      <3> QED
        BY <2>2, <3>1, BuiltInCall DEF BuildInv
    <2>6. CASE ReadSingleton \/ ExecInstance
      <3>1. Top.kind = "call"
        BY <2>6 DEF ReadSingleton, ExecInstance, AtStatement, InBody, Innermost
      <3>2. Moved(program, stack, stack') \/ Grew(program, stack, stack')
        BY <2>6, InstanceShape DEF InstanceStep
      <3>3. Len(stack') >= Len(stack)
        BY <1>2, <3>2 DEF Moved, Grew
      <3> QED
        BY <2>2, <3>1, <3>3, BuiltInCall DEF BuildInv
    <2>7. CASE RunCleanup
      <3>1. Top.kind = "call"
        BY <2>7 DEF RunCleanup, Unwinding, Innermost
      <3>2. Len(stack') = Len(stack) + 1
        BY <2>7, ReturnShape DEF ReturnStep, Grew
      <3> QED
        BY <1>2, <2>2, <3>1, <3>2, BuiltInCall DEF BuildInv
    <2>8. CASE ReturnValue \/ PropagateError \/ ReturnToCleanup
      <3>1. Caller.kind = "call"
        BY <2>8 DEF ReturnValue, PropagateError, ReturnToCleanup
      <3>2. ~RunCleanup
        BY <2>8 DEF ReturnValue, PropagateError, ReturnToCleanup, Ended, RunCleanup, Unwinding,
             Innermost
      <3>3. Len(stack') = Len(stack) - 1
        BY <2>8, <3>2, ReturnShape DEF ReturnStep, Returned
      <3> QED
        BY <1>2, <2>2, <3>1, <3>3, BuiltInCall DEF BuildInv
    <2> QED
      BY <1>4, <2>3, <2>4, <2>5, <2>6, <2>7, <2>8 DEF TreeStep, InstanceStep, ReturnStep
  <1> QED
    BY <1>3, <1>4

LEMMA BuildDriver == ASSUME CleanupInv, BuildTypes, BuildInv, DriverStep PROVE BuildInv'
  <1>1. program' = program /\ singletons' = singletons
    BY DEF DriverStep, InitGlobals, GlobalsDone, CallEntry, EntryDone, NoSpecs, AllSpecsRun,
           StartSpec, CreateReceiver, ReceiverReady, SpecDone, objectVars
  <1>2. Kept(calls, calls')
    BY DriverHistory
  <1>3. Built(program, stack, calls)'
    <2>1. \/ Len(stack') = 0
          \/ Len(stack') = 1 /\ (stack'[1].kind = "call" \/ Fresh(stack'[1]))
      BY DriverShape
    <2>2. Len(stack') = 1 /\ Fresh(stack'[1]) => BuiltAt(program', stack', calls', 1)
      BY FreshBuilt
    <2> QED
      BY <2>1, <2>2 DEF Built
  <1> QED
    BY <1>1, <1>2, <1>3, CompleteKept DEF BuildInv

LEMMA BuildInit == Init => BuildInv
  BY DEF Init, BuildInv, Built, Complete

LEMMA BuildNext == CleanupInv /\ CleanupInv' /\ BuildInv /\ [Next]_vars => BuildInv'
  <1> SUFFICES ASSUME CleanupInv, CleanupInv', BuildInv, [Next]_vars PROVE BuildInv'
    OBVIOUS
  <1>1. BuildTypes
    BY LenProperties DEF CleanupInv, IInv, TypeOK, BuildTypes
  <1>2. CASE Overflow
    <2>1. stack' = <<>> /\ program' = program /\ singletons' = singletons /\ calls' = calls
      BY <1>2 DEF Overflow, objectVars
    <2> QED
      BY <2>1 DEF BuildInv, Built, Complete
  <1>3. CASE UNCHANGED vars
    BY <1>3 DEF vars, objectVars, BuildInv
  <1> QED
    BY <1>1, <1>2, <1>3, BuildTree, BuildDriver DEF Next, TreeStep

LEMMA BuildEnough == CleanupInv /\ BuildInv => PublishedIsInitialised
  <1> SUFFICES ASSUME CleanupInv, BuildInv PROVE PublishedIsInitialised
    OBVIOUS
  <1>1. DOMAIN calls = 1..Len(calls)
    BY Sequences, LenProperties
  <1> QED
    BY <1>1 DEF PublishedIsInitialised, BuildInv, Complete, Did

\* lookup_singleton of every program publishes an object only after its field
\* initialisers and its constructor have returned successfully, on that very
\* instance, even if creation was re-entered, retried after a failure, or the
\* object was made by another's initialiser or by deferred cleanup.
THEOREM PublishedAlwaysInitialised == Spec => []PublishedIsInitialised
  BY CleanupInit, CleanupNext, BuildInit, BuildNext, BuildEnough, PTL DEF Spec

-----------------------------------------------------------------------------
(* An object whose construction is never re-entered is shared. *)

LEMMA NeedsCover == ASSUME NEW pr, NoReentry(pr) PROVE Covers(pr, Needs(pr))
  BY DEF NoReentry, Needs

LEMMA CoverUse ==
  ASSUME NEW pr, NEW needs, Covers(pr, needs), NEW f \in Functions
  PROVE  /\ \A g : Mentions(pr, f, g) => needs[g] \subseteq needs[f]
         /\ \A t : Makes(pr, f, t) =>
              ({t} \cap Objects) \cup InitialiserNeeds(pr, needs, t) \subseteq needs[f]
  <1>1. ASSUME NEW g, Mentions(pr, f, g) PROVE needs[g] \subseteq needs[f]
    BY <1>1 DEF Covers, Mentions
  <1>2. ASSUME NEW t, Makes(pr, f, t)
        PROVE  ({t} \cap Objects) \cup InitialiserNeeds(pr, needs, t) \subseteq needs[f]
    BY <1>2 DEF Covers, Makes
  <1> QED
    BY <1>1, <1>2

LEMMA InnerInOuter ==
  ASSUME NEW pr, NEW needs, NEW f
  PROVE  Inner(pr, needs, f) \subseteq Outer(pr, needs, f)
  BY DEF Inner, Outer

LEMMA SameNeeds ==
  ASSUME NEW pr, NEW needs, NEW f \in Activation, NEW g, Same(pr, f, g)
  PROVE  Inner(pr, needs, g) = Inner(pr, needs, f) /\ Outer(pr, needs, g) = Outer(pr, needs, f)
  BY CallOrInstance DEF Same, Inner, Outer

LEMMA CausedNeeds ==
  ASSUME NEW pr, NEW needs, Covers(pr, needs), NEW f \in Activation, NEW g, Caused(pr, f, g),
         f.kind = "call" => \A k \in 1..Len(f.defers) : Mentions(pr, f.fn, f.defers[k].fn)
  PROVE  Outer(pr, needs, g) \subseteq Inner(pr, needs, f)
  <1>1. CASE f.kind = "call"
    <2>1. f.fn \in Functions
      BY <1>1, CallOrInstance DEF CallFrame
    <2>2. Inner(pr, needs, f) = needs[f.fn]
      BY <1>1 DEF Inner
    <2>3. CASE g.kind = "call"
      <3>1. Mentions(pr, f.fn, g.fn)
        BY <1>1, <2>3 DEF Caused, Fresh
      <3> QED
        BY <2>1, <2>2, <2>3, <3>1, CoverUse DEF Outer
    <2>4. CASE Fresh(g)
      <3>1. Makes(pr, f.fn, g.type)
        BY <1>1, <2>4 DEF Caused, Fresh
      <3> QED
        BY <2>1, <2>2, <2>4, <3>1, CoverUse DEF Outer, Fresh
    <2> QED
      BY <2>3, <2>4 DEF Caused
  <1>2. CASE f.kind # "call"
    <2>1. f.kind = "instance"
      BY <1>2, CallOrInstance
    <2>2. g.kind = "call" /\ g.fn \in {pr.fieldInit[f.type], pr.new[f.type]} \ {NoFunction}
      BY <2>1 DEF Caused
    <2> QED
      BY <1>2, <2>2 DEF Outer, Inner, InitialiserNeeds
  <1> QED
    BY <1>1, <1>2

\* What stays on the stack stays nested and keeps what it deferred.
LEMMA NestedBelow ==
  ASSUME NEW pr, NEW needs, NEW s \in Seq(Activation), NEW t, NEW n, Below(pr, s, t, n),
         Nested(pr, needs, s), DeferredInCode(pr, s)
  PROVE  /\ \A i \in 1..n :
              /\ Inner(pr, needs, t[i]) = Inner(pr, needs, s[i])
              /\ Outer(pr, needs, t[i]) = Outer(pr, needs, s[i])
              /\ t[i].kind = "call" =>
                   \A k \in 1..Len(t[i].defers) : Mentions(pr, t[i].fn, t[i].defers[k].fn)
         /\ \A i, j \in 1..n :
              i < j => Outer(pr, needs, t[j]) \subseteq Inner(pr, needs, t[i])
  <1>1. Len(s) \in Nat /\ n \in 1..Len(s) /\ \A i \in 1..n : i = n \/ i \in 1..(n - 1)
    BY DEF Below
  <1>2. ASSUME NEW i \in 1..n PROVE Same(pr, s[i], t[i]) /\ s[i] \in Activation /\ i \in 1..Len(s)
    <2>1. i \in 1..Len(s)
      BY <1>1
    <2>2. s[i] \in Activation
      BY <2>1, ElementOfSeq
    <2> QED
      BY <1>1, <2>1, <2>2, SameSame DEF Below
  <1>3. ASSUME NEW i \in 1..n
        PROVE  /\ Inner(pr, needs, t[i]) = Inner(pr, needs, s[i])
               /\ Outer(pr, needs, t[i]) = Outer(pr, needs, s[i])
    BY <1>2, SameNeeds
  <1>4. ASSUME NEW i \in 1..n, t[i].kind = "call", NEW k \in 1..Len(t[i].defers)
        PROVE  Mentions(pr, t[i].fn, t[i].defers[k].fn)
    <2>1. /\ s[i].kind = "call" /\ i \in 1..Len(s) /\ t[i].fn = s[i].fn
          /\ \/ k \in 1..Len(s[i].defers) /\ t[i].defers[k] = s[i].defers[k]
             \/ Mentions(pr, s[i].fn, t[i].defers[k].fn)
      BY <1>2, <1>4 DEF Same
    <2> QED
      BY <2>1 DEF DeferredInCode
  <1>5. ASSUME NEW i \in 1..n, NEW j \in 1..n, i < j
        PROVE  Outer(pr, needs, t[j]) \subseteq Inner(pr, needs, t[i])
    <2>1. Outer(pr, needs, s[j]) \subseteq Inner(pr, needs, s[i])
      BY <1>2, <1>5 DEF Nested
    <2> QED
      BY <1>3, <2>1
  <1> QED
    BY <1>3, <1>4, <1>5

LEMMA NestedAdvanced ==
  ASSUME NEW pr, NEW needs, Covers(pr, needs), NEW s \in Seq(Activation), NEW t,
         Len(s) \in Nat \ {0}, Nested(pr, needs, s), DeferredInCode(pr, s), Advanced(pr, s, t)
  PROVE  Nested(pr, needs, t) /\ DeferredInCode(pr, t)
  <1>1. CASE \E n : Below(pr, s, t, n) /\ Len(t) = n
    <2>1. PICK n : Below(pr, s, t, n) /\ Len(t) = n
      BY <1>1
    <2>2. Nested(pr, needs, t)
      BY <2>1, NestedBelow DEF Nested
    <2>3. DeferredInCode(pr, t)
      BY <2>1, NestedBelow DEF DeferredInCode
    <2> QED
      BY <2>2, <2>3
  <1>2. CASE Grew(pr, s, t) /\ Caused(pr, s[Len(s)], t[Len(t)])
    <2>1. PICK n \in Nat \ {0} : n = Len(s)
      OBVIOUS
    <2>2. Below(pr, s, t, n) /\ Len(t) = n + 1
      BY <1>2, <2>1 DEF Grew
    <2>3. s[n] \in Activation /\ n \in 1..n
      BY <2>1, ElementOfSeq
    <2>4. Outer(pr, needs, t[n + 1]) \subseteq Inner(pr, needs, s[n])
      <3>1. s[n].kind = "call" => \A k \in 1..Len(s[n].defers) : Mentions(pr, s[n].fn, s[n].defers[k].fn)
        BY <2>1 DEF DeferredInCode
      <3> QED
        BY <1>2, <2>1, <2>2, <2>3, <3>1, CausedNeeds
    <2>5. ASSUME NEW i \in 1..n
          PROVE  Outer(pr, needs, t[n + 1]) \subseteq Inner(pr, needs, t[i])
      <3>1. Inner(pr, needs, t[i]) = Inner(pr, needs, s[i])
        BY <2>2, NestedBelow
      <3>2. CASE i = n
        BY <2>4, <3>1, <3>2
      <3>3. CASE i # n
        <4>1. Outer(pr, needs, s[n]) \subseteq Inner(pr, needs, s[i])
          BY <2>1, <2>3, <3>3 DEF Nested
        <4> QED
          BY <2>4, <3>1, <4>1, InnerInOuter
      <3> QED
        BY <3>2, <3>3
    <2>6. \A i \in 1..Len(t) : i \in 1..n \/ i = n + 1
      BY <2>2
    <2>7. Nested(pr, needs, t)
      <3>1. ASSUME NEW i \in 1..Len(t), NEW j \in 1..Len(t), i < j
            PROVE  Outer(pr, needs, t[j]) \subseteq Inner(pr, needs, t[i])
        <4>1. i \in 1..n
          BY <2>2, <3>1
        <4> QED
          BY <2>2, <2>5, <2>6, <3>1, <4>1, NestedBelow
      <3> QED
        BY <3>1 DEF Nested
    <2>8. t[n + 1].kind = "call" => t[n + 1].defers = <<>>
      BY <1>2, <2>1, <2>2 DEF Caused, Fresh
    <2>9. DeferredInCode(pr, t)
      <3>1. ASSUME NEW i \in 1..Len(t), t[i].kind = "call", NEW k \in 1..Len(t[i].defers)
            PROVE  Mentions(pr, t[i].fn, t[i].defers[k].fn)
        <4>1. CASE i \in 1..n
          BY <2>2, <3>1, <4>1, NestedBelow
        <4>2. CASE i = n + 1
          BY <2>8, <3>1, <4>2
        <4> QED
          BY <2>6, <4>1, <4>2
      <3> QED
        BY <3>1 DEF DeferredInCode
    <2> QED
      BY <2>7, <2>9
  <1> QED
    BY <1>1, <1>2 DEF Advanced, Moved, Returned

\* What a step leaves or starts under construction was not published before it.
LEMMA UnpublishedAdvanced ==
  ASSUME NEW pr, NEW s, NEW t, Len(s) \in Nat \ {0}, Unpublished(s, singletons), Advanced(pr, s, t),
         NEW i \in 1..Len(t), t[i].kind = "instance", t[i].outcome = Running, t[i].type \in Objects
  PROVE  /\ singletons[t[i].type] = 0
         /\ i <= Len(s) => s[i].kind = "instance" /\ s[i].type = t[i].type
  <1>1. ASSUME NEW n, Below(pr, s, t, n), i \in 1..n
        PROVE  /\ singletons[t[i].type] = 0
               /\ s[i].kind = "instance" /\ s[i].type = t[i].type
    <2>1. i \in 1..Len(s) /\ (i = n \/ i \in 1..(n - 1))
      BY <1>1 DEF Below
    <2>2. Same(pr, s[i], t[i])
      BY <1>1, <2>1, SameSame DEF Below
    <2>3. s[i].kind = "instance" /\ s[i].type = t[i].type /\ s[i].outcome = Running
      BY <2>2 DEF Same
    <2> QED
      BY <2>1, <2>3 DEF Unpublished
  <1>2. CASE Moved(pr, s, t) \/ Returned(pr, s, t)
    <2>1. PICK n : Below(pr, s, t, n) /\ Len(t) = n
      BY <1>2 DEF Moved, Returned
    <2> QED
      BY <1>1, <2>1
  <1>3. CASE Grew(pr, s, t) /\ Caused(pr, s[Len(s)], t[Len(t)])
    <2>1. Below(pr, s, t, Len(s)) /\ Len(t) = Len(s) + 1
      BY <1>3 DEF Grew
    <2>2. CASE i \in 1..Len(s)
      BY <1>1, <2>1, <2>2
    <2>3. CASE i = Len(t)
      BY <1>3, <2>1, <2>3 DEF Caused, Fresh
    <2> QED
      BY <2>1, <2>2, <2>3
  <1> QED
    BY <1>2, <1>3 DEF Advanced

\* An object is published over nothing: no other instance of it is under
\* construction, and none has been published or served.
LEMMA PublishOnce ==
  ASSUME CleanupInv, BuildInv, SharedInv, Publish
  PROVE  /\ stack # <<>> /\ Top.inst # 0
         /\ Top.type \in Objects => singletons[Top.type] = 0 /\ served[Top.type] = {}
         /\ Top.type \in Objects =>
              \A i \in 1..(Len(stack) - 1) :
                stack[i].kind = "instance" => stack[i].type # Top.type
  <1>1. /\ stack # <<>> /\ Top \in InstanceFrame /\ Len(stack) \in Nat \ {0}
        /\ Top = stack[Len(stack)] /\ Top.inst # 0 /\ Top.outcome = Running
    BY BuildingTop DEF Publish
  <1>2. Top.kind = "instance"
    BY <1>1 DEF InstanceFrame
  <1>3. Top.type \in Objects => singletons[Top.type] = 0
    BY <1>1, <1>2 DEF SharedInv, Unpublished
  <1>4. Top.type \in Objects => served[Top.type] = {}
    BY <1>3 DEF SharedInv, ServedPublished
  <1>5. ASSUME Top.type \in Objects, NEW i \in 1..(Len(stack) - 1), stack[i].kind = "instance",
               stack[i].type = Top.type
        PROVE  FALSE
    <2>1. PICK needs : needs = Needs(program)
      OBVIOUS
    <2>2. Covers(program, needs) /\ Nested(program, needs, stack)
      BY <2>1, NeedsCover DEF SharedInv
    <2>3. Outer(program, needs, stack[Len(stack)]) \subseteq Inner(program, needs, stack[i])
      <3>1. i \in 1..Len(stack) /\ Len(stack) \in 1..Len(stack) /\ i < Len(stack)
        BY <1>1
      <3> QED
        BY <2>2, <3>1 DEF Nested
    <2>4. Top.type \in InitialiserNeeds(program, needs, Top.type)
      BY <1>1, <1>2, <1>5, <2>3 DEF Outer, Inner
    <2> QED
      BY <1>5, <2>2, <2>4 DEF Covers
  <1> QED
    BY <1>1, <1>3, <1>4, <1>5

LEMMA SharedTree == ASSUME CleanupInv, BuildInv, SharedInv, TreeStep PROVE SharedInv'
  <1>1. /\ stack \in Seq(Activation) /\ Len(stack) \in Nat \ {0} /\ program' = program
        /\ Advanced(program, stack, stack')
    BY Sequences, TreeShape
  <1>2. PICK needs : needs = Needs(program)
    OBVIOUS
  <1>3. Covers(program, needs)
    BY <1>2, NeedsCover DEF SharedInv
  <1>4. Nested(program, needs, stack') /\ DeferredInCode(program, stack')
    BY <1>1, <1>2, <1>3, NestedAdvanced DEF SharedInv
  <1>5. singletons \in [Objects -> Nat] /\ served \in [Objects -> SUBSET Nat]
    BY DEF CleanupInv, IInv, TypeOK
  <1>6. CASE Publish
    <2>1. /\ stack' = WithTop([Top EXCEPT !.outcome = Ok(ObjectRef(Top.inst))])
          /\ \A o \in Objects :
               /\ singletons'[o] = IF o = Top.type THEN Top.inst ELSE singletons[o]
               /\ served'[o] = IF o = Top.type THEN served[o] \cup {Top.inst} ELSE served[o]
      BY <1>5, <1>6 DEF Publish
    <2>2. ServedPublished(singletons, served)'
      BY <1>6, <2>1, PublishOnce DEF SharedInv, ServedPublished
    <2>3. Unpublished(stack, singletons)'
      <3>1. PICK f : f = [Top EXCEPT !.outcome = Ok(ObjectRef(Top.inst))]
        OBVIOUS
      <3>2. Top \in InstanceFrame /\ Building("publish") /\ stack # <<>>
        BY <1>6, BuildingOK DEF Publish, CleanupInv
      <3>3. f.outcome # Running /\ Same(program, Top, f)
        BY <3>1, <3>2 DEF InstanceFrame, Ok, Running, Same
      <3>4. Moved(program, stack, stack') /\ stack'[Len(stack)] = f
        BY <2>1, <3>1, <3>2, <3>3, TopMoved
      <3>5. ASSUME NEW i \in 1..Len(stack'), stack'[i].kind = "instance",
                   stack'[i].outcome = Running, stack'[i].type \in Objects
            PROVE  singletons'[stack'[i].type] = 0
        <4>1. i # Len(stack) /\ i \in 1..(Len(stack) - 1)
          BY <1>1, <3>3, <3>4, <3>5 DEF Moved
        <4>2. /\ singletons[stack'[i].type] = 0
              /\ stack[i].kind = "instance" /\ stack[i].type = stack'[i].type
          BY <1>1, <3>5, <4>1, UnpublishedAdvanced DEF SharedInv
        <4>3. stack'[i].type # Top.type
          BY <1>6, <3>5, <4>1, <4>2, PublishOnce
        <4> QED
          BY <2>1, <3>5, <4>2, <4>3
      <3> QED
        BY <3>5 DEF Unpublished
    <2> QED
      BY <1>1, <1>2, <1>4, <2>2, <2>3 DEF SharedInv
  <1>7. CASE ~Publish
    <2>1. singletons' = singletons
      BY <1>7 DEF TreeStep, BodyStep, ExecUse, ExecCall, ExecDefer, ExecFail, Goto, Switch, Return,
             EnterUnreachable, EndBody, JumpTo, InstanceStep, ReadSingleton, ExecInstance,
             RunFieldInit, RunNew, Initialise, ReturnStep, RunCleanup, ReturnValue,
             PropagateError, ReturnToCleanup, ReturnToInstance, objectVars
    <2>2. Unpublished(stack, singletons)'
      BY <1>1, <2>1, UnpublishedAdvanced DEF SharedInv, Unpublished
    <2>3. ServedPublished(singletons, served)'
      <3>1. CASE ReadSingleton
        <4>1. PICK o : /\ o \in Objects /\ singletons[o] # 0
                       /\ served' = [served EXCEPT ![o] = @ \cup {singletons[o]}]
          BY <3>1 DEF ReadSingleton
        <4> QED
          BY <1>5, <2>1, <4>1 DEF SharedInv, ServedPublished
      <3>2. CASE ~ReadSingleton
        <4>1. served' = served
          BY <1>7, <3>2 DEF TreeStep, BodyStep, ExecUse, ExecCall, ExecDefer, ExecFail, Goto, Switch,
             Return, EnterUnreachable, EndBody, JumpTo, InstanceStep, ExecInstance,
             RunFieldInit, RunNew, Initialise, ReturnStep, RunCleanup, ReturnValue,
             PropagateError, ReturnToCleanup, ReturnToInstance, objectVars
        <4> QED
          BY <2>1, <4>1 DEF SharedInv
      <3> QED
        BY <3>1, <3>2
    <2> QED
      BY <1>1, <1>2, <1>4, <2>2, <2>3 DEF SharedInv
  <1> QED
    BY <1>6, <1>7

LEMMA SharedDriver == ASSUME CleanupInv, SharedInv, DriverStep PROVE SharedInv'
  <1>1. program' = program /\ singletons' = singletons
    BY DEF DriverStep, InitGlobals, GlobalsDone, CallEntry, EntryDone, NoSpecs, AllSpecsRun,
           StartSpec, CreateReceiver, ReceiverReady, SpecDone, objectVars
  <1>2. \/ Len(stack') = 0
        \/ Len(stack') = 1 /\ stack'[1].kind = "call" /\ stack'[1].defers = <<>>
        \/ Len(stack') = 1 /\ Fresh(stack'[1])
    BY DriverShape
  <1>3. Nested(program, Needs(program), stack)'
    BY <1>2 DEF Nested
  <1>4. DeferredInCode(program, stack)'
    BY <1>2 DEF DeferredInCode, Fresh
  <1>5. Unpublished(stack, singletons)'
    BY <1>1, <1>2 DEF Unpublished, Fresh
  <1>6. ServedPublished(singletons, served)'
    <2>1. CASE StartSpec
      <3>1. PICK o : /\ o \in Objects /\ singletons[o] # 0
                     /\ served' = [served EXCEPT ![o] = @ \cup {singletons[o]}]
        BY <2>1 DEF StartSpec
      <3>2. served \in [Objects -> SUBSET Nat]
        BY DEF CleanupInv, IInv, TypeOK
      <3> QED
        BY <1>1, <3>1, <3>2 DEF SharedInv, ServedPublished
    <2>2. CASE ~StartSpec
      <3>1. served' = served
        BY <2>2 DEF DriverStep, InitGlobals, GlobalsDone, CallEntry, EntryDone, NoSpecs, AllSpecsRun,
               CreateReceiver, ReceiverReady, SpecDone, objectVars
      <3> QED
        BY <1>1, <3>1 DEF SharedInv
    <2> QED
      BY <2>1, <2>2
  <1> QED
    BY <1>1, <1>3, <1>4, <1>5, <1>6 DEF SharedInv

LEMMA SharedInit == Init /\ NoReentry(program) => SharedInv
  <1> SUFFICES ASSUME Init, NoReentry(program) PROVE SharedInv
    OBVIOUS
  <1>1. Len(<<>>) = 0
    OBVIOUS
  <1> QED
    BY <1>1 DEF Init, SharedInv, Nested, DeferredInCode, Unpublished, ServedPublished

LEMMA SharedNext == CleanupInv /\ BuildInv /\ SharedInv /\ [Next]_vars => SharedInv'
  <1> SUFFICES ASSUME CleanupInv, BuildInv, SharedInv, [Next]_vars PROVE SharedInv'
    OBVIOUS
  <1>1. CASE Overflow
    <2>1. stack' = <<>> /\ program' = program /\ singletons' = singletons /\ served' = served
      BY <1>1 DEF Overflow, objectVars
    <2>2. Len(<<>>) = 0
      OBVIOUS
    <2> QED
      BY <2>1, <2>2 DEF SharedInv, Nested, DeferredInCode, Unpublished
  <1>2. CASE UNCHANGED vars
    BY <1>2 DEF vars, objectVars, SharedInv
  <1> QED
    BY <1>1, <1>2, SharedTree, SharedDriver DEF Next, TreeStep

LEMMA SharedEnough == SharedInv => OneSharedObject
  <1> SUFFICES ASSUME SharedInv, NEW o \in Objects PROVE Cardinality(served[o]) <= 1
    BY DEF OneSharedObject
  <1>1. served[o] = {} \/ served[o] = {singletons[o]}
    BY DEF SharedInv, ServedPublished
  <1>2. Cardinality({}) = 0 /\ Cardinality({singletons[o]}) = 1
    BY FS_EmptySet, FS_Singleton
  <1> QED
    BY <1>1, <1>2

\* If no construction of an object can lead back to a lookup of it, by the calls
\* and the deferrals written in the program, then all its lookups, by the code
\* and by run_specs, give one instance: whatever fails, is retried or deferred.
\* Without that condition the code does not promise it: see the programs that
\* re-enter a construction.
THEOREM ObjectsShared == Spec /\ NoReentry(program) => []OneSharedObject
  BY CleanupInit, CleanupNext, BuildInit, BuildNext, SharedInit, SharedNext, SharedEnough,
     PTL DEF Spec

-----------------------------------------------------------------------------
(* Induction over the natural numbers, and sequences flattened one by one. *)

LEMMA NatMin ==
  ASSUME NEW T, T \subseteq Nat, T # {}
  PROVE  \E x \in T : \A y \in T : x <= y
  <1>1. PICK R : R = {p \in Nat \X Nat : p[1] < p[2]}
    OBVIOUS
  <1>2. OpToRel(<, Nat) = {p \in Nat \X Nat : p[1] < p[2]}
    BY Zenon DEF OpToRel
  <1>3. IsWellFoundedOn(R, Nat)
    BY <1>1, <1>2, NatLessThanWellFounded, Zenon
  <1>4. PICK x \in T : \A y \in T : ~(<<y, x>> \in R)
    BY <1>3, WFMin, Zenon
  <1>5. ASSUME NEW y \in T PROVE x <= y
    <2>1. <<y, x>> \in Nat \X Nat
      OBVIOUS
    <2>2. ~(y < x)
      BY <1>1, <1>4, <2>1
    <2> QED
      BY <2>2
  <1> QED
    BY <1>5

LEMMA NatInduct ==
  ASSUME NEW T, 0 \in T, \A n \in Nat : n \in T => n + 1 \in T
  PROVE  Nat \subseteq T
  <1> SUFFICES ASSUME Nat \ T # {} PROVE FALSE
    OBVIOUS
  <1>1. PICK m \in Nat \ T : \A y \in Nat \ T : m <= y
    BY NatMin
  <1>2. m # 0 /\ m - 1 \in Nat
    BY <1>1
  <1>3. m - 1 \in T
    BY <1>1, <1>2
  <1> QED
    BY <1>1, <1>2, <1>3

\* f holds the concatenations of the first sequences of s, up to the nth.
Flattens(f, s, n) == f = [i \in 1..n |-> IF i = 1 THEN s[i] ELSE f[i - 1] \o s[i]]

LEMMA FlattensAt ==
  ASSUME NEW s, NEW n, NEW f, Flattens(f, s, n), NEW i \in 1..n
  PROVE  f[i] = IF i = 1 THEN s[i] ELSE f[i - 1] \o s[i]
  <1>1. f = [j \in 1..n |-> IF j = 1 THEN s[j] ELSE f[j - 1] \o s[j]]
    BY DEF Flattens
  <1>2. PICK h : h = [j \in 1..n |-> IF j = 1 THEN s[j] ELSE f[j - 1] \o s[j]]
    OBVIOUS
  <1>3. h[i] = IF i = 1 THEN s[i] ELSE f[i - 1] \o s[i]
    BY <1>2, Zenon
  <1>4. h = f
    BY <1>1, <1>2, Zenon
  <1> QED
    BY <1>3, <1>4

LEMMA FlattensExists == ASSUME NEW s, NEW n \in Nat PROVE \E f : Flattens(f, s, n)
  <1>1. PICK T : T = {k \in Nat : \E f : Flattens(f, s, k)}
    OBVIOUS
  <1>2. 0 \in T
    <2>1. PICK f : f = [i \in 1..0 |-> s[i]]
      OBVIOUS
    <2>2. Flattens(f, s, 0)
      BY <2>1 DEF Flattens
    <2> QED
      BY <1>1, <2>2
  <1>3. ASSUME NEW k \in Nat, k \in T PROVE k + 1 \in T
    <2>1. PICK f : Flattens(f, s, k)
      BY <1>1, <1>3
    <2>2. PICK e : e = IF k = 0 THEN s[1] ELSE f[k] \o s[k + 1]
      OBVIOUS
    <2>3. PICK g : g = [i \in 1..(k + 1) |-> IF i = k + 1 THEN e ELSE f[i]]
      OBVIOUS
    <2>4. ASSUME NEW i \in 1..(k + 1)
          PROVE  g[i] = IF i = 1 THEN s[i] ELSE g[i - 1] \o s[i]
      <3>1. CASE i = k + 1
        BY <2>2, <2>3, <3>1
      <3>2. CASE i # k + 1
        <4>1. i \in 1..k /\ (i # 1 => i - 1 \in 1..k)
          BY <3>2
        <4>2. f[i] = IF i = 1 THEN s[i] ELSE f[i - 1] \o s[i]
          BY <2>1, <4>1, FlattensAt
        <4>3. g[i] = f[i] /\ (i # 1 => g[i - 1] = f[i - 1])
          BY <2>3, <3>2, <4>1
        <4> QED
          BY <4>2, <4>3
      <3> QED
        BY <3>1, <3>2
    <2>5. Flattens(g, s, k + 1)
      <3>1. PICK h : h = [i \in 1..(k + 1) |-> IF i = 1 THEN s[i] ELSE g[i - 1] \o s[i]]
        OBVIOUS
      <3>2. \A i \in 1..(k + 1) : h[i] = g[i]
        BY <2>4, <3>1
      <3>3. h = g
        BY <2>3, <3>1, <3>2
      <3> QED
        BY <3>1, <3>3 DEF Flattens
    <2> QED
      BY <1>1, <2>5
  <1> QED
    BY <1>1, <1>2, <1>3, NatInduct

AgreeUpTo(n, s, t) == \A i \in 1..n : s[i] = t[i]

LEMMA FlattensUnique ==
  ASSUME NEW s, NEW t, NEW n \in Nat, NEW m \in Nat, n <= m, NEW f, NEW g,
         Flattens(f, s, n), Flattens(g, t, m), AgreeUpTo(n, s, t)
  PROVE  AgreeUpTo(n, f, g)
  <1>1. PICK T : T = {k \in Nat : k \in 1..n => f[k] = g[k]}
    OBVIOUS
  <1>2. 0 \in T
    BY <1>1
  <1>3. ASSUME NEW k \in Nat, k \in T PROVE k + 1 \in T
    <2> SUFFICES ASSUME k + 1 \in 1..n PROVE f[k + 1] = g[k + 1]
      BY <1>1
    <2>1. k + 1 \in 1..m /\ (k + 1) - 1 = k /\ (k + 1 # 1 => k \in 1..n)
      OBVIOUS
    <2>2. f[k + 1] = IF k + 1 = 1 THEN s[k + 1] ELSE f[(k + 1) - 1] \o s[k + 1]
      BY FlattensAt
    <2>3. g[k + 1] = IF k + 1 = 1 THEN t[k + 1] ELSE g[(k + 1) - 1] \o t[k + 1]
      BY <2>1, FlattensAt
    <2>4. k + 1 # 1 => f[k] = g[k]
      BY <1>1, <1>3, <2>1
    <2>5. s[k + 1] = t[k + 1]
      BY DEF AgreeUpTo
    <2> QED
      BY <2>1, <2>2, <2>3, <2>4, <2>5
  <1> QED
    BY <1>1, <1>2, <1>3, NatInduct DEF AgreeUpTo

LEMMA FlattenIs ==
  ASSUME NEW s, Len(s) \in Nat \ {0}, NEW f, Flattens(f, s, Len(s))
  PROVE  FlattenSeq(s) = f[Len(s)]
  <1>1. PICK g : g = CHOOSE h : Flattens(h, s, Len(s))
    OBVIOUS
  <1>2. Flattens(g, s, Len(s))
    BY <1>1
  <1>3. FlattenSeq(s) = (CHOOSE h : Flattens(h, s, Len(s)))[Len(s)]
    BY DEF FlattenSeq, Flattens
  <1>4. AgreeUpTo(Len(s), g, f)
    BY <1>2, FlattensUnique DEF AgreeUpTo
  <1> QED
    BY <1>1, <1>3, <1>4 DEF AgreeUpTo

LEMMA FlattenNone == FlattenSeq(<<>>) = <<>>
  BY DEF FlattenSeq

LEMMA FlattenInSeq == ASSUME NEW S, NEW s \in Seq(Seq(S)) PROVE FlattenSeq(s) \in Seq(S)
  <1>1. PICK n : n = Len(s)
    OBVIOUS
  <1>2. n \in Nat
    BY <1>1, LenProperties
  <1>3. CASE n = 0
    <2>1. s = <<>>
      BY <1>1, <1>3, EmptySeq
    <2> QED
      BY <2>1, FlattenNone, EmptySeq
  <1>4. CASE n # 0
    <2>1. PICK f : Flattens(f, s, n)
      BY <1>2, FlattensExists
    <2>2. PICK T : T = {k \in Nat : k \in 1..n => f[k] \in Seq(S)}
      OBVIOUS
    <2>3. 0 \in T
      BY <2>2
    <2>4. ASSUME NEW k \in Nat, k \in T PROVE k + 1 \in T
      <3> SUFFICES ASSUME k + 1 \in 1..n PROVE f[k + 1] \in Seq(S)
        BY <2>2
      <3>1. f[k + 1] = IF k + 1 = 1 THEN s[k + 1] ELSE f[k] \o s[k + 1]
        <4>1. f[k + 1] = IF k + 1 = 1 THEN s[k + 1] ELSE f[(k + 1) - 1] \o s[k + 1]
          BY <2>1, FlattensAt
        <4>2. (k + 1) - 1 = k
          OBVIOUS
        <4> QED
          BY <4>1, <4>2
      <3>2. s[k + 1] \in Seq(S)
        BY <1>1, ElementOfSeq
      <3>3. k # 0 => f[k] \in Seq(S)
        BY <1>2, <2>2, <2>4
      <3> QED
        BY <3>1, <3>2, <3>3, ConcatProperties
    <2>5. n \in T
      BY <1>2, <2>3, <2>4, NatInduct
    <2>6. f[n] \in Seq(S)
      BY <1>2, <1>4, <2>2, <2>5
    <2> QED
      BY <1>1, <1>2, <1>4, <2>1, <2>6, FlattenIs
  <1> QED
    BY <1>3, <1>4

LEMMA FlattenAppend ==
  ASSUME NEW S, NEW s \in Seq(Seq(S)), NEW e \in Seq(S)
  PROVE  FlattenSeq(Append(s, e)) = FlattenSeq(s) \o e
  <1>1. PICK n : n = Len(s)
    OBVIOUS
  <1>2. PICK t : t = Append(s, e)
    OBVIOUS
  <1>3. n \in Nat /\ Len(t) = n + 1 /\ t[n + 1] = e /\ \A i \in 1..n : t[i] = s[i]
    BY <1>1, <1>2, AppendedSeq
  <1>4. PICK m \in Nat \ {0} : m = n + 1
    BY <1>3
  <1>5. PICK g : Flattens(g, t, m)
    BY FlattensExists
  <1>6. FlattenSeq(t) = g[m]
    BY <1>3, <1>4, <1>5, FlattenIs
  <1>7. g[m] = IF m = 1 THEN e ELSE g[n] \o e
    <2>1. m \in 1..m /\ m - 1 = n
      BY <1>3, <1>4
    <2>2. g[m] = IF m = 1 THEN t[m] ELSE g[m - 1] \o t[m]
      BY <1>5, <2>1, FlattensAt
    <2> QED
      BY <1>3, <1>4, <2>1, <2>2
  <1>8. CASE n = 0
    <2>1. g[m] = e
      BY <1>4, <1>7, <1>8
    <2>2. s = <<>>
      BY <1>1, <1>8, EmptySeq
    <2>3. <<>> \o e = e
      BY ConcatEmptySeq
    <2> QED
      BY <1>2, <1>6, <2>1, <2>2, <2>3, FlattenNone
  <1>9. CASE n # 0
    <2>1. PICK f : Flattens(f, s, n)
      BY <1>3, FlattensExists
    <2>2. n <= m /\ n \in 1..n
      BY <1>3, <1>4, <1>9
    <2>3. AgreeUpTo(n, s, t)
      BY <1>3 DEF AgreeUpTo
    <2>4. AgreeUpTo(n, f, g)
      <3>1. n \in Nat /\ m \in Nat
        BY <1>3, <1>4
      <3>2. Flattens(f, s, n) /\ Flattens(g, t, m) /\ n <= m
        BY <1>5, <2>1, <2>2
      <3> QED
        BY <2>3, <3>1, <3>2, FlattensUnique
    <2>5. FlattenSeq(s) = f[n]
      BY <1>1, <1>3, <1>9, <2>1, FlattenIs
    <2>6. m # 1
      BY <1>3, <1>4, <1>9
    <2>7. g[m] = f[n] \o e
      BY <1>7, <2>2, <2>4, <2>6 DEF AgreeUpTo
    <2> QED
      BY <1>2, <1>6, <2>5, <2>7
  <1> QED
    BY <1>3, <1>8, <1>9

-----------------------------------------------------------------------------
(* What is noted about failures, and what a call reports. *)

Deepened(notes) == [i \in DOMAIN notes |-> [notes[i] EXCEPT !.depth = notes[i].depth + 1]]

FailedNote(d) == [kind |-> "failed", at |-> d.at, depth |-> 0]

LEMMA NestedOK == ASSUME NEW ns \in Seq(Note) PROVE Deepened(ns) \in Seq(Note)
  <1>1. DOMAIN ns = 1..Len(ns) /\ Len(ns) \in Nat
    BY LenProperties
  <1>2. ASSUME NEW i \in 1..Len(ns)
        PROVE  [ns[i] EXCEPT !.depth = ns[i].depth + 1] \in Note
    <2>1. ns[i] \in Note
      BY <1>2, ElementOfSeq
    <2> QED
      BY <2>1 DEF Note
  <1>3. Deepened(ns) \in [1..Len(ns) -> Note]
    BY <1>1, <1>2 DEF Deepened
  <1> QED
    BY <1>1, <1>3, SeqDef

LEMMA NotesAboutIs ==
  ASSUME NEW d \in Diagnostic
  PROVE  /\ NotesAbout(d) = <<FailedNote(d)>> \o Deepened(d.notes)
         /\ <<FailedNote(d)>> \in Seq(Note) /\ Deepened(d.notes) \in Seq(Note)
         /\ NotesAbout(d) \in Seq(Note)
  <1>1. d.at \in Site /\ d.notes \in Seq(Note)
    BY DEF Diagnostic
  <1>2. NotesAbout(d) = <<FailedNote(d)>> \o Deepened(d.notes)
    BY DEF NotesAbout, FailedNote, Deepened
  <1>3. <<FailedNote(d)>> \in Seq(Note)
    BY <1>1 DEF FailedNote, Note
  <1>4. Deepened(d.notes) \in Seq(Note)
    BY <1>1, NestedOK
  <1> QED
    BY <1>2, <1>3, <1>4, ConcatProperties

LEMMA NotesEach ==
  ASSUME NEW fs \in Seq(Diagnostic)
  PROVE  [i \in DOMAIN fs |-> NotesAbout(fs[i])] \in Seq(Seq(Note))
  <1>1. DOMAIN fs = 1..Len(fs) /\ Len(fs) \in Nat
    BY LenProperties
  <1>2. ASSUME NEW i \in 1..Len(fs) PROVE NotesAbout(fs[i]) \in Seq(Note)
    BY ElementOfSeq, NotesAboutIs
  <1>3. [i \in DOMAIN fs |-> NotesAbout(fs[i])] \in [1..Len(fs) -> Seq(Note)]
    BY <1>1, <1>2
  <1> QED
    BY <1>1, <1>3, SeqDef

LEMMA NotesNone == NotesAboutAll(<<>>) = <<>>
  <1>1. [i \in DOMAIN <<>> |-> NotesAbout(<<>>[i])] = <<>>
    OBVIOUS
  <1> QED
    BY <1>1, FlattenNone DEF NotesAboutAll

LEMMA NotesInSeq ==
  ASSUME NEW fs \in Seq(Diagnostic) PROVE NotesAboutAll(fs) \in Seq(Note)
  BY NotesEach, FlattenInSeq DEF NotesAboutAll

LEMMA NotesMore ==
  ASSUME NEW fs \in Seq(Diagnostic), NEW d \in Diagnostic
  PROVE  NotesAboutAll(Append(fs, d)) = NotesAboutAll(fs) \o NotesAbout(d)
  <1>1. PICK gs : gs = Append(fs, d)
    OBVIOUS
  <1>2. gs \in Seq(Diagnostic)
    BY <1>1, AppendProperties
  <1>3. /\ Len(fs) \in Nat /\ Len(gs) = Len(fs) + 1 /\ gs[Len(fs) + 1] = d
        /\ \A i \in 1..Len(fs) : gs[i] = fs[i]
    BY <1>1, AppendedSeq
  <1>4. PICK a : a = [i \in DOMAIN fs |-> NotesAbout(fs[i])]
    OBVIOUS
  <1>5. PICK b : b = [i \in DOMAIN gs |-> NotesAbout(gs[i])]
    OBVIOUS
  <1>6. PICK c : c = Append(a, NotesAbout(d))
    OBVIOUS
  <1>7. a \in Seq(Seq(Note)) /\ b \in Seq(Seq(Note))
    BY <1>2, <1>4, <1>5, NotesEach
  <1>8. DOMAIN fs = 1..Len(fs) /\ DOMAIN gs = 1..Len(gs)
    BY <1>2, LenProperties
  <1>9. DOMAIN a = 1..Len(fs) /\ DOMAIN b = 1..Len(gs) /\ Len(a) = Len(fs)
    <2>1. DOMAIN a = DOMAIN fs /\ DOMAIN b = DOMAIN gs
      BY <1>4, <1>5
    <2>2. DOMAIN a = 1..Len(a) /\ Len(a) \in Nat
      BY <1>7, LenProperties
    <2> QED
      BY <1>3, <1>8, <2>1, <2>2, 1..Len(a) = 1..Len(fs)
  <1>10. NotesAbout(d) \in Seq(Note)
    BY NotesAboutIs
  <1>11. c \in Seq(Seq(Note))
    BY <1>6, <1>7, <1>10, AppendProperties
  <1>12. /\ Len(c) = Len(gs) /\ DOMAIN c = 1..Len(gs)
         /\ \A i \in 1..Len(fs) : c[i] = a[i]
         /\ c[Len(fs) + 1] = NotesAbout(d)
    <2>1. /\ Len(c) = Len(a) + 1 /\ c[Len(a) + 1] = NotesAbout(d)
          /\ \A i \in 1..Len(a) : c[i] = a[i]
      BY <1>6, <1>7, AppendedSeq
    <2>2. DOMAIN c = 1..Len(c)
      BY <1>11, LenProperties
    <2> QED
      BY <1>3, <1>9, <2>1, <2>2
  <1>13. \A i \in 1..Len(gs) : b[i] = c[i]
    <2>1. ASSUME NEW i \in 1..Len(fs) PROVE b[i] = c[i]
      <3>1. i \in DOMAIN fs /\ i \in DOMAIN gs
        BY <1>3, <1>8
      <3>2. a[i] = NotesAbout(fs[i]) /\ b[i] = NotesAbout(gs[i])
        BY <1>4, <1>5, <3>1
      <3> QED
        BY <1>3, <1>12, <3>2
    <2>2. b[Len(fs) + 1] = NotesAbout(d)
      <3>1. Len(fs) + 1 \in DOMAIN gs
        BY <1>3, <1>8
      <3>2. b[Len(fs) + 1] = NotesAbout(gs[Len(fs) + 1])
        BY <1>5, <3>1
      <3> QED
        BY <1>3, <3>2
    <2>3. ASSUME NEW i \in 1..Len(gs) PROVE i \in 1..Len(fs) \/ i = Len(fs) + 1
      BY <1>3
    <2> QED
      BY <1>12, <2>1, <2>2, <2>3
  <1>14. b = c
    BY <1>7, <1>9, <1>11, <1>12, <1>13, SeqEqual
  <1>15. FlattenSeq(c) = FlattenSeq(a) \o NotesAbout(d)
    BY <1>6, <1>7, <1>10, FlattenAppend
  <1> QED
    BY <1>1, <1>4, <1>5, <1>14, <1>15 DEF NotesAboutAll

LEMMA OutcomeIs ==
  ASSUME NEW o \in Outcome, o # Running
  PROVE  \/ o.tag = "ok"
         \/ o.tag = "err" /\ o.diag \in Diagnostic /\ o = Err(o.diag)
  <1>1. CASE o \in [tag : {"ok"}, value : Value]
    BY <1>1 DEF Err
  <1>2. CASE o \in [tag : {"err"}, diag : Diagnostic]
    BY <1>2 DEF Err
  <1> QED
    BY <1>1, <1>2 DEF Outcome

\* A call without failed cleanups reports what its body ended with.
LEMMA ReportedNone ==
  ASSUME NEW o \in Outcome, o # Running
  PROVE  Reported(o, <<>>) = o
  <1>1. CASE o.tag = "err"
    <2>1. o.diag \in Diagnostic /\ o = Err(o.diag)
      BY <1>1, OutcomeIs
    <2>2. o.diag.notes \in Seq(Note) /\ o.diag = [at |-> o.diag.at, notes |-> o.diag.notes]
      BY <2>1 DEF Diagnostic
    <2>3. o.diag.notes \o <<>> = o.diag.notes
      BY <2>2, ConcatEmptySeq
    <2> QED
      BY <1>1, <2>1, <2>2, <2>3, NotesNone DEF Reported
  <1>2. CASE o.tag # "err"
    BY <1>2 DEF Reported
  <1> QED
    BY <1>1, <1>2

\* One more failed cleanup is folded into the report the way the code does it.
LEMMA ReportedMore ==
  ASSUME NEW b \in Outcome, b # Running, NEW fs \in Seq(Diagnostic), NEW d \in Diagnostic
  PROVE  Reported(b, Append(fs, d)) = ReportFailure(Reported(b, fs), d)
  <1>1. PICK n : n = NotesAbout(d)
    OBVIOUS
  <1>2. n = <<FailedNote(d)>> \o Deepened(d.notes)
    BY <1>1, NotesAboutIs
  <1>3. n \in Seq(Note) /\ <<FailedNote(d)>> \in Seq(Note) /\ Deepened(d.notes) \in Seq(Note)
    BY <1>1, NotesAboutIs
  <1>4. ASSUME NEW p, NEW x \in Seq(Note), NEW y \in Seq(Note)
        PROVE  ReportFailure(Err([at |-> p, notes |-> x \o y]), d)
                 = Err([at |-> p, notes |-> x \o (y \o n)])
    <2>1. PICK z : z = x \o y
      OBVIOUS
    <2>2. z \in Seq(Note)
      BY <2>1, ConcatProperties
    <2>3. z \o <<FailedNote(d)>> \o Deepened(d.notes) = z \o n
      BY <1>2, <1>3, <2>2, ConcatAssociative
    <2>4. z \o n = x \o (y \o n)
      BY <1>3, <2>1, ConcatAssociative
    <2>5. PICK q : q = [at |-> p, notes |-> z]
      OBVIOUS
    <2>6. AttachCleanupFailure(q, d) = [at |-> p, notes |-> z \o n]
      <3>1. AttachCleanupFailure(q, d)
              = [at |-> q.at, notes |-> q.notes \o <<FailedNote(d)>> \o Deepened(d.notes)]
        BY DEF AttachCleanupFailure, FailedNote, Deepened
      <3>2. q.at = p /\ q.notes = z
        BY <2>5
      <3> QED
        BY <2>3, <3>1, <3>2
    <2>7. ReportFailure(Err(q), d) = Err(AttachCleanupFailure(q, d))
      BY DEF ReportFailure, Err
    <2> QED
      BY <2>1, <2>4, <2>5, <2>6, <2>7
  <1>5. CASE b.tag = "err"
    <2>1. b.diag \in Diagnostic /\ b.diag.notes \in Seq(Note)
      BY <1>5, OutcomeIs DEF Diagnostic
    <2>2. NotesAboutAll(fs) \in Seq(Note)
      BY NotesInSeq
    <2>3. Reported(b, fs) = Err([at |-> b.diag.at, notes |-> b.diag.notes \o NotesAboutAll(fs)])
      BY <1>5 DEF Reported
    <2>4. NotesAboutAll(Append(fs, d)) = NotesAboutAll(fs) \o n
      BY <1>1, NotesMore
    <2>5. PICK gs : gs = Append(fs, d)
      OBVIOUS
    <2>6. Reported(b, gs) = Err([at |-> b.diag.at, notes |-> b.diag.notes \o NotesAboutAll(gs)])
      BY <1>5 DEF Reported
    <2> QED
      BY <1>4, <2>1, <2>2, <2>3, <2>4, <2>5, <2>6
  <1>6. CASE b.tag # "err" /\ fs = <<>>
    <2>1. b.tag = "ok" /\ Reported(b, fs) = b
      BY <1>6, OutcomeIs DEF Reported
    <2>2. PICK gs : gs = Append(fs, d)
      OBVIOUS
    <2>3. Head(gs) = d /\ Tail(gs) = <<>> /\ gs # <<>>
      BY <1>6, <2>2
    <2>4. PICK x : x = Append(d.notes, DeferredNote)
      OBVIOUS
    <2>5. x \in Seq(Note)
      <3>1. DeferredNote \in Note /\ d.notes \in Seq(Note)
        BY DEF DeferredNote, Note, NoSite, Site, Diagnostic
      <3> QED
        BY <2>4, <3>1, AppendProperties
    <2>6. x \o NotesAboutAll(Tail(gs)) = x
      BY <2>3, <2>5, NotesNone, ConcatEmptySeq
    <2>7. Reported(b, gs) = Err([at |-> d.at, notes |-> x])
      <3>1. Reported(b, gs)
              = Err([at |-> Head(gs).at,
                     notes |-> Append(Head(gs).notes, DeferredNote) \o NotesAboutAll(Tail(gs))])
        BY <1>6, <2>3 DEF Reported
      <3> QED
        BY <2>3, <2>4, <2>6, <3>1
    <2>8. ReportFailure(b, d) = Err(CleanupPrimary(d))
      BY <2>1 DEF ReportFailure
    <2>9. CleanupPrimary(d) = [at |-> d.at, notes |-> x]
      BY <2>4 DEF CleanupPrimary, DeferredNote
    <2> QED
      BY <2>1, <2>2, <2>7, <2>8, <2>9
  <1>7. CASE b.tag # "err" /\ fs # <<>>
    <2>1. PICK gs : gs = Append(fs, d)
      OBVIOUS
    <2>2. PICK h : h = Head(fs)
      OBVIOUS
    <2>3. PICK ts : ts = Tail(fs)
      OBVIOUS
    <2>4. h \in Diagnostic /\ ts \in Seq(Diagnostic)
      BY <1>7, <2>2, <2>3, HeadTailProperties
    <2>5. Head(gs) = h /\ Tail(gs) = Append(ts, d) /\ gs # <<>>
      BY <1>7, <2>1, <2>2, <2>3, HeadTailAppend, AppendProperties
    <2>6. PICK x : x = Append(h.notes, DeferredNote)
      OBVIOUS
    <2>7. x \in Seq(Note) /\ NotesAboutAll(ts) \in Seq(Note)
      <3>1. DeferredNote \in Note /\ h.notes \in Seq(Note)
        BY <2>4 DEF DeferredNote, Note, NoSite, Site, Diagnostic
      <3> QED
        BY <2>4, <2>6, <3>1, AppendProperties, NotesInSeq
    <2>8. Reported(b, fs) = Err([at |-> h.at, notes |-> x \o NotesAboutAll(ts)])
      BY <1>7, <2>2, <2>3, <2>6 DEF Reported
    <2>9. NotesAboutAll(Append(ts, d)) = NotesAboutAll(ts) \o n
      BY <1>1, <2>4, NotesMore
    <2>10. Reported(b, gs) = Err([at |-> h.at, notes |-> x \o NotesAboutAll(Tail(gs))])
      BY <1>7, <2>5, <2>6 DEF Reported
    <2> QED
      BY <1>4, <2>1, <2>5, <2>7, <2>8, <2>9, <2>10
  <1> QED
    BY <1>5, <1>6, <1>7

-----------------------------------------------------------------------------
(* The inductive invariant: what an activation will report, as far as it has
   been folded, is the report of its body and of the cleanups that failed. *)

FrameTold(f, r) ==
  IF f.outcome = Running
    THEN r.failures = <<>>
    ELSE f.outcome = Reported(r.body, r.failures)

RecordTold(r) == r.outcome # Running => r.outcome = Reported(r.body, r.failures)

AllTold(s, cs) ==
  /\ \A i \in 1..Len(s) :
       s[i].kind = "call" => s[i].id \in 1..Len(cs) /\ FrameTold(s[i], cs[s[i].id])
  /\ \A c \in 1..Len(cs) : RecordTold(cs[c])

FailureInv == CleanupInv /\ AllTold(stack, calls)

\* A new call.
LEMMA ToldPush ==
  ASSUME NEW S, NEW s \in Seq(S), NEW R, NEW cs \in Seq(R), AllTold(s, cs),
         NEW f, f.id = Len(cs) + 1, f.outcome = Running,
         NEW r, r.failures = <<>>, r.outcome = Running
  PROVE  AllTold(Append(s, f), Append(cs, r))
  <1>1. PICK t : t = Append(s, f)
    OBVIOUS
  <1>2. PICK ds : ds = Append(cs, r)
    OBVIOUS
  <1>3. /\ Len(s) \in Nat /\ Len(t) = Len(s) + 1
        /\ \A i \in 1..Len(s) : t[i] = s[i]
        /\ t[Len(s) + 1] = f
    BY <1>1, AppendedSeq
  <1>4. /\ Len(cs) \in Nat /\ Len(ds) = Len(cs) + 1
        /\ \A c \in 1..Len(cs) : ds[c] = cs[c]
        /\ ds[Len(cs) + 1] = r
    BY <1>2, AppendedSeq
  <1>5. FrameTold(f, r) /\ RecordTold(r)
    BY DEF FrameTold, RecordTold
  <1>6. ASSUME NEW i \in 1..Len(t), t[i].kind = "call"
        PROVE  t[i].id \in 1..Len(ds) /\ FrameTold(t[i], ds[t[i].id])
    <2>1. CASE i \in 1..Len(s)
      <3>1. s[i].id \in 1..Len(cs) /\ FrameTold(s[i], cs[s[i].id])
        BY <1>3, <1>6, <2>1 DEF AllTold
      <3> QED
        BY <1>3, <1>4, <2>1, <3>1
    <2>2. CASE i = Len(s) + 1
      BY <1>3, <1>4, <1>5, <2>2
    <2> QED
      BY <1>3, <2>1, <2>2
  <1>7. ASSUME NEW c \in 1..Len(ds) PROVE RecordTold(ds[c])
    BY <1>4, <1>5 DEF AllTold
  <1>8. AllTold(t, ds)
    BY <1>6, <1>7 DEF AllTold
  <1> QED
    BY <1>1, <1>2, <1>8

\* An instance under construction.
LEMMA ToldPushInstance ==
  ASSUME NEW S, NEW s \in Seq(S), NEW cs, AllTold(s, cs), NEW f, f.kind # "call"
  PROVE  AllTold(Append(s, f), cs)
  <1>1. PICK t : t = Append(s, f)
    OBVIOUS
  <1>2. /\ Len(s) \in Nat /\ Len(t) = Len(s) + 1
        /\ \A i \in 1..Len(s) : t[i] = s[i]
        /\ t[Len(s) + 1] = f
    BY <1>1, AppendedSeq
  <1>3. AllTold(t, cs)
    BY <1>2 DEF AllTold
  <1> QED
    BY <1>1, <1>3

\* The innermost activation moves on; its record stays.
LEMMA ToldKeep ==
  ASSUME NEW S, NEW s \in Seq(S), NEW cs, AllTold(s, cs), s # <<>>,
         NEW f, f.kind = s[Len(s)].kind,
         f.kind = "call" => f.id = s[Len(s)].id /\ f.outcome = s[Len(s)].outcome
  PROVE  AllTold([s EXCEPT ![Len(s)] = f], cs)
  <1>1. PICK t : t = [s EXCEPT ![Len(s)] = f]
    OBVIOUS
  <1>2. /\ Len(s) \in Nat \ {0} /\ Len(t) = Len(s)
        /\ \A i \in 1..Len(s) : t[i] = IF i = Len(s) THEN f ELSE s[i]
    BY <1>1, StoredSeq, EmptySeq
  <1>3. AllTold(t, cs)
    BY <1>2 DEF AllTold, FrameTold
  <1> QED
    BY <1>1, <1>3

\* The innermost call moves on together with its record.
LEMMA ToldChange ==
  ASSUME NEW S, NEW s \in Seq(S), NEW R, NEW cs \in Seq(R), AllTold(s, cs),
         OwnRecords(s), s # <<>>, NEW f, NEW r,
         f.kind = "call", s[Len(s)].kind = "call", f.id = s[Len(s)].id,
         FrameTold(f, r), RecordTold(r)
  PROVE  AllTold([s EXCEPT ![Len(s)] = f], [cs EXCEPT ![f.id] = r])
  <1>1. PICK t : t = [s EXCEPT ![Len(s)] = f]
    OBVIOUS
  <1>2. PICK ds : ds = [cs EXCEPT ![f.id] = r]
    OBVIOUS
  <1>3. /\ Len(s) \in Nat \ {0} /\ Len(t) = Len(s)
        /\ \A i \in 1..Len(s) : t[i] = IF i = Len(s) THEN f ELSE s[i]
    BY <1>1, StoredSeq, EmptySeq
  <1>4. f.id \in 1..Len(cs)
    BY <1>3 DEF AllTold
  <1>5. /\ Len(ds) = Len(cs)
        /\ \A c \in 1..Len(cs) : ds[c] = IF c = f.id THEN r ELSE cs[c]
    BY <1>2, StoredSeq
  <1>6. ASSUME NEW i \in 1..Len(s), t[i].kind = "call"
        PROVE  t[i].id \in 1..Len(ds) /\ FrameTold(t[i], ds[t[i].id])
    <2>1. CASE i = Len(s)
      BY <1>3, <1>4, <1>5, <2>1
    <2>2. CASE i # Len(s)
      <3>1. t[i] = s[i] /\ s[i].kind = "call"
        BY <1>3, <1>6, <2>2
      <3>2. s[i].id # f.id
        BY <1>3, <2>2, <3>1 DEF OwnRecords
      <3>3. s[i].id \in 1..Len(cs) /\ FrameTold(s[i], cs[s[i].id])
        BY <3>1 DEF AllTold
      <3> QED
        BY <1>5, <3>1, <3>2, <3>3
    <2> QED
      BY <2>1, <2>2
  <1>7. \A c \in 1..Len(ds) : RecordTold(ds[c])
    BY <1>5 DEF AllTold
  <1>8. AllTold(t, ds)
    BY <1>3, <1>6, <1>7 DEF AllTold
  <1> QED
    BY <1>1, <1>2, <1>8

\* The innermost activation leaves the stack; its record is settled.
LEMMA ToldPop ==
  ASSUME NEW S, NEW s \in Seq(S), NEW cs \in Seq(CallRecord), AllTold(s, cs),
         OwnRecords(s), s # <<>>,
         s[Len(s)].kind = "call" => s[Len(s)].outcome # Running,
         NEW ds,
         ds = IF s[Len(s)].kind = "call"
                THEN [cs EXCEPT ![s[Len(s)].id].outcome = s[Len(s)].outcome] ELSE cs
  PROVE  AllTold(SubSeq(s, 1, Len(s) - 1), ds)
  <1>1. PICK t : t = SubSeq(s, 1, Len(s) - 1)
    OBVIOUS
  <1>2. /\ Len(s) \in Nat \ {0} /\ Len(t) = Len(s) - 1
        /\ \A i \in 1..(Len(s) - 1) : t[i] = s[i]
    BY <1>1, FrontOfSeq, EmptySeq
  <1>3. AllTold(t, cs)
    BY <1>2 DEF AllTold
  <1>4. CASE s[Len(s)].kind # "call"
    BY <1>1, <1>3, <1>4
  <1>5. CASE s[Len(s)].kind = "call"
    <2>1. PICK id : id = s[Len(s)].id
      OBVIOUS
    <2>2. id \in 1..Len(cs) /\ FrameTold(s[Len(s)], cs[id])
      BY <1>2, <1>5, <2>1 DEF AllTold
    <2>3. PICK r : r = [cs[id] EXCEPT !.outcome = s[Len(s)].outcome]
      OBVIOUS
    <2>4. cs[id] \in CallRecord
      BY <2>2, ElementOfSeq
    <2>5. /\ r.body = cs[id].body /\ r.failures = cs[id].failures
          /\ r.outcome = s[Len(s)].outcome
      BY <2>3, <2>4 DEF CallRecord
    <2>6. RecordTold(r)
      BY <1>5, <2>2, <2>5 DEF FrameTold, RecordTold
    <2>7. ds = [cs EXCEPT ![id] = r]
      BY <1>5, <2>1, <2>3
    <2>8. /\ Len(ds) = Len(cs)
          /\ \A c \in 1..Len(cs) : ds[c] = IF c = id THEN r ELSE cs[c]
      BY <2>7, StoredSeq
    <2>9. ASSUME NEW i \in 1..Len(t), t[i].kind = "call"
          PROVE  t[i].id \in 1..Len(ds) /\ FrameTold(t[i], ds[t[i].id])
      <3>1. t[i].id # id
        BY <1>2, <1>5, <2>1, <2>9 DEF OwnRecords
      <3>2. t[i].id \in 1..Len(cs) /\ FrameTold(t[i], cs[t[i].id])
        BY <1>3, <2>9 DEF AllTold
      <3>3. ds[t[i].id] = cs[t[i].id]
        BY <2>8, <3>1, <3>2
      <3>4. 1..Len(ds) = 1..Len(cs)
        BY <2>8
      <3> QED
        BY <3>2, <3>3, <3>4
    <2>10. \A c \in 1..Len(ds) : RecordTold(ds[c])
      BY <2>6, <2>8 DEF AllTold
    <2>11. AllTold(t, ds)
      BY <2>9, <2>10 DEF AllTold
    <2> QED
      BY <1>1, <2>11
  <1> QED
    BY <1>4, <1>5

-----------------------------------------------------------------------------
(* Every step keeps it. *)

LEMMA Told ==
  ASSUME FailureInv
  PROVE  /\ stack \in Seq(Activation) /\ calls \in Seq(CallRecord)
         /\ Linked(stack, calls) /\ OwnRecords(stack) /\ AllTold(stack, calls)
         /\ CleanupInv
  BY Sequences DEF FailureInv, Linked

LEMMA ToldSame ==
  ASSUME FailureInv, stack' = stack, calls' = calls
  PROVE  AllTold(stack', calls')
  BY Told

LEMMA ToldEmpty ==
  ASSUME NEW cs, \A c \in 1..Len(cs) : RecordTold(cs[c])
  PROVE  AllTold(<<>>, cs)
  <1>1. Len(<<>>) = 0
    OBVIOUS
  <1> QED
    BY <1>1 DEF AllTold

\* The record of the call a frame belongs to.
LEMMA ToldRecord ==
  ASSUME NEW S, NEW s \in Seq(S), NEW cs \in Seq(CallRecord), Linked(s, cs),
         AllDisciplined(cs), AllTold(s, cs), s # <<>>, s[Len(s)].kind = "call"
  PROVE  /\ s[Len(s)].id \in 1..Len(cs)
         /\ cs[s[Len(s)].id] \in CallRecord
         /\ Tied(s[Len(s)], cs[s[Len(s)].id])
         /\ FrameTold(s[Len(s)], cs[s[Len(s)].id])
         /\ OwnRecords(s)
  <1>1. Len(s) \in Nat \ {0}
    BY EmptySeq
  <1>2. FrameTold(s[Len(s)], cs[s[Len(s)].id])
    BY <1>1 DEF AllTold
  <1> QED
    BY <1>2, RecordOf DEF Linked

LEMMA ToldKeepStep ==
  ASSUME FailureInv, stack # <<>>, NEW f, f.kind = Top.kind,
         f.kind = "call" => f.id = Top.id /\ f.outcome = Top.outcome,
         stack' = WithTop(f), calls' = calls
  PROVE  AllTold(stack', calls')
  <1>1. AllTold(WithTop(f), calls)
    BY Told, ToldKeep DEF WithTop, Top
  <1> QED
    BY <1>1

LEMMA ToldMoveStep ==
  ASSUME FailureInv, InBody, calls' = calls,
         \/ \E l : stack' = WithTop([Top EXCEPT !.pc = @ + 1, !.locals = l])
         \/ \E b : stack' = WithTop([Top EXCEPT !.block = b, !.pc = 1])
  PROVE  AllTold(stack', calls')
  <1>1. stack # <<>> /\ Top \in CallFrame
    BY InBodyOK DEF FailureInv, CleanupInv
  <1>2. CASE \E l : stack' = WithTop([Top EXCEPT !.pc = @ + 1, !.locals = l])
    <2>1. PICK l : stack' = WithTop([Top EXCEPT !.pc = @ + 1, !.locals = l])
      BY <1>2
    <2>2. PICK f : f = [Top EXCEPT !.pc = @ + 1, !.locals = l]
      OBVIOUS
    <2>3. f.kind = Top.kind /\ f.id = Top.id /\ f.outcome = Top.outcome
      BY <1>1, <2>2 DEF CallFrame
    <2> QED
      BY <1>1, <2>1, <2>2, <2>3, ToldKeepStep
  <1>3. CASE \E b : stack' = WithTop([Top EXCEPT !.block = b, !.pc = 1])
    <2>1. PICK b : stack' = WithTop([Top EXCEPT !.block = b, !.pc = 1])
      BY <1>3
    <2>2. PICK f : f = [Top EXCEPT !.block = b, !.pc = 1]
      OBVIOUS
    <2>3. f.kind = Top.kind /\ f.id = Top.id /\ f.outcome = Top.outcome
      BY <1>1, <2>2 DEF CallFrame
    <2> QED
      BY <1>1, <2>1, <2>2, <2>3, ToldKeepStep
  <1> QED
    BY <1>2, <1>3

\* What a new frame and its record start with.
LEMMA FreshCall ==
  ASSUME NEW fn, NEW v
  PROVE  /\ NewCall(fn, v).id = Len(calls) + 1 /\ NewCall(fn, v).outcome = Running
         /\ NewRecord(fn, v).failures = <<>> /\ NewRecord(fn, v).outcome = Running
  BY DEF NewCall, NewRecord

LEMMA ToldCallStep ==
  ASSUME FailureInv, NEW fn, NEW v,
         stack' = Append(stack, NewCall(fn, v)),
         calls' = Append(calls, NewRecord(fn, v))
  PROVE  AllTold(stack', calls')
  <1>1. AllTold(Append(stack, NewCall(fn, v)), Append(calls, NewRecord(fn, v)))
    BY Told, FreshCall, ToldPush
  <1> QED
    BY <1>1

LEMMA ToldDriverCalls ==
  ASSUME FailureInv, NEW fn, NEW v, NEW at, DriverCalls(fn, v, at)
  PROVE  AllTold(stack', calls')
  <1>1. <<>> \in Seq(Activation) /\ AllTold(<<>>, calls)
    BY Told, ToldEmpty, EmptySeq DEF AllTold
  <1>2. AllTold(Append(<<>>, NewCall(fn, v)), Append(calls, NewRecord(fn, v)))
    BY <1>1, Told, FreshCall, ToldPush
  <1>3. stack' = Append(<<>>, NewCall(fn, v)) /\ calls' = Append(calls, NewRecord(fn, v))
    BY DEF DriverCalls
  <1> QED
    BY <1>2, <1>3

LEMMA ToldInstanceStep ==
  ASSUME FailureInv, NEW t, stack' = Append(stack, NewInstance(t)), calls' = calls
  PROVE  AllTold(stack', calls')
  <1>1. NewInstance(t).kind # "call"
    BY DEF NewInstance
  <1>2. AllTold(Append(stack, NewInstance(t)), calls)
    BY <1>1, Told, ToldPushInstance
  <1> QED
    BY <1>2

\* A body ends: nothing has failed after it yet.
LEMMA ToldEnd ==
  ASSUME NEW S, NEW s \in Seq(S), NEW cs \in Seq(CallRecord), Linked(s, cs),
         AllDisciplined(cs), AllTold(s, cs), s # <<>>, s[Len(s)] \in CallFrame,
         s[Len(s)].outcome = Running, NEW o \in Outcome, o # Running
  PROVE  AllTold([s EXCEPT ![Len(s)] = [s[Len(s)] EXCEPT !.outcome = o]],
                 [cs EXCEPT ![s[Len(s)].id].body = o])
  <1>1. PICK top : top = s[Len(s)]
    OBVIOUS
  <1>2. PICK f : f = [top EXCEPT !.outcome = o]
    OBVIOUS
  <1>3. PICK r : r = [cs[top.id] EXCEPT !.body = o]
    OBVIOUS
  <1>4. f.kind = "call" /\ top.kind = "call" /\ f.id = top.id /\ f.outcome = o
    BY <1>1, <1>2 DEF CallFrame
  <1>5. /\ cs[top.id] \in CallRecord /\ Tied(top, cs[top.id])
        /\ FrameTold(top, cs[top.id]) /\ OwnRecords(s)
    BY <1>1, <1>4, ToldRecord
  <1>6. /\ r.failures = cs[top.id].failures /\ r.outcome = cs[top.id].outcome
        /\ r.body = o
    BY <1>3, <1>5 DEF CallRecord
  <1>7. cs[top.id].failures = <<>> /\ cs[top.id].outcome = Running
    BY <1>1, <1>5 DEF FrameTold, Tied
  <1>8. Reported(o, <<>>) = o
    BY ReportedNone
  <1>9. FrameTold(f, r) /\ RecordTold(r)
    BY <1>4, <1>6, <1>7, <1>8 DEF FrameTold, RecordTold
  <1>10. AllTold([s EXCEPT ![Len(s)] = f], [cs EXCEPT ![f.id] = r])
    BY <1>1, <1>4, <1>5, <1>9, ToldChange
  <1>11. [cs EXCEPT ![f.id] = r] = [cs EXCEPT ![top.id].body = o]
    BY <1>3, <1>4
  <1> QED
    BY <1>1, <1>2, <1>10, <1>11

LEMMA ToldEndStep ==
  ASSUME FailureInv, InBody, NEW o \in Outcome, o # Running, EndBody(o)
  PROVE  AllTold(stack', calls')
  <1>1. stack # <<>> /\ Top \in CallFrame /\ Top.outcome = Running
    BY InBodyOK DEF FailureInv, CleanupInv
  <1>2. /\ stack' = [stack EXCEPT ![Len(stack)] = [stack[Len(stack)] EXCEPT !.outcome = o]]
        /\ calls' = [calls EXCEPT ![stack[Len(stack)].id].body = o]
    BY DEF EndBody, WithTop, Top
  <1>3. AllDisciplined(calls)
    BY Told, Sequences
  <1>4. AllTold([stack EXCEPT ![Len(stack)] = [stack[Len(stack)] EXCEPT !.outcome = o]],
                [calls EXCEPT ![stack[Len(stack)].id].body = o])
    BY <1>1, <1>3, Told, ToldEnd DEF Top
  <1> QED
    BY <1>2, <1>4

LEMMA ToldDefer == ASSUME FailureInv, ExecDefer PROVE AllTold(stack', calls')
  <1>1. PICK c : /\ stack' = WithTop([Top EXCEPT !.pc = @ + 1, !.defers = Append(@, c)])
                 /\ calls' = [calls EXCEPT ![Top.id].registered = Append(@, c)]
    BY DEF ExecDefer
  <1>2. stack # <<>> /\ Top \in CallFrame
    BY InBodyOK DEF FailureInv, CleanupInv, ExecDefer, AtStatement
  <1>3. PICK old : old = calls[Top.id]
    OBVIOUS
  <1>4. PICK f : f = [Top EXCEPT !.pc = @ + 1, !.defers = Append(@, c)]
    OBVIOUS
  <1>5. PICK r : r = [old EXCEPT !.registered = Append(@, c)]
    OBVIOUS
  <1>6. f.kind = "call" /\ Top.kind = "call" /\ f.id = Top.id /\ f.outcome = Top.outcome
    BY <1>2, <1>4 DEF CallFrame
  <1>7. old \in CallRecord /\ Tied(Top, old) /\ FrameTold(Top, old)
    BY <1>2, <1>3, <1>6, Told, Sequences, ToldRecord DEF Top
  <1>8. r.failures = old.failures /\ r.outcome = old.outcome /\ r.body = old.body
    BY <1>5, <1>7 DEF CallRecord
  <1>9. FrameTold(f, r) /\ RecordTold(r)
    BY <1>6, <1>7, <1>8 DEF FrameTold, RecordTold, Tied
  <1>10. AllTold([stack EXCEPT ![Len(stack)] = f], [calls EXCEPT ![f.id] = r])
    BY <1>2, <1>6, <1>9, Told, ToldChange DEF Top
  <1>11. stack' = [stack EXCEPT ![Len(stack)] = f] /\ calls' = [calls EXCEPT ![f.id] = r]
    BY <1>1, <1>3, <1>4, <1>5, <1>6 DEF WithTop
  <1> QED
    BY <1>10, <1>11

LEMMA ToldCleanup == ASSUME FailureInv, RunCleanup PROVE AllTold(stack', calls')
  <1>1. stack # <<>> /\ Top \in CallFrame
    BY InnermostNonempty, TopOK, CallOrInstance
    DEF FailureInv, CleanupInv, RunCleanup, Unwinding, CallFrame
  <1>2. PICK c : c = LastDefer(Top.defers)
    OBVIOUS
  <1>3. PICK f : f = [Top EXCEPT !.defers = SubSeq(Top.defers, 1, Len(Top.defers) - 1)]
    OBVIOUS
  <1>4. PICK old : old = calls[Top.id]
    OBVIOUS
  <1>5. PICK r : r = [old EXCEPT !.attempted = Append(@, c)]
    OBVIOUS
  <1>6. f.kind = "call" /\ Top.kind = "call" /\ f.id = Top.id /\ f.outcome = Top.outcome
    BY <1>1, <1>3 DEF CallFrame
  <1>7. old \in CallRecord /\ Tied(Top, old) /\ FrameTold(Top, old)
    BY <1>1, <1>4, <1>6, Told, Sequences, ToldRecord DEF Top
  <1>8. r.failures = old.failures /\ r.outcome = old.outcome /\ r.body = old.body
    BY <1>5, <1>7 DEF CallRecord
  <1>9. FrameTold(f, r) /\ RecordTold(r)
    BY <1>6, <1>7, <1>8 DEF FrameTold, RecordTold, Tied
  <1>10. PICK t : t = [stack EXCEPT ![Len(stack)] = f]
    OBVIOUS
  <1>11. PICK ds : ds = [calls EXCEPT ![f.id] = r]
    OBVIOUS
  <1>12. AllTold(t, ds)
    BY <1>1, <1>6, <1>9, <1>10, <1>11, Told, ToldChange DEF Top
  <1>13. t \in Seq(Activation \cup {f})
    BY <1>10, Told, StoredSeq
  <1>14. ds \in Seq(CallRecord \cup {r}) /\ Len(ds) = Len(calls)
    <2>1. calls \in Seq(CallRecord)
      BY Told
    <2>2. ds \in Seq(CallRecord \cup {r})
      BY <1>11, <2>1, StoredSeq
    <2>3. Len(ds) = Len(calls)
      BY <1>11, <2>1, StoredSeq
    <2> QED
      BY <2>2, <2>3
  <1>15. AllTold(Append(t, NewCall(c.fn, c.arg)), Append(ds, NewRecord(c.fn, c.arg)))
    BY <1>12, <1>13, <1>14, FreshCall, ToldPush
  <1>16. stack' = Append(t, NewCall(c.fn, c.arg)) /\ calls' = Append(ds, NewRecord(c.fn, c.arg))
    BY <1>2, <1>3, <1>4, <1>5, <1>6, <1>10, <1>11 DEF RunCleanup, WithTop
  <1> QED
    BY <1>15, <1>16

\* The innermost activation has ended and leaves.
LEMMA ToldPopStep ==
  ASSUME FailureInv, Ended
  PROVE  /\ Popped \in Seq(Activation) /\ Settled \in Seq(CallRecord)
         /\ Linked(Popped, Settled) /\ AllDisciplined(Settled) /\ AllTold(Popped, Settled)
         /\ Len(stack) > 1 =>
              /\ Popped # <<>> /\ Len(Popped) = Len(stack) - 1
              /\ Popped[Len(Popped)] = Caller
  <1>1. /\ stack # <<>>
        /\ Top.kind = "call" => Top.outcome # Running
    BY EndedOK, InnermostNonempty DEF FailureInv, CleanupInv, Ended, Unwinding, Innermost
  <1>2. AllTold(Popped, Settled)
    BY <1>1, Told, ToldPop DEF Popped, Settled, Top
  <1> QED
    BY <1>2, Told, PopStep

LEMMA ToldReturnValue == ASSUME FailureInv, ReturnValue PROVE AllTold(stack', calls')
  <1>1. PICK l : /\ stack' = WithCaller([Caller EXCEPT !.pc = @ + 1, !.locals = l])
                 /\ calls' = Settled
    BY DEF ReturnValue
  <1>2. Ended /\ Len(stack) > 1 /\ Caller.kind = "call"
    BY DEF ReturnValue
  <1>3. Caller \in CallFrame
    BY <1>2, CallerOK, CallOrInstance DEF FailureInv, CleanupInv
  <1>4. PICK f : f = [Caller EXCEPT !.pc = @ + 1, !.locals = l]
    OBVIOUS
  <1>5. f.kind = Caller.kind /\ f.id = Caller.id /\ f.outcome = Caller.outcome
    BY <1>3, <1>4 DEF CallFrame
  <1>6. AllTold([Popped EXCEPT ![Len(Popped)] = f], Settled)
    BY <1>2, <1>5, ToldPopStep, ToldKeep
  <1>7. stack' = [Popped EXCEPT ![Len(Popped)] = f]
    BY <1>1, <1>2, <1>4, ToldPopStep DEF WithCaller
  <1> QED
    BY <1>1, <1>6, <1>7

LEMMA ToldPropagate == ASSUME FailureInv, PropagateError PROVE AllTold(stack', calls')
  <1>1. Ended /\ Len(stack) > 1 /\ Caller.kind = "call" /\ Caller.outcome = Running
    BY DEF PropagateError
  <1>2. Caller \in CallFrame /\ Top.outcome \in Outcome /\ Top.outcome # Running
    BY <1>1, CallerOK, CallOrInstance, EndedOK DEF FailureInv, CleanupInv
  <1>3. PICK s : s = Popped
    OBVIOUS
  <1>4. PICK cs : cs = Settled
    OBVIOUS
  <1>5. /\ s \in Seq(Activation) /\ cs \in Seq(CallRecord) /\ Linked(s, cs) /\ AllDisciplined(cs)
        /\ AllTold(s, cs) /\ s # <<>> /\ Len(s) = Len(stack) - 1 /\ s[Len(s)] = Caller
    BY <1>1, <1>3, <1>4, ToldPopStep
  <1>6. PICK o : o = Top.outcome
    OBVIOUS
  <1>7. AllTold([s EXCEPT ![Len(s)] = [s[Len(s)] EXCEPT !.outcome = o]],
                [cs EXCEPT ![s[Len(s)].id].body = o])
    BY <1>1, <1>2, <1>5, <1>6, ToldEnd
  <1>8. /\ stack' = [s EXCEPT ![Len(s)] = [s[Len(s)] EXCEPT !.outcome = o]]
        /\ calls' = [cs EXCEPT ![s[Len(s)].id].body = o]
    BY <1>3, <1>4, <1>5, <1>6 DEF PropagateError, WithCaller
  <1> QED
    BY <1>7, <1>8

LEMMA ToldReturnToCleanup == ASSUME FailureInv, ReturnToCleanup PROVE AllTold(stack', calls')
  <1>1. Ended /\ Len(stack) > 1 /\ Caller.kind = "call" /\ Caller.outcome # Running
    BY DEF ReturnToCleanup
  <1>2. Caller \in CallFrame
    BY <1>1, CallerOK, CallOrInstance DEF FailureInv, CleanupInv
  <1>3. PICK s : s = Popped
    OBVIOUS
  <1>4. PICK cs : cs = Settled
    OBVIOUS
  <1>5. /\ s \in Seq(Activation) /\ cs \in Seq(CallRecord) /\ Linked(s, cs) /\ AllDisciplined(cs)
        /\ AllTold(s, cs) /\ s # <<>> /\ Len(s) = Len(stack) - 1 /\ s[Len(s)] = Caller
    BY <1>1, <1>3, <1>4, ToldPopStep
  <1>6. CASE Top.outcome.tag = "ok"
    BY <1>3, <1>4, <1>5, <1>6 DEF ReturnToCleanup
  <1>7. CASE Top.outcome.tag # "ok"
    <2>1. PICK d \in Diagnostic : d = Top.outcome.diag
      BY <1>1, <1>7, EndedOK DEF FailureInv, CleanupInv
    <2>2. PICK f : f = [Caller EXCEPT !.outcome = ReportFailure(@, d)]
      OBVIOUS
    <2>3. PICK old : old = cs[Caller.id]
      OBVIOUS
    <2>4. PICK r : r = [old EXCEPT !.failures = Append(@, d)]
      OBVIOUS
    <2>5. ReportFailure(Caller.outcome, d) # Running
      BY DEF ReportFailure, Err, Running
    <2>6. /\ f.kind = "call" /\ f.id = Caller.id /\ f.outcome # Running
          /\ f.outcome = ReportFailure(Caller.outcome, d)
      BY <1>2, <2>2, <2>5 DEF CallFrame
    <2>7. old \in CallRecord /\ Tied(Caller, old) /\ FrameTold(Caller, old) /\ OwnRecords(s)
      BY <1>1, <1>5, <2>3, ToldRecord
    <2>8. /\ r.failures = Append(old.failures, d)
          /\ r.body = old.body /\ r.outcome = old.outcome
      BY <2>4, <2>7 DEF CallRecord
    <2>9. old.body \in Outcome /\ old.body # Running /\ old.failures \in Seq(Diagnostic)
      BY <1>1, <2>7 DEF Tied, CallRecord
    <2>10. f.outcome = Reported(r.body, r.failures)
      <3>1. Caller.outcome = Reported(old.body, old.failures)
        BY <1>1, <2>7 DEF FrameTold
      <3>2. Reported(old.body, Append(old.failures, d)) = ReportFailure(Reported(old.body, old.failures), d)
        BY <2>9, ReportedMore
      <3> QED
        BY <2>6, <2>8, <3>1, <3>2
    <2>11. FrameTold(f, r) /\ RecordTold(r)
      BY <2>6, <2>7, <2>8, <2>10 DEF FrameTold, RecordTold, Tied
    <2>12. AllTold([s EXCEPT ![Len(s)] = f], [cs EXCEPT ![f.id] = r])
      BY <1>1, <1>5, <2>6, <2>7, <2>11, ToldChange
    <2>13. stack' = [s EXCEPT ![Len(s)] = f]
      BY <1>3, <1>5, <1>7, <2>1, <2>2 DEF ReturnToCleanup, WithCaller
    <2>14. calls' = [cs EXCEPT ![f.id] = r]
      BY <1>4, <1>7, <2>1, <2>3, <2>4, <2>6 DEF ReturnToCleanup
    <2> QED
      BY <2>12, <2>13, <2>14
  <1> QED
    BY <1>6, <1>7

LEMMA ToldReturnToInstance == ASSUME FailureInv, ReturnToInstance PROVE AllTold(stack', calls')
  <1>1. Ended /\ Len(stack) > 1 /\ Caller.kind = "instance" /\ calls' = Settled
    BY DEF ReturnToInstance
  <1>2. Caller \in InstanceFrame
    BY <1>1, CallerOK, CallOrInstance DEF FailureInv, CleanupInv
  <1>3. PICK f : f = [Caller EXCEPT !.outcome = Top.outcome]
    OBVIOUS
  <1>4. f.kind = Caller.kind /\ f.kind # "call"
    BY <1>2, <1>3 DEF InstanceFrame
  <1>5. AllTold([Popped EXCEPT ![Len(Popped)] = f], Settled)
    BY <1>1, <1>4, ToldPopStep, ToldKeep
  <1>6. stack' \in {Popped, [Popped EXCEPT ![Len(Popped)] = f]}
    BY <1>1, <1>3, ToldPopStep DEF ReturnToInstance, WithCaller
  <1> QED
    BY <1>1, <1>5, <1>6, ToldPopStep

LEMMA ToldInitialise ==
  ASSUME FailureInv, stack # <<>>, Top \in InstanceFrame, NEW g, NEW st, Initialise(g, st)
  PROVE  AllTold(stack', calls')
  <1>1. PICK f : f = [Top EXCEPT !.stage = st]
    OBVIOUS
  <1>2. f.kind = Top.kind /\ f.kind # "call"
    BY <1>1 DEF InstanceFrame
  <1>3. CASE g = NoFunction
    <2>1. stack' = WithTop(f) /\ calls' = calls
      BY <1>1, <1>3 DEF Initialise
    <2> QED
      BY <1>2, <2>1, ToldKeepStep
  <1>4. CASE g # NoFunction
    <2>1. PICK v : /\ stack' = Append(WithTop(f), NewCall(g, v))
                   /\ calls' = Append(calls, NewRecord(g, v))
      BY <1>1, <1>4 DEF Initialise
    <2>2. PICK t : t = [stack EXCEPT ![Len(stack)] = f]
      OBVIOUS
    <2>3. AllTold(t, calls)
      BY <1>2, <2>2, Told, ToldKeep DEF Top
    <2>4. t \in Seq(Activation \cup {f})
      BY <2>2, Told, StoredSeq
    <2>5. AllTold(Append(t, NewCall(g, v)), Append(calls, NewRecord(g, v)))
      BY <2>3, <2>4, Told, FreshCall, ToldPush
    <2> QED
      BY <2>1, <2>2, <2>5 DEF WithTop
  <1> QED
    BY <1>3, <1>4

LEMMA ToldInstance == ASSUME FailureInv, InstanceStep PROVE AllTold(stack', calls')
  <1>1. CASE ReadSingleton
    <2>1. \E l : stack' = WithTop([Top EXCEPT !.pc = @ + 1, !.locals = l])
      BY <1>1 DEF ReadSingleton
    <2>2. InBody /\ calls' = calls
      BY <1>1 DEF ReadSingleton, AtStatement
    <2> QED
      BY <2>1, <2>2, ToldMoveStep
  <1>2. CASE ExecInstance
    BY <1>2, ToldInstanceStep DEF ExecInstance, Allocate
  <1>3. CASE RunFieldInit
    BY <1>3, BuildingOK, ToldInitialise DEF RunFieldInit, FailureInv, CleanupInv
  <1>4. CASE RunNew
    BY <1>4, BuildingOK, ToldInitialise DEF RunNew, FailureInv, CleanupInv
  <1>5. CASE Publish
    <2>1. stack # <<>> /\ Top \in InstanceFrame
      BY <1>5, BuildingOK DEF Publish, FailureInv, CleanupInv
    <2>2. PICK f : f = [Top EXCEPT !.outcome = Ok(ObjectRef(Top.inst))]
      OBVIOUS
    <2>3. f.kind = Top.kind /\ f.kind # "call"
      BY <2>1, <2>2 DEF InstanceFrame
    <2>4. stack' = WithTop(f) /\ calls' = calls
      BY <1>5, <2>2 DEF Publish
    <2> QED
      BY <2>1, <2>3, <2>4, ToldKeepStep
  <1> QED
    BY <1>1, <1>2, <1>3, <1>4, <1>5 DEF InstanceStep

LEMMA RaisedIsError ==
  ASSUME IInv, InBody PROVE Err(Raised(HereIn(Top))) \in Outcome \ {Running}
  <1>1. HereIn(Top) \in Site
    BY InBodyOK, CodeOK
  <1>2. Raised(HereIn(Top)) \in Diagnostic
    BY <1>1, EmptySeq DEF Raised, Diagnostic
  <1> QED
    BY <1>2 DEF Err, Outcome, Running

LEMMA ReturnedIsValue ==
  ASSUME IInv, Return PROVE Ok(Read(Top, CurrentBlock(Top).term.arg)) \in Outcome \ {Running}
  <1>1. InBody /\ CurrentBlock(Top).term \in Terminator /\ CurrentBlock(Top).term.op = "return"
    BY InBodyOK, CodeOK DEF Return, AtTerminator
  <1>2. CurrentBlock(Top).term.arg \in Operand
    BY <1>1 DEF Terminator
  <1>3. Read(Top, CurrentBlock(Top).term.arg) \in Value
    BY <1>1, <1>2, InBodyOK, ReadOK
  <1> QED
    BY <1>3 DEF Ok, Outcome, Running

LEMMA ToldBody == ASSUME FailureInv, BodyStep PROVE AllTold(stack', calls')
  <1>1. CASE ExecUse
    <2>1. \E l : stack' = WithTop([Top EXCEPT !.pc = @ + 1, !.locals = l])
      BY <1>1 DEF ExecUse
    <2>2. InBody /\ calls' = calls
      BY <1>1 DEF ExecUse, AtStatement
    <2> QED
      BY <2>1, <2>2, ToldMoveStep
  <1>2. CASE ExecCall
    BY <1>2, ToldCallStep DEF ExecCall
  <1>3. CASE ExecFail \/ EnterUnreachable
    <2>1. InBody /\ EndBody(Err(Raised(HereIn(Top))))
      BY <1>3 DEF ExecFail, EnterUnreachable, AtStatement, AtTerminator
    <2>2. Err(Raised(HereIn(Top))) \in Outcome /\ Err(Raised(HereIn(Top))) # Running
      BY <2>1, RaisedIsError DEF FailureInv, CleanupInv
    <2> QED
      BY <2>1, <2>2, ToldEndStep
  <1>4. CASE Return
    <2>1. InBody /\ EndBody(Ok(Read(Top, CurrentBlock(Top).term.arg)))
      BY <1>4 DEF Return, AtTerminator
    <2>2. /\ Ok(Read(Top, CurrentBlock(Top).term.arg)) \in Outcome
          /\ Ok(Read(Top, CurrentBlock(Top).term.arg)) # Running
      BY <1>4, ReturnedIsValue DEF FailureInv, CleanupInv
    <2> QED
      BY <2>1, <2>2, ToldEndStep
  <1>5. CASE Goto \/ Switch
    <2>1. InBody /\ calls' = calls
      BY <1>5 DEF Goto, Switch, AtTerminator, JumpTo
    <2>2. \E b : stack' = WithTop([Top EXCEPT !.block = b, !.pc = 1])
      BY <1>5 DEF Goto, Switch, JumpTo
    <2> QED
      BY <2>1, <2>2, ToldMoveStep
  <1> QED
    BY <1>1, <1>2, <1>3, <1>4, <1>5, ToldDefer DEF BodyStep

\* The last activation reports to the driver.
LEMMA ToldReport ==
  ASSUME FailureInv, NEW at, Reports(at), stack' = <<>>, calls' = Settled
  PROVE  AllTold(stack', calls')
  <1>1. AllTold(Popped, Settled)
    BY ToldPopStep DEF Reports
  <1>2. AllTold(<<>>, Settled)
    BY <1>1, ToldEmpty DEF AllTold
  <1> QED
    BY <1>2

LEMMA ToldDriver == ASSUME FailureInv, DriverStep PROVE AllTold(stack', calls')
  <1>1. CASE InitGlobals
    BY <1>1, ToldSame, ToldDriverCalls DEF InitGlobals
  <1>2. CASE GlobalsDone
    BY <1>2, ToldReport DEF GlobalsDone
  <1>3. CASE CallEntry
    BY <1>3, ToldDriverCalls DEF CallEntry
  <1>4. CASE EntryDone
    BY <1>4, ToldReport DEF EntryDone
  <1>5. CASE NoSpecs \/ AllSpecsRun
    BY <1>5, ToldSame DEF NoSpecs, AllSpecsRun
  <1>6. CASE StartSpec
    BY <1>6, ToldDriverCalls DEF StartSpec
  <1>7. CASE CreateReceiver
    BY <1>7, ToldInstanceStep DEF CreateReceiver, Allocate
  <1>8. CASE ReceiverReady
    BY <1>8, ToldDriverCalls DEF ReceiverReady
  <1>9. CASE SpecDone
    <2>1. PICK at : Reports(at)
      BY <1>9 DEF SpecDone
    <2> QED
      BY <1>9, <2>1, ToldReport DEF SpecDone
  <1> QED
    BY <1>1, <1>2, <1>3, <1>4, <1>5, <1>6, <1>7, <1>8, <1>9 DEF DriverStep

-----------------------------------------------------------------------------
LEMMA FailureInit == Init => FailureInv
  <1> SUFFICES ASSUME Init PROVE FailureInv
    OBVIOUS
  <1>1. Len(<<>>) = 0
    OBVIOUS
  <1>2. AllTold(stack, calls)
    BY <1>1 DEF Init, AllTold
  <1> QED
    BY <1>2, CleanupInit DEF FailureInv

LEMMA FailureNext == FailureInv /\ [Next]_vars => FailureInv'
  <1> SUFFICES ASSUME FailureInv, [Next]_vars PROVE AllTold(stack', calls')
    BY CleanupNext DEF FailureInv
  <1>1. CASE BodyStep
    BY <1>1, ToldBody
  <1>2. CASE InstanceStep
    BY <1>2, ToldInstance
  <1>3. CASE ReturnStep
    BY <1>3, ToldCleanup, ToldReturnValue, ToldPropagate, ToldReturnToCleanup,
       ToldReturnToInstance
    DEF ReturnStep
  <1>4. CASE DriverStep
    BY <1>4, ToldDriver
  <1>5. CASE Overflow
    <2>1. AllTold(<<>>, calls)
      BY Told, ToldEmpty DEF AllTold
    <2> QED
      BY <1>5, <2>1 DEF Overflow
  <1>6. CASE UNCHANGED vars
    BY <1>6, ToldSame DEF vars
  <1> QED
    BY <1>1, <1>2, <1>3, <1>4, <1>5, <1>6 DEF Next

LEMMA FailureEnough == FailureInv => EveryFailureReported
  <1> SUFFICES ASSUME FailureInv PROVE EveryFailureReported
    OBVIOUS
  <1>1. DOMAIN calls = 1..Len(calls)
    BY Told, LenProperties
  <1> QED
    BY <1>1, Told DEF AllTold, RecordTold, EveryFailureReported, Finished

\* Whatever lowered program the interpreter runs, however cleanup nests and
\* whichever of it fails, finish_callable_exit and attach_cleanup_failure give
\* every call exactly the report its history calls for: the outcome of the body,
\* and every failed cleanup in the order they ran with all its own notes.
THEOREM FailuresAlwaysReported == Spec => []EveryFailureReported
  BY FailureInit, FailureNext, FailureEnough, PTL DEF Spec
=============================================================================
