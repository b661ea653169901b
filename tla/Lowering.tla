------------------------------ MODULE Lowering ------------------------------
(***************************************************************************)
(* How the lowering pass turns the structured statements of a callable     *)
(* body into basic blocks (rust/crates/lume/src/lower.rs).                 *)
(*                                                                         *)
(* A body is a sequence of core nodes, records told apart by their field   *)
(* k.  The data of the pass (types, narrowing, scopes, the destructuring   *)
(* of patterns) is left out: a pattern is a question about its scrutinee,  *)
(* and one variable x stands for the locals that statements assign and     *)
(* patterns bind.                                                          *)
(***************************************************************************)
EXTENDS Naturals, Sequences, SequencesExt

Const(v) == [k |-> "const", value |-> v]
Local(n) == [k |-> "local", local |-> n]
UnitValue == Const("unit")
X == Local(1)

GotoBlock(b) == [k |-> "goto", to |-> b]
Branch(c, t, e) == [k |-> "branch", condition |-> c, then |-> t, else |-> e]
ReturnWith(v) == [k |-> "return", value |-> v]
Unreachable == [k |-> "unreachable"]

-----------------------------------------------------------------------------
(* The state of a FunctionLowerer: the block being filled (0 when the last *)
(* one was terminated), the blocks, the number of locals, and the targets  *)
(* of break and continue, innermost last.                                  *)

AtBlock(L, b) == [L EXCEPT !.cur = b]

NewBlock == [code |-> <<>>, term |-> Unreachable]

AddBlocks(L, n) == [L EXCEPT !.blocks = @ \o [i \in 1 .. n |-> NewBlock]]

Entry == [cur |-> 1, blocks |-> <<NewBlock>>, locals |-> 1, exits |-> <<>>, continues |-> <<>>]

Newest(L) == Len(L.blocks)

\* push_statement: a statement is dropped when no block is being filled.
Push(L, s) ==
  IF L.cur = 0 THEN L ELSE [L EXCEPT !.blocks[L.cur].code = Append(@, s)]

Terminate(L, t) ==
  IF L.cur = 0 THEN L
  ELSE [L EXCEPT !.blocks[L.cur].term = t, !.cur = 0]

HasPredecessor(L, b) ==
  \E i \in DOMAIN L.blocks :
    LET t == L.blocks[i].term
    IN  \/ t.k = "goto" /\ t.to = b
        \/ t.k = "branch" /\ b \in {t.then, t.else}

\* Code after a join is lowered only if some branch reaches the join.
Join(L, b) == AtBlock(L, IF HasPredecessor(L, b) THEN b ELSE 0)

\* What lowering an expression gives: the lowerer and the operand to read.
Lowered(L, v) == [l |-> L, v |-> v]

Assign(L, n, v) == Push(L, [op |-> "use", target |-> n, args |-> <<v>>])

Temp(L) == [L EXCEPT !.locals = @ + 1]

\* emit_temp_from_rvalue
Emit(L, op, id, args) ==
  LET n == L.locals + 1
  IN  Lowered(Push(Temp(L), [op |-> op, id |-> id, target |-> n, args |-> args]), Local(n))

\* A loop body is lowered with its exit and its continue target innermost.
InLoop(L, exit, continue) ==
  [L EXCEPT !.exits = Append(@, exit), !.continues = Append(@, continue)]

OutOfLoop(L) ==
  [L EXCEPT !.exits = Front(@), !.continues = Front(@)]

-----------------------------------------------------------------------------
(* Expressions.  LowerValue lowers a block for its value, LowerStatements  *)
(* for its effects; an operand NoValue stands for "no value".              *)

NoValue == [k |-> "none"]

OrUnit(v) == IF v = NoValue THEN UnitValue ELSE v

\* Mutant of AssignIfAny: the value of a branch is dropped.
ValueDropped(r, n) == r.l

AssignIfAny(r, n) == IF r.v = NoValue THEN r.l ELSE Assign(r.l, n, r.v)

\* Binds the payload of a lifted value to x.
Bind(L, v) == LET payload == Emit(L, "extract", "", <<v>>) IN Assign(payload.l, 1, payload.v)

RECURSIVE LowerExpr(_, _), LowerArgs(_, _), LowerClauses(_, _, _, _), LowerIfTail(_, _),
          LowerMatchExpr(_, _), LowerValue(_, _), LowerStatements(_, _), LowerStmt(_, _),
          LowerCases(_, _, _, _, _, _), LowerIf(_, _), LowerFor(_, _, _)

\* The operands of a call, lowered from left to right.
LowerArgs(L, args) ==
  IF args = <<>> THEN Lowered(L, <<>>)
  ELSE LET first == LowerExpr(L, Head(args))
           rest == LowerArgs(first.l, Tail(args))
       IN  Lowered(rest.l, <<first.v>> \o rest.v)

LowerCall(L, e) == LET a == LowerArgs(L, e.args) IN Emit(a.l, "call", e.id, a.v)

LowerLogical(L, e) ==
  LET temp == L.locals + 1
      right == Newest(L) + 1
      short == right + 1
      join == right + 2
      left == LowerExpr(AddBlocks(Temp(L), 3), e.left)
      L1 == Terminate(left.l, IF e.op = "and" THEN Branch(left.v, right, short)
                                              ELSE Branch(left.v, short, right))
      L2 == Terminate(Assign(AtBlock(L1, short), temp, Const(IF e.op = "and" THEN "false" ELSE "true")),
                      GotoBlock(join))
      value == LowerExpr(AtBlock(L2, right), e.right)
      L3 == Terminate(Assign(value.l, temp, value.v), GotoBlock(join))
  IN  Lowered(Join(L3, join), Local(temp))

\* The common part of try and ??: the value is kept in a temporary, its
\* payload becomes the result on the success side, which goes to the join;
\* the failure side is left to fill.
LowerLifted(L, e) ==
  LET value == LowerExpr(L, e.value)
      source == value.l.locals + 1
      success == Newest(value.l) + 1
      kept == source + 1
      L1 == AddBlocks(Temp(Temp(Assign(value.l, source, value.v))), 3)
      present == Emit(L1, "present", "", <<Local(source)>>)
      L2 == Terminate(present.l, Branch(present.v, success, success + 1))
      payload == Emit(AtBlock(L2, success), "extract", "", <<Local(source)>>)
      L3 == Terminate(Assign(payload.l, kept, payload.v), GotoBlock(success + 2))
  IN  [l |-> AtBlock(L3, success + 1), source |-> Local(source), result |-> kept,
       join |-> success + 2]

LowerTry(L, e) ==
  LET s == LowerLifted(L, e)
  IN  Lowered(Join(Terminate(s.l, ReturnWith(s.source)), s.join), Local(s.result))

LowerExtractOr(L, e) ==
  LET s == LowerLifted(L, e)
      fallback == LowerExpr(s.l, e.fallback)
      L1 == Terminate(Assign(fallback.l, s.result, fallback.v), GotoBlock(s.join))
  IN  Lowered(Join(L1, s.join), Local(s.result))

LowerReturn(L, e) ==
  LET value == LowerExpr(L, e.value) IN Lowered(Terminate(value.l, ReturnWith(value.v)), UnitValue)

\* Mutants of LowerBreak: the outermost loop is left; the block jumps to itself.
BreakOutermost(L) == Lowered(Terminate(L, GotoBlock(Head(L.exits))), UnitValue)
BreakToOwnBlock(L) == Lowered(Terminate(L, GotoBlock(L.cur)), UnitValue)

LowerBreak(L) == Lowered(Terminate(L, GotoBlock(Last(L.exits))), UnitValue)

LowerContinue(L) == Lowered(Terminate(L, GotoBlock(Last(L.continues))), UnitValue)

LowerBlockExpr(L, e) == LET r == LowerValue(L, e.body) IN Lowered(r.l, OrUnit(r.v))

LowerYield(L, e) == Lowered(LowerFor(L, e.bindings, e), Const("list"))

\* An expression met after the block was terminated is not lowered.
LowerExpr(L, e) ==
  IF L.cur = 0 THEN Lowered(L, UnitValue) ELSE
  CASE e.k = "unit"      -> Lowered(L, UnitValue)
    [] e.k = "var"       -> Lowered(L, X)
    [] e.k = "call"      -> LowerCall(L, e)
    [] e.k = "logical"   -> LowerLogical(L, e)
    [] e.k = "try"       -> LowerTry(L, e)
    [] e.k = "extractOr" -> LowerExtractOr(L, e)
    [] e.k = "return"    -> LowerReturn(L, e)
    [] e.k = "break"     -> LowerBreak(L)
    [] e.k = "continue"  -> LowerContinue(L)
    [] e.k = "block"     -> LowerBlockExpr(L, e)
    [] e.k = "if"        -> LowerIfTail(L, e)
    [] e.k = "match"     -> LowerMatchExpr(L, e)
    [] e.k = "yield"     -> LowerYield(L, e)

\* Each clause branches to the next one or to the failure target; a let
\* clause binds its payload on the way.
LowerClauses(L, clauses, success, failure) ==
  LET clause == Head(clauses)
      last == Len(clauses) = 1
      L1 == IF last THEN L ELSE AddBlocks(L, 1)
      next == IF last THEN success ELSE Newest(L1)
      value == LowerExpr(L1, clause.value)
      test == IF clause.k = "let" THEN Emit(value.l, "present", "", <<value.v>>) ELSE value
      L2 == AtBlock(Terminate(test.l, Branch(test.v, next, failure)), next)
      L3 == IF clause.k = "let" THEN Bind(L2, value.v) ELSE L2
  IN  IF last THEN L3 ELSE LowerClauses(L3, Tail(clauses), success, failure)

\* An if whose value is wanted.  Without an else it has none, and nothing is
\* lowered.
LowerIfTail(L, e) ==
  IF e.else.k = "none" THEN Lowered(L, NoValue)
  ELSE LET temp == L.locals + 1
           then == Newest(L) + 1
           else == then + 1
           join == then + 2
           L1 == LowerClauses(AddBlocks(Temp(L), 3), e.clauses, then, else)
           L2 == Terminate(AssignIfAny(LowerValue(AtBlock(L1, then), e.then), temp), GotoBlock(join))
           other == IF e.else.k = "if" THEN LowerIfTail(AtBlock(L2, else), e.else)
                                       ELSE LowerValue(AtBlock(L2, else), e.else.body)
           L3 == Terminate(AssignIfAny(other, temp), GotoBlock(join))
       IN  Lowered(Join(L3, join), Local(temp))

-----------------------------------------------------------------------------
(* Statements.                                                             *)

\* An if whose value is not wanted.
LowerIf(L, s) ==
  LET then == Newest(L) + 1
      else == then + 1
      join == then + 2
      L1 == LowerClauses(AddBlocks(L, 3), s.clauses, then, else)
      L2 == AtBlock(Terminate(LowerStatements(AtBlock(L1, then), s.then), GotoBlock(join)), else)
      L3 == CASE s.else.k = "none"  -> L2
              [] s.else.k = "if"    -> LowerIf(L2, s.else)
              [] s.else.k = "block" -> LowerStatements(L2, s.else.body)
  IN  Join(Terminate(L3, GotoBlock(join)), join)

LowerWhile(L, s) ==
  LET cond == Newest(L) + 1
      loop == cond + 1
      exit == cond + 2
      L1 == AtBlock(Terminate(AddBlocks(L, 3), GotoBlock(cond)), cond)
      L2 == LowerClauses(L1, s.clauses, loop, exit)
      L3 == LowerStatements(AtBlock(InLoop(L2, exit, cond), loop), s.body)
  IN  AtBlock(OutOfLoop(Terminate(L3, GotoBlock(cond))), exit)

\* What a for does for each combination of its bindings: its body, or the
\* list it yields gets the body's value.
LowerForBody(L, s) ==
  IF s.k = "for" THEN LowerStatements(L, s.body)
  ELSE LET r == LowerValue(L, s.body) IN Emit(r.l, "call", "append", <<OrUnit(r.v)>>).l

\* A for without bindings repeats until it is left.
LowerForever(L, s) ==
  LET loop == Newest(L) + 1
      exit == loop + 1
      L1 == InLoop(AtBlock(Terminate(AddBlocks(L, 2), GotoBlock(loop)), loop), exit, loop)
  IN  AtBlock(OutOfLoop(Terminate(LowerForBody(L1, s), GotoBlock(loop))), exit)

\* Each generator is a loop of its own around the bindings after it.
LowerGenerator(L, g, bindings, s) ==
  LET source == LowerExpr(L, g.value)
      cursor == Emit(source.l, "use", "", <<source.v>>)
      cond == Newest(cursor.l) + 1
      loop == cond + 1
      exit == cond + 2
      L1 == AtBlock(Terminate(AddBlocks(cursor.l, 3), GotoBlock(cond)), cond)
      hasNext == Emit(L1, "call", g.next, <<cursor.v>>)
      L2 == InLoop(Terminate(hasNext.l, Branch(hasNext.v, loop, exit)), exit, cond)
      L3 == LowerFor(Bind(AtBlock(L2, loop), cursor.v), bindings, s)
  IN  AtBlock(OutOfLoop(Terminate(L3, GotoBlock(cond))), exit)

LowerFor(L, bindings, s) ==
  IF s.bindings = <<>> THEN LowerForever(L, s)
  ELSE IF bindings = <<>> THEN LowerForBody(L, s)
  ELSE IF Head(bindings).k = "bind"
       THEN LET r == LowerExpr(L, Head(bindings).value)
            IN  LowerFor(Assign(r.l, 1, r.v), Tail(bindings), s)
       ELSE LowerGenerator(L, Head(bindings), Tail(bindings), s)

\* The fallback of a let-else initialises the binding or leaves.
LowerLetElse(L, s) ==
  LET failure == Newest(L) + 1
      success == failure + 1
      continue == failure + 2
      L1 == LowerClauses(AddBlocks(L, 3), s.clauses, success, failure)
      r == LowerValue(AtBlock(Terminate(L1, GotoBlock(continue)), failure), s.fallback)
      L2 == IF r.v = NoValue THEN Terminate(r.l, ReturnWith(UnitValue))
                          ELSE Terminate(Assign(r.l, 1, r.v), GotoBlock(continue))
  IN  AtBlock(L2, continue)

-----------------------------------------------------------------------------
(* match.  Case i of a match starts in starts[i]; the last start is where  *)
(* a match goes that no case accepts.  An or-pattern was split into one    *)
(* case per alternative, and c.others counts the alternatives after this   *)
(* one.                                                                    *)

\* What a failing guard of case i skips to: past the other alternatives.
GuardTarget(starts, i, c) ==
  starts[IF i + c.others + 1 < Len(starts) THEN i + c.others + 1 ELSE Len(starts)]

\* The pattern and guard of case i branch to its body, the newest block then.
LowerCaseTest(L, scrutinee, c, i, starts) ==
  LET accept == Newest(L)
      test == IF c.pattern = "_" THEN Lowered(L, Const("true"))
                                 ELSE Emit(L, "call", c.pattern, <<scrutinee>>)
      L1 == AddBlocks(test.l, 1)
      guard == LowerExpr(AtBlock(Terminate(L1, Branch(test.v, Newest(L1), starts[i + 1])),
                            Newest(L1)), c.guard)
  IN  AtBlock(IF c.guard.k = "none"
         THEN Terminate(test.l, Branch(test.v, accept, starts[i + 1]))
         ELSE Terminate(guard.l, Branch(guard.v, accept, GuardTarget(starts, i, c))), accept)

\* The cases from the i-th on; their values go to local target, 0 for none.
LowerCases(L, m, scrutinee, i, starts, out) ==
  IF i > Len(m.cases) THEN L
  ELSE LET c == m.cases[i]
           L1 == LowerCaseTest(AddBlocks(AtBlock(L, starts[i]), 1), scrutinee, c, i, starts)
           r == LowerValue(L1, c.body)
           L2 == IF out.target = 0 THEN LowerStatements(L1, c.body)
                                   ELSE Assign(r.l, out.target, OrUnit(r.v))
       IN  LowerCases(Terminate(L2, GotoBlock(out.join)), m, scrutinee, i + 1, starts, out)

\* Lowering goes on in the entry block when the scrutinee left.
OrEntry(L) == IF L.cur = 0 THEN AtBlock(L, 1) ELSE L

LowerMatch(L, m) ==
  LET scrutinee == LowerExpr(L, m.value)
      L1 == OrEntry(AddBlocks(scrutinee.l, Len(m.cases)))
      join == Newest(scrutinee.l) + 1
      starts == <<L1.cur>> \o [i \in 1 .. Len(m.cases) - 1 |-> join + i] \o <<join>>
  IN  AtBlock(LowerCases(L1, m, scrutinee.v, 1, starts, [target |-> 0, join |-> join]), join)

LowerMatchExpr(L, m) ==
  LET scrutinee == LowerExpr(L, m.value)
      target == scrutinee.l.locals + 1
      L1 == OrEntry(AddBlocks(Temp(scrutinee.l), Len(m.cases) + 1))
      join == Newest(scrutinee.l) + 1
      unmatched == Newest(L1)
      starts == <<L1.cur>> \o [i \in 1 .. Len(m.cases) |-> join + i]
      L2 == LowerCases(L1, m, scrutinee.v, 1, starts, [target |-> target, join |-> join])
      L3 == Terminate(Assign(AtBlock(L2, unmatched), target, UnitValue), GotoBlock(join))
  IN  Lowered(AtBlock(L3, join), Local(target))

-----------------------------------------------------------------------------
LowerSet(L, s) == LET r == LowerExpr(L, s.value) IN Assign(r.l, 1, r.v)

LowerStmt(L, s) ==
  IF L.cur = 0 THEN L ELSE
  CASE s.k = "set"     -> LowerSet(L, s)
    [] s.k = "if"      -> LowerIf(L, s)
    [] s.k = "match"   -> LowerMatch(L, s)
    [] s.k = "while"   -> LowerWhile(L, s)
    [] s.k = "for"     -> LowerFor(L, s.bindings, s)
    [] s.k = "letElse" -> LowerLetElse(L, s)
    [] OTHER           -> LowerExpr(L, s).l

LowerStatements(L, stmts) ==
  IF stmts = <<>> \/ L.cur = 0 THEN L
  ELSE LowerStatements(LowerStmt(L, Head(stmts)), Tail(stmts))

Statements == {"set", "while", "for", "letElse"}

\* The value of a block is that of its last statement, if it produces one.
LowerLast(L, s) ==
  LET tail == LowerIfTail(L, s)
  IN  IF s.k = "if" /\ tail.v # NoValue THEN tail ELSE
      CASE s.k = "match"               -> LowerMatchExpr(L, s)
        [] s.k \in Statements \union {"if"} -> Lowered(LowerStmt(L, s), NoValue)
        [] OTHER                       -> LowerExpr(L, s)

LowerValue(L, stmts) ==
  IF stmts = <<>> \/ L.cur = 0 THEN Lowered(L, NoValue)
  ELSE IF Len(stmts) = 1 THEN LowerLast(L, Head(stmts))
  ELSE LowerValue(LowerStmt(L, Head(stmts)), Tail(stmts))

LowerBody(stmts) ==
  LET r == LowerValue(Entry, stmts) IN Terminate(r.l, ReturnWith(OrUnit(r.v)))
===============================================================================
