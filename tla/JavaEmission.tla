----------------------------- MODULE JavaEmission -----------------------------
(***************************************************************************)
(* How the Java back end prints a callable body                            *)
(* (rust/crates/lume/src/java_backend/emit.rs).  It works on the           *)
(* structured statements (the nodes of module Lowering), not on blocks.    *)
(*                                                                         *)
(* The Java is a tree of nodes, which module JavaOrder runs.  A body with  *)
(* anything the back end cannot print becomes a stub that throws when it   *)
(* is called: ok tells the trees without.  Names, types, casts and imports *)
(* are left out.  Patterns hold no other than Some(x): the identifier x is *)
(* printed as a variable or as the payload of the value tested last, and   *)
(* one variable stands for both.                                           *)
(***************************************************************************)
EXTENDS Naturals, Sequences, SequencesExt

Node(j, name, parts) ==
  [j |-> j, name |-> name, parts |-> parts, ok |-> \A i \in DOMAIN parts : parts[i].ok]

\* An emit_ function answered None: the whole body becomes a stub.
Stub == [j |-> "stub", name |-> "", parts |-> <<>>, ok |-> FALSE]

Leaf(j) == Node(j, "", <<>>)
Block(stmts) == Node("seq", "", stmts)
Nothing == Block(<<>>)
Payload == Leaf("payload")
Truth(b) == Leaf(IF b THEN "true" ELSE "false")
Temp(n) == Node("temp", n, <<>>)
If(c, a, b) == Node("if", "", <<c, a, b>>)
Unless(c, a) == If(c, Nothing, a)
Return(e) == Node("return", "", <<e>>)
Throw == Leaf("throw")

\* Assigns to temporary n, or to x when n is 0.
Assign(n, e) == Node("to", n, <<e>>)

\* Where statements are printed: whether the block's last one gives the value
\* of the body, how many loops are around it, whether the body returns Unit,
\* whether x = ... declares x, and the first temporary that is free.
Deeper(c, n) == [c EXCEPT !.d = @ + n]
Inner(c) == [c EXCEPT !.returns = FALSE]
InLoop(c) == [Inner(c) EXCEPT !.loops = @ + 1]

Jumps == {"return", "break", "continue"}
IsExpression(s) == s.k \notin Jumps \union {"set", "while", "for", "letElse", "if", "match"}
IsOneExpression(stmts) == Len(stmts) = 1 /\ IsExpression(stmts[1])

RECURSIVE EmitExpr(_, _), EmitChain(_, _, _, _), EmitGroup(_, _, _, _), EmitInlineValue(_, _),
          EmitAssigning(_, _, _), EmitIf(_, _), EmitFor(_, _, _), EmitStatements(_, _),
          EmitReturning(_, _)

-----------------------------------------------------------------------------
(* match.  The scrutinee is in temporary d.                                *)

CaseTest(m, i, d) ==
  IF m.cases[i].pattern = "_" THEN Truth(TRUE) ELSE Node("call", m.cases[i].pattern, <<Temp(d)>>)

Guard(m, i, d) ==
  IF m.cases[i].guard.k = "none" THEN Truth(TRUE) ELSE EmitExpr(m.cases[i].guard, d + 1)

\* if (pattern && guard) ... else if ..., or the cases of a switch: i is the
\* next case, action[j] what case j does.
EmitChain(m, i, d, action) ==
  IF i > Len(m.cases) THEN Throw
  ELSE If(Node("and", "", <<CaseTest(m, i, d), Guard(m, i, d)>>), action[i],
          EmitChain(m, i + 1, d, action))

\* The alternatives of one case, from the i-th on: the first that matches
\* decides.
EmitGroup(m, i, d, action) ==
  If(CaseTest(m, i, d), If(Guard(m, i, d), action[i], Nothing),
     IF m.cases[i].others = 0 THEN Nothing ELSE EmitGroup(m, i + 1, d, action))

GroupStarts(m) ==
  SelectSeq([i \in DOMAIN m.cases |-> i], LAMBDA i : i = 1 \/ m.cases[i - 1].others = 0)

Groups(m, d, action) == [g \in DOMAIN GroupStarts(m) |-> EmitGroup(m, GroupStarts(m)[g], d, action)]

HasAlternatives(m) == \E i \in DOMAIN m.cases : m.cases[i].others > 0

\* Mutant of IsSwitch: alternatives are cases of their own.
SwitchOnAlternatives(m) ==
  \A i \in DOMAIN m.cases :
    m.cases[i].pattern = "_" /\ m.cases[i].guard.k = "none" => i = Len(m.cases)

\* A Java switch takes no alternatives and nothing after a default.
IsSwitch(m) ==
  /\ ~HasAlternatives(m)
  /\ \A i \in DOMAIN m.cases :
       m.cases[i].pattern = "_" /\ m.cases[i].guard.k = "none" => i = Len(m.cases)

Switch(m, d, action) == Node("switch", "", <<EmitChain(m, 1, d, action)>>)

\* A match used for its value: a supplier, whose cases must be expressions.
EmitMatchExpression(m, d) ==
  LET action == [i \in DOMAIN m.cases |->
                   IF IsOneExpression(m.cases[i].body)
                   THEN Return(EmitExpr(m.cases[i].body[1], d + 1)) ELSE Stub]
  IN  Node("supplier", "", <<Assign(d, EmitExpr(m.value, d + 1))>>
                            \o (IF IsSwitch(m) THEN <<Switch(m, d, action)>>
                                ELSE Groups(m, d, action) \o <<Throw>>))

\* A statement match with alternatives: done (temporary d + 1) tells whether
\* an earlier case was taken.
EmitMatchWithAlternatives(m, d, action) ==
  LET taken == [i \in DOMAIN m.cases |-> Block(<<Assign(d + 1, Truth(TRUE)), action[i]>>)]
      groups == Groups(m, d, taken) \o <<Throw>>
  IN  <<Assign(d + 1, Truth(FALSE))>>
        \o [g \in DOMAIN groups |-> Unless(Temp(d + 1), groups[g])]

-----------------------------------------------------------------------------
(* Expressions.                                                            *)

EmitCall(e, d) == Node("call", e.id, [i \in DOMAIN e.args |-> EmitExpr(e.args[i], d)])

EmitExtractOr(e, d) == If(EmitExpr(e.value, d), Payload, EmitExpr(e.fallback, d))

\* Statements that are used as expressions cannot be printed.
EmitExpr(e, d) ==
  CASE e.k = "unit"      -> Leaf("unit")
    [] e.k = "var"       -> Leaf("x")
    [] e.k = "call"      -> EmitCall(e, d)
    [] e.k = "logical"   -> Node(e.op, "", <<EmitExpr(e.left, d), EmitExpr(e.right, d)>>)
    [] e.k = "extractOr" -> EmitExtractOr(e, d)
    [] e.k = "match"     -> EmitMatchExpression(e, d)
    [] OTHER             -> Stub

\* Clauses are joined by &&; a let clause makes x the payload.
EmitClauses(clauses, d) ==
  LET clause(i) == LET e == EmitExpr(clauses[i].value, d)
                   IN  IF clauses[i].k = "let" THEN Node("binds", "", <<e>>) ELSE e
  IN  FoldLeftDomain(LAMBDA all, i : IF i = 1 THEN clause(1) ELSE Node("and", "", <<all, clause(i)>>),
                     Nothing, clauses)

\* A value that is absent is returned from the function.
EmitTry(e, d) ==
  <<Assign(d, EmitExpr(e.value, d + 1)), Unless(Temp(d), Return(Temp(d)))>>

EmitTryAssignment(n, e, d) == EmitTry(e, d) \o <<Assign(n, Payload)>>

-----------------------------------------------------------------------------
(* x = value and let x = value.                                            *)

\* c ? a : b, where every branch is one expression.
EmitInlineValue(e, d) ==
  LET branch(stmts) == IF IsOneExpression(stmts) THEN EmitInlineValue(stmts[1], d) ELSE Stub
  IN  IF e.k # "if" THEN EmitExpr(e, d)
      ELSE If(EmitClauses(e.clauses, d), branch(e.then),
              CASE e.else.k = "none"  -> Stub
                [] e.else.k = "if"    -> EmitInlineValue(e.else, d)
                [] e.else.k = "block" -> branch(e.else.body))

\* An assignment at the end of every branch.  Within, break and continue have
\* no loop.
EmitAssigning(n, e, c) ==
  LET branch(stmts) ==
        IF stmts = <<>> \/ ~IsExpression(Last(stmts)) THEN Stub
        ELSE Block(EmitStatements(Front(stmts), [Inner(c) EXCEPT !.loops = 0])
                     \o <<EmitAssigning(n, Last(stmts), c)>>)
  IN  CASE e.k = "if"  -> If(EmitClauses(e.clauses, c.d), branch(e.then),
                             CASE e.else.k = "none"  -> Stub
                               [] e.else.k = "if"    -> EmitAssigning(n, e.else, c)
                               [] e.else.k = "block" -> branch(e.else.body))
        [] e.k = "try" -> Block(EmitTryAssignment(n, e, c.d))
        [] OTHER       -> Assign(n, EmitExpr(e, c.d))

EmitIfBinding(e, c) ==
  LET inline == EmitInlineValue(e, c.d) IN IF inline.ok THEN Assign(0, inline) ELSE EmitAssigning(0, e, c)

\* let x = f(a, b?): the tries are done first, each into a temporary.
HasTryArgument(e) == e.k = "call" /\ \E i \in DOMAIN e.args : e.args[i].k = "try"

EmitHoisted(e, d) ==
  LET after == d + Len(e.args)
      tried(i) == IF e.args[i].k = "try" THEN EmitTryAssignment(d + i - 1, e.args[i], after) ELSE <<>>
      args == [i \in DOMAIN e.args |-> IF e.args[i].k = "try" THEN Temp(d + i - 1)
                                                              ELSE EmitExpr(e.args[i], after)]
  IN  FlattenSeq([i \in DOMAIN e.args |-> tried(i)]) \o <<Assign(0, Node("call", e.id, args))>>

\* let x = a && b?
EmitShortCircuit(e, d) ==
  LET tried == Block(EmitTryAssignment(0, e.right, d))
      short == Assign(0, Truth(e.op = "or"))
  IN  IF e.op = "and" THEN If(EmitExpr(e.left, d), tried, short)
                      ELSE If(EmitExpr(e.left, d), short, tried)

EmitJump(e, c) ==
  CASE e.k = "return"           -> Return(EmitExpr(e.value, c.d))
    [] e.k \in Jumps \ {"return"} -> IF c.loops > 0 THEN Leaf(e.k) ELSE Stub

\* let x = v ?? return e, or break, or continue.
EmitJumpOr(e, c) ==
  <<Assign(c.d, EmitExpr(e.value, c.d + 1)), Unless(Temp(c.d), EmitJump(e.fallback, Deeper(c, 1))),
    Assign(0, Payload)>>

EmitSet(s, c) ==
  LET e == s.value
  IN  CASE e.k = "try"                    -> EmitTryAssignment(0, e, c.d)
        [] c.binds /\ e.k = "if"          -> <<EmitIfBinding(e, c)>>
        [] c.binds /\ HasTryArgument(e)   -> EmitHoisted(e, c.d)
        [] c.binds /\ e.k = "logical" /\ e.right.k = "try" -> <<EmitShortCircuit(e, c.d)>>
        [] c.binds /\ e.k = "extractOr" /\ e.fallback.k \in Jumps -> EmitJumpOr(e, c)
        [] OTHER                          -> <<Assign(0, EmitExpr(e, c.d))>>

-----------------------------------------------------------------------------
(* The other statements.                                                   *)

\* let Some(x) = v else { jump }: each clause with a copy of the else block.
EmitLetElseClause(clause, fallback, c) ==
  <<Assign(c.d, EmitExpr(clause.value, c.d + 1)),
    Unless(Temp(c.d), Block(EmitStatements(fallback, Deeper(Inner(c), 1)))),
    Assign(0, Payload)>>

\* let Some(x) = v else { value }: matched is temporary d.
EmitValueLetElse(s, c) ==
  LET tested(clause) ==
        If(Temp(c.d), Block(<<Assign(c.d + 1, EmitExpr(clause.value, c.d + 2)),
                              If(Temp(c.d + 1), Assign(0, Payload), Assign(c.d, Truth(FALSE)))>>), Nothing)
      fallback == EmitStatements(Front(s.fallback), Deeper(Inner(c), 1))
                    \o <<Assign(0, EmitExpr(Last(s.fallback), c.d + 1))>>
  IN  <<Assign(c.d, Truth(TRUE))>>
        \o [i \in DOMAIN s.clauses |-> tested(s.clauses[i])] \o <<Unless(Temp(c.d), Block(fallback))>>

\* An if whose branches give the fallback value is printed as one whose
\* branches leave; javac refuses x then.
EmitLetElse(s, c) ==
  CASE s.fallback # <<>> /\ IsExpression(Last(s.fallback)) -> EmitValueLetElse(s, c)
    [] s.fallback # <<>> /\ Last(s.fallback).k = "if"      -> <<Stub>>
    [] OTHER -> FlattenSeq([i \in DOMAIN s.clauses |-> EmitLetElseClause(s.clauses[i], s.fallback, c)])

EmitIf(s, c) ==
  If(EmitClauses(s.clauses, c.d), Block(EmitStatements(s.then, c)),
     CASE s.else.k = "none"  -> IF c.returns THEN Stub ELSE Nothing
       [] s.else.k = "if"    -> EmitIf(s.else, c)
       [] s.else.k = "block" -> Block(EmitStatements(s.else.body, c)))

EmitWhile(s, c) ==
  Node("while", "", <<EmitClauses(s.clauses, c.d), Block(EmitStatements(s.body, InLoop(c)))>>)

\* Each generator is a loop around those after it; without one, or with a
\* value among them, a for cannot be printed.
EmitFor(bindings, s, c) ==
  IF bindings = <<>> \/ Head(bindings).k = "bind" THEN Stub
  ELSE LET inner == IF Len(bindings) = 1 THEN Block(EmitStatements(s.body, InLoop(c)))
                                         ELSE EmitFor(Tail(bindings), s, InLoop(c))
       IN  Node("iterate", Head(bindings).next,
                <<EmitExpr(Head(bindings).value, c.d), Block(<<Assign(0, Payload), inner>>)>>)

EmitCaseBody(stmts, c) ==
  IF ~IsOneExpression(stmts) THEN Block(EmitStatements(stmts, c))
  ELSE IF c.returns THEN EmitReturning(stmts[1], c)
  ELSE IF stmts[1].k = "unit" THEN Nothing
  ELSE EmitExpr(stmts[1], c.d)

EmitMatch(m, c) ==
  LET d == c.d
      action == [i \in DOMAIN m.cases |-> EmitCaseBody(m.cases[i].body, Deeper(c, 2))]
  IN  <<Assign(d, EmitExpr(m.value, d + 1))>>
        \o (IF IsSwitch(m) THEN <<Switch(m, d, action)>>
            ELSE IF HasAlternatives(m) THEN EmitMatchWithAlternatives(m, d, action)
            ELSE <<EmitChain(m, 1, d, action)>>)

\* A match that is the whole body of a function: one if after the other, of
\* which a case that matches leaves the function.
EmitMatchReturn(m, c) ==
  LET d == c.d
      action == [i \in DOMAIN m.cases |-> IF IsOneExpression(m.cases[i].body)
                                          THEN EmitReturning(m.cases[i].body[1], Deeper(c, 1)) ELSE Stub]
  IN  Block(<<Assign(d, EmitExpr(m.value, d + 1))>>
              \o (IF IsSwitch(m) THEN <<Switch(m, d, action)>> ELSE Groups(m, d, action) \o <<Throw>>))

EmitIfReturn(e, c) ==
  LET branch(stmts) ==
        CASE IsOneExpression(stmts)                    -> EmitReturning(stmts[1], c)
          [] Len(stmts) = 1 /\ stmts[1].k = "return"   -> EmitJump(stmts[1], c)
          [] OTHER                                     -> Stub
  IN  If(EmitClauses(e.clauses, c.d), branch(e.then),
         CASE e.else.k = "none"  -> Stub
           [] e.else.k = "if"    -> EmitReturning(e.else, c)
           [] e.else.k = "block" -> branch(e.else.body))

EmitReturning(e, c) ==
  CASE e.k = "if"    -> EmitIfReturn(e, c)
    [] e.k = "match" -> EmitMatchReturn(e, c)
    [] OTHER         -> IF c.void THEN EmitExpr(e, c.d) ELSE Return(EmitExpr(e, c.d))

\* The branches of an if or a match that ends the body give its value.
Branches(c) == [c EXCEPT !.returns = @ /\ ~c.void]

EmitStatement(s, c) ==
  CASE s.k = "set"      -> EmitSet(s, c)
    [] s.k \in Jumps    -> <<EmitJump(s, c)>>
    [] s.k = "letElse"  -> EmitLetElse(s, c)
    [] s.k = "if"       -> <<EmitIf(s, Branches(c))>>
    [] s.k = "match"    -> EmitMatch(s, Branches(c))
    [] s.k = "while"    -> <<EmitWhile(s, c)>>
    [] s.k = "for"      -> <<EmitFor(s.bindings, s, c)>>
    [] s.k = "try" /\ ~c.returns -> EmitTry(s, c.d)
    [] IsExpression(s) /\ c.returns -> <<EmitReturning(s, c)>>
    [] s.k = "unit" /\ ~c.returns   -> <<>>
    [] OTHER            -> <<EmitExpr(s, c.d)>>

EmitStatements(stmts, c) ==
  FlattenSeq([i \in DOMAIN stmts |->
                EmitStatement(stmts[i], IF i = Len(stmts) THEN c ELSE Inner(c))])

\* A function given as { ... }, or as = e.
EmitBody(stmts, how) ==
  LET c == [returns |-> TRUE, loops |-> 0, void |-> how.void, binds |-> how.binds, d |-> 1]
  IN  IF how.block THEN Block(EmitStatements(stmts, c)) ELSE EmitReturning(stmts[1], c)
===============================================================================
