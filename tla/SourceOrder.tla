----------------------------- MODULE SourceOrder -----------------------------
(***************************************************************************)
(* What a callable body promises: the calls it makes, in which order and   *)
(* with which arguments, and what it returns, read off the structure of    *)
(* its statements.  Expressions are evaluated from left to right, each     *)
(* once; return, break and continue leave the statements around them; the  *)
(* value of a block is that of its last statement.                         *)
(*                                                                         *)
(* Meaning(stmts, answers) evaluates a body with the given answers to the  *)
(* questions it asks, in the order in which it asks them, and stops at     *)
(* the first question that has no answer (flow "asking").  The nodes are   *)
(* those of module Lowering.                                               *)
(***************************************************************************)
EXTENDS Naturals, Sequences

CONSTANT Questions   \* the names whose call answers "true" or "false"

\* The state of an evaluation: the variable x, the answers left, the calls
\* made, how control goes on, the value of what was evaluated last, and the
\* question it waits for.
Begin(answers) == [x |-> "unit", answers |-> answers, calls |-> <<>>,
                   flow |-> "next", value |-> "unit", asked |-> <<>>]

Goes(S) == S.flow = "next"
Valued(S, v) == IF Goes(S) THEN [S EXCEPT !.value = v] ELSE S
Stored(S) == IF Goes(S) THEN [S EXCEPT !.x = S.value] ELSE S
Leaving(S, flow) == IF Goes(S) THEN [S EXCEPT !.flow = flow] ELSE S

\* A call of name id with the given argument values.
Called(S, id, args) ==
  LET noted == [S EXCEPT !.calls = Append(@, <<id, args>>)]
  IN  IF ~Goes(S) THEN S
      ELSE IF id \notin Questions THEN Valued(noted, id)
      ELSE IF S.answers = <<>> THEN [S EXCEPT !.flow = "asking", !.asked = <<id, args>>]
      ELSE [noted EXCEPT !.value = Head(S.answers), !.answers = Tail(@)]

\* After a round of a loop: whether another one follows, and what follows the loop.
Again(S) == S.flow \in {"next", "continue"}
Resumed(S) == IF S.flow \in {"break", "continue"} THEN [S EXCEPT !.flow = "next"] ELSE S

RECURSIVE Eval(_, _), EvalCall(_, _, _, _), Body(_, _), EvalClauses(_, _), EvalWhile(_, _),
          EvalFor(_, _, _), EvalItems(_, _, _, _), EvalCases(_, _, _, _)

EvalCall(S, id, args, values) ==
  IF args = <<>> THEN Called(S, id, values)
  ELSE LET T == Eval(S, Head(args)) IN EvalCall(T, id, Tail(args), Append(values, T.value))

\* A block has the value of its last statement.
Body(S, stmts) ==
  IF stmts = <<>> \/ ~Goes(S) THEN S
  ELSE Body(Eval(Valued(S, "unit"), Head(stmts)), Tail(stmts))

EvalBlock(S, stmts) == Body(Valued(S, "unit"), stmts)

\* Clauses are evaluated up to the first that fails.
EvalClauses(S, clauses) ==
  LET T == Eval(S, Head(clauses).value)
      U == IF Head(clauses).k = "let" THEN Valued(Stored(Valued(T, "payload")), "true") ELSE T
  IN  IF ~Goes(T) \/ T.value = "false" \/ Len(clauses) = 1
      THEN (IF Goes(T) /\ T.value = "true" THEN U ELSE T)
      ELSE EvalClauses(U, Tail(clauses))

EvalIf(S, e) ==
  LET T == EvalClauses(S, e.clauses)
      U == IF T.value = "true" THEN EvalBlock(T, e.then) ELSE T
  IN  IF ~Goes(T) THEN T
      ELSE IF e.else.k = "none" THEN Valued(U, "unit")
      ELSE IF T.value = "true" THEN U ELSE Eval(T, e.else)

EvalWhile(S, s) ==
  LET T == EvalClauses(S, s.clauses)
      U == EvalBlock(T, s.body)
  IN  IF ~Goes(T) \/ T.value = "false" THEN T
      ELSE IF Again(U) THEN EvalWhile(Resumed(U), s) ELSE Resumed(U)

\* One round of a for: its body, whose value is appended to the list it yields.
Round(S, s) ==
  LET U == EvalBlock(S, s.body)
  IN  IF s.k = "yield" THEN Called(U, "append", <<U.value>>) ELSE U

\* A for repeats its body for every item of its first generator, and in each
\* round for every item of the generators after it; without bindings, forever.
EvalFor(S, s, bindings) ==
  LET T == Eval(S, Head(bindings).value)
      U == Round(S, s)
  IN  IF s.bindings = <<>> THEN (IF Again(U) THEN EvalFor(Resumed(U), s, <<>>) ELSE Resumed(U))
      ELSE IF bindings = <<>> THEN U
      ELSE IF Head(bindings).k = "bind" THEN EvalFor(Stored(T), s, Tail(bindings))
      ELSE EvalItems(T, s, bindings, <<T.value>>)

EvalItems(S, s, bindings, source) ==
  LET T == Called(S, Head(bindings).next, source)
      U == EvalFor(Stored(Valued(T, "payload")), s, Tail(bindings))
  IN  IF ~Goes(T) \/ T.value = "false" THEN T
      ELSE IF Again(U) THEN EvalItems(Resumed(U), s, bindings, source) ELSE Resumed(U)

\* The first alternative that matches decides whether the guard is asked; a
\* guard that fails rules out the other alternatives of its case.
EvalCases(S, m, i, scrutinee) ==
  LET c == m.cases[i]
      T == IF c.pattern = "_" THEN Valued(S, "true") ELSE Called(S, c.pattern, scrutinee)
      G == IF c.guard.k = "none" THEN T ELSE Eval(T, c.guard)
  IN  IF i > Len(m.cases) THEN Valued(S, "unit")
      ELSE IF ~Goes(T) THEN T
      ELSE IF T.value = "false" THEN EvalCases(T, m, i + 1, scrutinee)
      ELSE IF ~Goes(G) \/ G.value = "true" THEN EvalBlock(G, c.body)
      ELSE EvalCases(G, m, i + c.others + 1, scrutinee)

Eval(S, e) ==
  LET T == Eval(S, e.value)
      L == Eval(S, e.left)
  IN  IF ~Goes(S) THEN S ELSE
      CASE e.k = "unit"      -> Valued(S, "unit")
        [] e.k = "var"       -> Valued(S, S.x)
        [] e.k = "call"      -> EvalCall(S, e.id, e.args, <<>>)
        [] e.k = "logical"   -> IF Goes(L) /\ L.value = (IF e.op = "and" THEN "true" ELSE "false")
                                THEN Eval(L, e.right) ELSE L
        [] e.k = "try"       -> IF T.value = "true" THEN Valued(T, "payload") ELSE Leaving(T, "return")
        [] e.k = "extractOr" -> IF Goes(T) /\ T.value = "true" THEN Valued(T, "payload")
                                                               ELSE Eval(T, e.fallback)
        [] e.k = "return"    -> Leaving(T, "return")
        [] e.k = "break"     -> Leaving(S, "break")
        [] e.k = "continue"  -> Leaving(S, "continue")
        [] e.k = "block"     -> EvalBlock(S, e.body)
        [] e.k = "if"        -> EvalIf(S, e)
        [] e.k = "match"     -> LET M == EvalCases(T, e, 1, <<T.value>>) IN IF Goes(T) THEN M ELSE T
        [] e.k = "yield"     -> Valued(EvalFor(S, e, e.bindings), "list")
        [] e.k = "set"       -> Valued(Stored(T), "unit")
        [] e.k = "while"     -> Valued(EvalWhile(S, e), "unit")
        [] e.k = "for"       -> Valued(EvalFor(S, e, e.bindings), "unit")
        [] e.k = "letElse"   -> LET C == EvalClauses(S, e.clauses)
                                IN  IF Goes(C) /\ C.value = "false"
                                    THEN Valued(Stored(EvalBlock(C, e.fallback)), "unit")
                                    ELSE Valued(C, "unit")

Meaning(stmts, answers) == EvalBlock(Begin(answers), stmts)
=============================================================================
