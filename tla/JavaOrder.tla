------------------------------ MODULE JavaOrder ------------------------------
(***************************************************************************)
(* What the Java printed for a callable body does: the calls it makes and  *)
(* what it returns, with given answers to its questions, as module         *)
(* SourceOrder says of the source.  The nodes are those of JavaEmission.   *)
(* && and || skip their right operand, break leaves the innermost switch   *)
(* or loop, continue repeats the innermost loop, and a return within a     *)
(* supplier ends the supplier.                                             *)
(***************************************************************************)
EXTENDS SourceOrder, TLC

\* As in SourceOrder, with the temporaries.
Started(answers) == Begin(answers) @@ [temps |-> <<>>]

\* Assigns the value to temporary n, to x when n is 0.
Assigned(S, n) ==
  IF ~Goes(S) THEN S
  ELSE IF n = 0 THEN Stored(S) ELSE [S EXCEPT !.temps = n :> S.value @@ @]

RECURSIVE Java(_, _), JavaCall(_, _, _, _), JavaBlock(_, _), JavaWhile(_, _), JavaItems(_, _, _)

JavaCall(S, id, parts, values) ==
  IF parts = <<>> THEN Called(S, id, values)
  ELSE LET T == Java(S, Head(parts)) IN JavaCall(T, id, Tail(parts), Append(values, T.value))

JavaBlock(S, stmts) ==
  IF stmts = <<>> \/ ~Goes(S) THEN S ELSE JavaBlock(Java(S, Head(stmts)), Tail(stmts))

JavaWhile(S, n) ==
  LET T == Java(S, n.parts[1])
      U == Java(T, n.parts[2])
  IN  IF ~Goes(T) \/ T.value = "false" THEN T
      ELSE IF Again(U) THEN JavaWhile(Resumed(U), n) ELSE Resumed(U)

\* while (iterator.hasNext()) { item = iterator.next(); ... }
JavaItems(S, n, source) ==
  LET T == Called(S, n.name, source)
      U == Java(T, n.parts[2])
  IN  IF ~Goes(T) \/ T.value = "false" THEN T
      ELSE IF Again(U) THEN JavaItems(Resumed(U), n, source) ELSE Resumed(U)

\* After a statement or supplier that takes the given way of leaving for its own.
Absorbed(S, flow) == IF S.flow = flow THEN [S EXCEPT !.flow = "next"] ELSE S

Java(S, n) ==
  LET T == Java(S, n.parts[1])
      Right == IF Goes(T) THEN Java(T, n.parts[2]) ELSE T
  IN  IF ~Goes(S) THEN S ELSE
      CASE n.j \in {"unit", "payload", "true", "false"} -> Valued(S, n.j)
        [] n.j = "x"          -> Valued(S, S.x)
        [] n.j = "temp"       -> Valued(S, S.temps[n.name])
        [] n.j = "call"       -> JavaCall(S, n.name, n.parts, <<>>)
        [] n.j = "and"        -> IF T.value = "true" THEN Right ELSE T
        [] n.j = "or"         -> IF T.value = "false" THEN Right ELSE T
        [] n.j = "binds"      -> IF Goes(T) /\ T.value = "true"
                                 THEN Valued(Stored(Valued(T, "payload")), "true") ELSE T
        [] n.j = "to"         -> Assigned(T, n.name)
        [] n.j = "seq"        -> JavaBlock(S, n.parts)
        [] n.j = "if"         -> IF T.value = "true" THEN Right ELSE Java(T, n.parts[3])
        [] n.j = "while"      -> JavaWhile(S, n)
        [] n.j = "iterate"    -> IF Goes(T) THEN JavaItems(T, n, <<T.value>>) ELSE T
        [] n.j = "switch"     -> Absorbed(T, "break")
        [] n.j = "supplier"   -> Absorbed(JavaBlock(S, n.parts), "return")
        [] n.j = "return"     -> Leaving(T, "return")
        [] n.j \in {"break", "continue"} -> Leaving(S, n.j)
        [] n.j = "throw"      -> Leaving(S, "thrown")

\* A function that ends without a return has no value.
JavaMeaning(java, answers) ==
  LET S == Java(Started(answers), java) IN Valued(S, "unit")
===============================================================================
