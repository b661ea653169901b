------------------------------ MODULE MCLowering ------------------------------
(***************************************************************************)
(* Small callable bodies for TLC: every kind of statement and expression   *)
(* that steers control, nested in the others, with bodies that fall        *)
(* through, return, or leave or repeat the loop around them.               *)
(***************************************************************************)
EXTENDS BlockMachine, Lowering

INSTANCE JavaOrder

Printer == INSTANCE JavaEmission

MCQuestions == {"p", "q", "r", "s", "t"}

Do(id) == [k |-> "call", id |-> id, args |-> <<>>]
With(id, args) == [k |-> "call", id |-> id, args |-> args]
Var == [k |-> "var"]
Returning(e) == [k |-> "return", value |-> e]
Brk == [k |-> "break"]
Cont == [k |-> "continue"]
Braces(stmts) == [k |-> "block", body |-> stmts]
Both(l, r) == [k |-> "logical", op |-> "and", left |-> l, right |-> r]
Either(l, r) == [k |-> "logical", op |-> "or", left |-> l, right |-> r]
Try(e) == [k |-> "try", value |-> e]
Or(e, f) == [k |-> "extractOr", value |-> e, fallback |-> f]
Set(e) == [k |-> "set", value |-> e]
Test(e) == [k |-> "test", value |-> e]
Let(e) == [k |-> "let", value |-> e]
NoElse == [k |-> "none"]
IfElse(clauses, then, else) == [k |-> "if", clauses |-> clauses, then |-> then, else |-> else]
While(clauses, stmts) == [k |-> "while", clauses |-> clauses, body |-> stmts]
Each(e, next) == [k |-> "each", value |-> e, next |-> next]
Bound(e) == [k |-> "bind", value |-> e]
For(bindings, stmts) == [k |-> "for", bindings |-> bindings, body |-> stmts]
Yield(bindings, stmts) == [k |-> "yield", bindings |-> bindings, body |-> stmts]
Case(pattern, guard, others, stmts) ==
  [pattern |-> pattern, guard |-> guard, others |-> others, body |-> stmts]
Match(e, cases) == [k |-> "match", value |-> e, cases |-> cases]
LetElse(clauses, stmts) == [k |-> "letElse", clauses |-> clauses, fallback |-> stmts]

-----------------------------------------------------------------------------
\* Blocks that end in each way a block can; tag names the place they stand at.
Ends(tag) == {<<Do(tag)>>, <<Do(tag), Returning(Var)>>, <<>>}
LoopEnds(tag) == Ends(tag) \union {<<Brk>>, <<Do(tag), Cont>>}

Conditions == {<<Test(Do("p"))>>, <<Let(Do("p")), Test(With("q", <<Var>>))>>,
               <<Test(Both(Do("p"), Either(Do("q"), Do("r"))))>>}


\* An if, with an else, without one, and with a chain of them.
Ifs(ends(_)) ==
  UNION {{IfElse(c, a, NoElse), IfElse(c, a, Braces(b)),
          IfElse(c, a, IfElse(<<Test(Do("s"))>>, b, Braces(<<Do("c")>>)))} :
            c \in Conditions, a \in ends("a"), b \in ends("b")}

\* The body of a callable: a statement on its own, whose value it returns, or
\* followed by others.
Bodies(stmts) == UNION {{<<s>>, <<Do("first"), s, Do("last")>>} : s \in stmts}

IfBodies == Bodies(Ifs(Ends))

\* Loops around an if that may leave or repeat them.
LoopBodies ==
  UNION {{<<While(<<Test(Do("t"))>>, <<s, Do("d")>>), Do("last")>>,
          <<For(<<Each(Do("xs"), "t")>>, <<s, Do("d")>>), Do("last")>>} : s \in Ifs(LoopEnds)}

\* A loop within a loop; a for with several generators.
Nested(stmts) ==
  {<<While(<<Test(Do("t"))>>, <<While(<<Let(Do("s"))>>, stmts), Do("d")>>), Returning(Do("last"))>>,
   <<For(<<Each(Do("xs"), "t"), Bound(With("f", <<Var>>)), Each(Var, "s")>>, stmts), Do("last")>>,
   <<For(<<>>, <<IfElse(<<Test(Do("t"))>>, <<Brk>>, NoElse)>> \o stmts)>>,
   <<With("use", <<Yield(<<Each(Do("xs"), "t"), Each(Do("ys"), "s")>>, stmts)>>)>>}
NestedBodies ==
  UNION {Nested(<<IfElse(<<Test(Do("p"))>>, a, NoElse), Do("b")>>) : a \in LoopEnds("a")}

\* match with guards, with an or-pattern that shares one, as a statement, as the
\* value of the body and as an argument.
NoGuard == [k |-> "none"]
Cases(patterns, guard, stmts) ==
  [i \in 1 .. Len(patterns) |->
     [pattern |-> patterns[i], guard |-> guard, others |-> Len(patterns) - i, body |-> stmts]]
Matches ==
  {Match(Do("m"), Cases(alternatives, g, a) \o Cases(<<"s">>, h, b) \o Cases(<<"_">>, NoGuard, <<Do("c")>>)) :
     alternatives \in {<<"p">>, <<"p", "q">>}, g \in {NoGuard, Both(Do("r"), Do("t"))},
     h \in {NoGuard, Do("t")}, a \in Ends("a"), b \in Ends("b") \ {<<>>}}
MatchBodies == Bodies(Matches) \union {<<With("use", <<Do("before"), m>>)>> : m \in Matches}

\* try, ??, let-else and the conditional expressions, one within another.
Lifted == {Do("p"), With("p", <<Try(Do("q"))>>)}
Fallbacks == {Do("b"), Returning(Do("b")), Braces(<<Do("b"), Do("c")>>),
              IfElse(<<Test(Do("r"))>>, <<Do("b")>>, Braces(<<Returning(Do("c"))>>))}
Expressions ==
  {Try(v) : v \in Lifted} \union {Or(v, f) : v \in Lifted, f \in Fallbacks}
  \union {IfElse(c, <<Do("a")>>, Braces(<<f>>)) : c \in Conditions, f \in Fallbacks}
  \union {IfElse(<<Test(Do("p"))>>, <<Returning(Do("a"))>>, Braces(<<Returning(Do("b"))>>))}
ExpressionBodies ==
  UNION {{<<e>>, <<With("use", <<Do("before"), e, Do("after")>>), Do("last")>>,
          <<Set(e), With("use", <<Var>>)>>} : e \in Expressions}
  \union {<<LetElse(c, <<f>>), With("use", <<Var>>)>> :
             c \in {<<Let(Do("p"))>>, <<Let(Do("p")), Let(With("q", <<Var>>))>>}, f \in Fallbacks}
  \union {<<For(<<Each(Do("xs"), "t")>>,
               <<LetElse(<<Let(Do("p"))>>, <<f>>), Set(Or(With("q", <<Var>>), g)), Do("d")>>)>> :
             f \in {Brk, Cont, Do("b")}, g \in {Brk, Cont, Do("c")}}

\* Values with a try in them; a match in a loop whose cases repeat the loop, or
\* leave it where the case has alternatives.
TriedValues ==
  {With("use", <<Try(Do("p")), Var, Try(With("q", <<Var>>))>>)}
  \union {IfElse(c, <<Do("a"), Try(Do("s"))>>, b) :
             c \in Conditions, b \in {Braces(<<Do("b")>>), IfElse(<<Test(Do("t"))>>, <<Try(Do("q"))>>, Braces(<<Do("c")>>))}}
  \union {Both(Do("p"), Try(Do("q"))), Either(Do("p"), Try(Do("q")))}
LoopMatches ==
  {Match(Do("m"), Cases(alternatives, g, a) \o Cases(<<"s">>, NoGuard, b) \o Cases(<<"_">>, NoGuard, <<Do("c")>>)) :
     alternatives \in {<<"p">>, <<"p", "q">>}, g \in {NoGuard, Do("r")}, a \in LoopEnds("a") \ {<<Brk>>},
     b \in {<<Do("b")>>, <<Do("b"), Cont>>}}
BackEndBodies ==
  {<<Set(v), With("use", <<Var>>)>> : v \in TriedValues}
  \union {<<For(<<Each(Do("xs"), "t")>>, <<m, Do("d")>>), Do("last")>> : m \in LoopMatches}
  \union {<<While(<<Let(Do("t"))>>,
                  <<Match(Do("m"), Cases(<<"p", "q">>, NoGuard, <<Brk>>) \o Cases(<<"_">>, NoGuard, <<Do("c")>>))>>),
             Do("last")>>}

MCCallables ==
  IfBodies \union LoopBodies \union NestedBodies \union MatchBodies \union ExpressionBodies
  \union BackEndBodies

\* A chain of ifs without a last else, at the end of a body.
OpenChain == {<<IfElse(<<Test(Do("p"))>>, <<Do("a")>>, IfElse(<<Test(Do("q"))>>, <<Do("b")>>, NoElse))>>}

-----------------------------------------------------------------------------
(* The Java printed for the same bodies.                                   *)

\* A body in braces, of a function that returns a value or Unit, where x = ...
\* declares x or assigns it; and a body given as = e.
Ways == [block : {TRUE}, void : BOOLEAN, binds : BOOLEAN]
        \union [block : {FALSE}, void : {FALSE}, binds : {TRUE}]

Printed ==
  [b \in CallableBodies |->
     [w \in {v \in Ways : v.block \/ Len(b) = 1} |-> Printer!EmitBody(b, w)]]

\* The two back ends agree: when the interpreter asks a question, the Java of
\* the same body, if there is any, has made the same calls with the same
\* arguments and asks it too, and when the interpreter returns, so does the
\* Java, with the same value.
BackEndsAgree ==
  \A way \in DOMAIN Printed[body] :
    LET java == Printed[body][way]
        J == JavaMeaning(java, answers)
    IN  java.ok =>
          /\ AtQuestion => J.flow = "asking" /\ J.asked = ThisCall /\ J.calls = trace
          /\ result # "none" => /\ J.flow \in {"next", "return"}
                                /\ J.calls = trace
                                /\ ~way.void => J.value = result

\* A break in a case of a match in a loop.
BreakingCase ==
  {<<For(<<Each(Do("xs"), "t")>>,
         <<Match(Do("m"), Cases(<<"p">>, NoGuard, <<Do("a"), Brk>>) \o Cases(<<"_">>, NoGuard, <<Do("b")>>)),
           Do("d")>>),
     Do("last")>>}
===============================================================================
