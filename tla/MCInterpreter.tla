--------------------------- MODULE MCInterpreter ---------------------------
(* Small programs for the interpreter: every combination of short bodies. *)
EXTENDS CallReport

CONSTANTS main, work, clean, extra, x, p, g, h, o, q, k

MCFunctions == {main, work, clean, extra}

L(i) == [kind |-> "local", id |-> i]

G(i) == [kind |-> "global", id |-> i]

C(i) == [kind |-> "const", value |-> IntValue(i)]

Use(d, a) == [op |-> "use", dst |-> d, arg |-> a]

Call(d, f, a) == [op |-> "call", dst |-> d, fn |-> f, arg |-> a]

Defer(f, a) == [op |-> "defer", fn |-> f, arg |-> a]

Make(d, t) == [op |-> "instance", dst |-> d, type |-> t]

Fail == [op |-> "fail"]

Ret(a) == [op |-> "return", arg |-> a]

To(b) == [op |-> "goto", target |-> b]

If(a, v, b, e) ==
  [op |-> "switch", on |-> a, default |-> e,
   cases |-> <<[value |-> IntValue(v), target |-> b]>>]

B(ss, t) == [stmts |-> ss, term |-> t]

One(ss, t) == <<B(ss, t)>>

\* A body that registers a cleanup in each of two turns of a loop: (g, h) goes
\* from (0, 0) through (0, 1) to (1, 1).
Loop(c) ==
  <<B(<<>>, If(G(g), 1, 3, 2)),
    B(<<Defer(c, G(h)), Use(G(g), G(h)), Use(G(h), C(1))>>, To(1)),
    B(<<>>, Ret(G(g)))>>

Blank == [f \in MCFunctions |-> One(<<>>, Ret(C(0)))]

None == [t \in Types |-> NoFunction]

Run(bodies) ==
  [body |-> bodies, fieldInit |-> None, new |-> None, globalInit |-> NoFunction,
   mode |-> "run", entry |-> main, specs |-> <<>>]

-----------------------------------------------------------------------------
(* Cleanup: main calls and defers work, work calls and defers clean. *)

DeferMenu == {Defer(clean, G(g)), Defer(work, C(1))}

MainMenu == DeferMenu \cup {Call(G(g), work, C(1)), Use(G(g), C(2))}

WorkMenu == {Defer(clean, L(p)), Call(L(x), clean, G(g)), Fail}

CleanBodies ==
  {One(<<Use(G(g), C(1))>>, Ret(C(0))),
   One(<<Fail>>, Ret(C(0))),
   <<B(<<>>, If(G(g), 1, 2, 3)), B(<<>>, [op |-> "unreachable"]),
     B(<<Use(G(g), C(1))>>, Ret(C(0)))>>}

\* Calls that never stop: the native stack overflows.
RunawayPrograms ==
  {Run([Blank EXCEPT ![main] = One(<<Defer(clean, C(0)), Call(G(g), main, C(0))>>, Ret(C(0)))])}

CleanupPrograms ==
  RunawayPrograms \cup
  {Run([Blank EXCEPT ![main] = m, ![work] = w, ![clean] = c]) :
     m \in {One(s, Ret(G(g))) : s \in SeqOf(MainMenu, 2) \cup [1..3 -> DeferMenu]}
             \cup {Loop(work), Loop(clean)},
     w \in {One(s, t) : s \in SeqOf(WorkMenu, 2), t \in {Ret(G(g))}},
     c \in CleanBodies}

-----------------------------------------------------------------------------
(* Objects: o and q are singletons, k is a class; q's constructor reads o. *)

MakeMenu == {Make(G(g), o), Make(G(g), q), Make(G(h), k), Fail}

ObjectBody(m, w, c) == [Blank EXCEPT ![main] = m, ![work] = w, ![clean] = c]

ObjectPrograms ==
  {[Run(ObjectBody(One(<<Defer(extra, C(0))>> \o m, Ret(G(g))), w, c)) EXCEPT
      !.new = [t \in Types |-> IF t = q THEN work ELSE n],
      !.fieldInit = [t \in Types |-> IF t = k THEN NoFunction ELSE i],
      !.globalInit = gi] :
     m \in SeqOf(MakeMenu, 3),
     w \in {One(<<Make(L(x), o)>>, Ret(C(0)))},
     c \in {One(<<Use(G(h), L(p))>>, Ret(C(0))), One(<<Fail>>, Ret(C(0)))},
     n \in {NoFunction, clean},
     i \in {NoFunction, clean},
     gi \in {NoFunction, clean}}

-----------------------------------------------------------------------------
(* The test runner: specs that are objects or classes; a constructor that fails
   the first time it runs and succeeds once g is set. *)

FailOnce ==
  <<B(<<>>, If(G(g), 1, 3, 2)), B(<<Use(G(g), C(1)), Fail>>, Ret(C(0))), B(<<>>, Ret(C(0)))>>

SpecPrograms ==
  {[Run([Blank EXCEPT ![work] = w, ![clean] = c]) EXCEPT
      !.mode = "test", !.specs = s, !.globalInit = gi,
      !.new = [t \in Types |-> n]] :
     s \in SeqOf({[type |-> t, it |-> f] : t \in {o, k}, f \in {work, extra}}, 3),
     w \in {FailOnce, One(<<Make(G(h), o)>>, Ret(C(0)))},
     c \in {FailOnce, One(<<Fail>>, Ret(C(0)))},
     n \in {NoFunction, clean},
     gi \in {NoFunction, clean}}

SingletonPrograms == ObjectPrograms \cup SpecPrograms

MCPrograms == SingletonPrograms \cup CleanupPrograms

-----------------------------------------------------------------------------
(* o's constructor calls work, which reads o while g is still unset. *)

ReentrantPrograms ==
  {[Run([Blank EXCEPT
       ![main] = One(<<Make(G(h), o)>>, Ret(G(h))),
       ![clean] = One(<<Call(NoPlace, work, C(0))>>, Ret(C(0))),
       ![work] = <<B(<<>>, If(G(g), 1, 3, 2)),
                   B(<<Use(G(g), C(1)), Make(G(h), o)>>, Ret(C(0))),
                   B(<<>>, Ret(C(0)))>>])
      EXCEPT !.new = [t \in Types |-> clean]]}

-----------------------------------------------------------------------------
(* NoReentry tells these programs apart from all the others. *)

ASSUME ProgramsDoNotReenter == \A pr \in MCPrograms : NoReentry(pr)

ASSUME ReentrantProgramsDo == \A pr \in ReentrantPrograms : ~NoReentry(pr)
=============================================================================
