--------------------------- MODULE MCConstruction ---------------------------
(* Small methods, calls, classes and constructions for Overloads and          *)
(* Construction.                                                              *)
EXTENDS Construction

MCTypeOf == [i0 |-> "Int", i1 |-> "Int", i2 |-> "Int", s0 |-> "Str", s1 |-> "Str", s2 |-> "Str"]
MCDefault == [Int |-> "i0", Str |-> "s0", Any |-> "s0"]
MCComputed == [Int |-> "i2", Str |-> "s2"]

Param(n, T, form) ==
  [name |-> n, type |-> T, default |-> IF form = "default" THEN MCDefault[T] ELSE "",
   variadic |-> form = "variadic"]
Forms == {"plain", "default", "variadic"}

One == {<<Param("a", T, form)>> : T \in {"Int", "Str", "Any"}, form \in Forms}
Two == {<<Param(n[1], T[1], "plain"), Param(n[2], T[2], form)>> :
          n \in {<<"a", "b">>, <<"b", "a">>}, form \in Forms,
          T \in {<<"Int", "Int">>, <<"Int", "Str">>, <<"Str", "Int">>, <<"Any", "Any">>}}
MCSignatures == One \cup Two

(* Two parameters before a variadic one: what the lowering lays out for one
   overload may then suit neither of two. *)
Three == {<<Param(n[1], T[1], "plain"), Param(n[2], T[2], form), Param("c", T[2], "variadic")>> :
            n \in {<<"a", "b">>, <<"b", "a">>}, form \in {"plain", "default"},
            T \in {<<"Int", "Int">>, <<"Int", "Str">>, <<"Str", "Int">>, <<"Str", "Str">>}}

Methods1 == {<<f>> : f \in MCSignatures}
Methods2 == {<<f, g>> : f, g \in MCSignatures}
Methods3 == {<<f, g>> : f, g \in Three}
MCMethods == Methods1 \cup (Methods3 \cup Methods2)

(* An argument of static type Any holds an Int. *)
Arg(n) == {[name |-> n, type |-> t[1], value |-> t[2]] :
             t \in {<<"Int", "i1">>, <<"Str", "s1">>, <<"Any", "i1">>}}
Positional == {<< >>} \cup {<<p>> : p \in Arg("")} \cup {<<p, q>> : p, q \in Arg("")}
NamedOne == {<<p>> : p \in Arg("a") \cup Arg("b")}
NamedLast == {<<p, q>> : p \in Arg(""), q \in Arg("a") \cup Arg("b")}
NamedBoth == {<<p, q>> : p \in Arg("a"), q \in Arg("b")} \cup {<<p, q>> : p \in Arg("b"), q \in Arg("a")}
MCConstructions == Positional \cup NamedOne \cup NamedLast \cup NamedBoth
MCCalls == MCConstructions \ {<< >>}

(* An overload for Str and one for Any, and a call with an Int. *)
MCRivals == {<<<<Param("a", "Str", "plain")>>, <<Param("a", "Any", "plain")>>>>}
MCIntCall == {<<[name |-> "", type |-> "Int", value |-> "i1"]>>}

Field(n, T, initial, public) == [name |-> n, type |-> T, initial |-> initial, public |-> public]

MCImplicit ==
  {[fields |-> <<Field("a", "Int", i, p), Field("b", T, j, q)>>, constructors |-> << >>] :
     i, j \in {"none", "constant", "computed"}, T \in {"Int", "Str"}, p, q \in BOOLEAN}

Set(f, from) == [do |-> "assign", field |-> f, from |-> from]
MayReturnHere == [do |-> "mayReturn"]
Yield == [do |-> "yield"]

MCSigs == {<< >>, <<Param("a", "Int", "plain")>>, <<Param("a", "Int", "default")>>,
          <<Param("a", "Str", "plain")>>, <<Param("a", "Any", "plain")>>,
          <<Param("a", "Int", "plain"), Param("b", "Int", "plain")>>}
TakesInt(sig) == \E p \in Range(sig) : p.name = "a" /\ p.type = "Int"

BlocksOf(sig) ==
  {<<Set("a", "i1")>>} \cup
  (IF TakesInt(sig)
   THEN {<<Set("a", "a")>>, <<Set("a", "a"), Yield>>, <<Set("b", "i1"), Set("a", "a")>>,
         <<MayReturnHere, Set("a", "a")>>}
   ELSE {})

Literal(v) == [name |-> "", type |-> MCTypeOf[v], value |-> v]
ThisOf(sig) ==
  {<< >>, <<Literal("i1")>>, <<Literal("s1")>>, <<Literal("i1"), Literal("i2")>>} \cup
  (IF TakesInt(sig) THEN {<<[name |-> "", type |-> "Int", value |-> "a"]>>} ELSE {})

Building == UNION {{[sig |-> s, block |-> b] : b \in BlocksOf(s)} : s \in MCSigs}
Delegating == UNION {{[sig |-> s, this |-> t] : t \in ThisOf(s)} : s \in MCSigs}

(* Three constructors, two of which may delegate to each other. *)
Chain(t, u, b) ==
  <<[sig |-> << >>, this |-> t], [sig |-> <<Param("a", "Int", "plain")>>, this |-> u],
    [sig |-> <<Param("a", "Str", "plain")>>, block |-> b]>>
Chains ==
  {Chain(t, u, b) : t, u \in {<<Literal("i1")>>, <<Literal("s1")>>, << >>},
                    b \in {<<Set("a", "i1")>>, <<Set("b", "i1"), Set("a", "i2")>>}}

TwoFields == <<Field("a", "Int", "none", TRUE), Field("b", "Int", "computed", FALSE)>>

Constructors1 == {<<c>> : c \in Building}
Constructors2 == {<<c, d>> : c \in Building, d \in Delegating}
MCExplicit ==
  {[fields |-> TwoFields, constructors |-> cs] : cs \in Constructors1 \cup (Chains \cup Constructors2)}

MCClassDecls == MCImplicit \cup MCExplicit

(* Several constructors are called by position. *)
MCConstructionInit ==
  ConstructionInit /\ (Len(class.constructors) > 1 => construction \in Positional)

OverloadsEnd == stage \in {"refused", "ran", "stuck"} /\ UNCHANGED overloadVars
ConstructionEnds == phase \in {"refused", "done", "stuck"} /\ UNCHANGED constructionVars

OverloadedSpec ==
  /\ OverloadsInit /\ ConstructionIdle
  /\ [][(OverloadsNext \/ OverloadsEnd) /\ UNCHANGED constructionVars]_<<overloadVars, constructionVars>>

ConstructionSpec ==
  /\ OverloadsIdle /\ MCConstructionInit
  /\ [][(ConstructionNext \/ ConstructionEnds) /\ UNCHANGED overloadVars]_<<overloadVars, constructionVars>>
=============================================================================
