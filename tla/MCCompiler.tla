----------------------------- MODULE MCCompiler -----------------------------
(* What checker, lowering and interpreter have to agree on: one behaviour     *)
(* drives a match or a let, an overloaded call, a construction, the           *)
(* statements around type tests, a program of several files, or a value       *)
(* assigned to variables of other types.                                      *)
EXTENDS MCPatterns, MCConstruction, Narrowing, MCModules, MCShapes

VARIABLE part   \* what this behaviour drives

MCInstances == [Any |-> {"dog", "cat"}, Dog |-> {"dog"}, Cat |-> {"cat"}]

Reading == [op |-> "reads", depth |-> 0]
Unknown == [op |-> "opaque", depth |-> 0]
Test(T) == [op |-> "is", type |-> T, depth |-> 0]
Not(c) == [op |-> "not", of |-> c, depth |-> c.depth + 1]
Compound(how, c, d) ==
  [op |-> how, left |-> c, right |-> d, depth |-> 1 + IF c.depth < d.depth THEN d.depth ELSE c.depth]

Atoms == {Test("Dog"), Test("Cat"), Reading}
Negations == {Not(c) : c \in Atoms}
Simplest == Atoms \cup Negations
Compounds == {Compound(how, c, d) : how \in {"and", "or"}, c, d \in Simplest}
SomeNegated == {Not(Compound(how, c, Test("Cat"))) : how \in {"and", "or"}, c \in Simplest}
Tests == Simplest \cup Compounds \cup SomeNegated
FewTests == {Test("Dog"), Not(Test("Dog")), Compound("or", Not(Test("Dog")), Unknown)}

Do(what) == [do |-> what, depth |-> 0]
LeavingMatch(complete) ==
  [do |-> "match", bodies |-> <<<<Do("return")>>, <<Do("reads"), Do("return")>>>>,
   complete |-> complete, depth |-> 1]
\* In these bodies what follows the first statement of a block only reads.
DepthOf(block) == IF block = << >> THEN 0 ELSE Head(block).depth
IfThen(c, then, else) ==
  [do |-> "if", condition |-> c, then |-> then, else |-> else,
   depth |-> 1 + DepthOf(then) + DepthOf(else)]
Loop(c, body) == [do |-> "while", condition |-> c, body |-> body, depth |-> 1 + DepthOf(body)]

SimpleStmts == {Do("return"), LeavingMatch(TRUE), LeavingMatch(FALSE)}
LeavingLoop == {Do("break"), Do("continue")}
Simple == {<< >>} \cup {<<stmt>> : stmt \in SimpleStmts}
InLoop == Simple \cup {<<stmt>> : stmt \in LeavingLoop}
Nested(blocks) == {IfThen(c, then, else) : c \in FewTests, then, else \in blocks}

Tested1 == {IfThen(c, then, else) : c \in Tests, then, else \in Simple}
Tested2 == {IfThen(c, <<stmt>>, else) : c \in FewTests, stmt \in Nested(Simple), else \in Simple}
Loops1 == {Loop(c, <<stmt>>) : c \in {Test("Dog"), Unknown}, stmt \in Nested(InLoop)}
Loops2 == {Loop(c, <<IfThen(d, t, << >>), Do("reads")>>) : c \in Tests, d \in FewTests, t \in InLoop}
Flows == Loops1 \cup (Tested2 \cup (Tested1 \cup Loops2))
MCBodies == {<<stmt, Do("reads")>> : stmt \in Flows}

MCStatements == Flows \cup (Nested(Simple) \cup SimpleStmts \cup {Do("reads")})
MCLoopStatements == Nested(InLoop) \cup SimpleStmts \cup LeavingLoop \cup {Do("reads")}
MCConditions == Tests \cup FewTests \cup {Unknown}

MCInit ==
  /\ part \in {"patterns", "overloads", "construction", "narrowing", "modules", "shapes"}
  /\ IF part = "patterns" THEN PatternsInit ELSE PatternsIdle
  /\ IF part = "overloads" THEN OverloadsInit ELSE OverloadsIdle
  /\ IF part = "construction" THEN MCConstructionInit ELSE ConstructionIdle
  /\ IF part = "narrowing" THEN NarrowingInit ELSE NarrowingIdle
  /\ IF part = "modules" THEN ModulesInit ELSE ModulesIdle
  /\ IF part = "shapes" THEN ShapesInit ELSE ShapesIdle

NarrowingEnds == scopes = << >> /\ UNCHANGED narrowingVars

MCNext ==
  /\ UNCHANGED part
  /\ \/ /\ part = "patterns" /\ (PatternsNext \/ PatternsStop)
        /\ UNCHANGED <<overloadVars, constructionVars, narrowingVars, moduleVars, shapeVars>>
     \/ /\ part = "overloads" /\ (OverloadsNext \/ OverloadsEnd)
        /\ UNCHANGED <<patternVars, constructionVars, narrowingVars, moduleVars, shapeVars>>
     \/ /\ part = "construction" /\ (ConstructionNext \/ ConstructionEnds)
        /\ UNCHANGED <<patternVars, overloadVars, narrowingVars, moduleVars, shapeVars>>
     \/ /\ part = "narrowing" /\ (NarrowingNext \/ NarrowingEnds)
        /\ UNCHANGED <<patternVars, overloadVars, constructionVars, moduleVars, shapeVars>>
     \/ /\ part = "modules" /\ (ModulesNext \/ ModulesEnd)
        /\ UNCHANGED <<patternVars, overloadVars, constructionVars, narrowingVars, shapeVars>>
     \/ /\ part = "shapes" /\ (ShapesNext \/ ShapesEnd)
        /\ UNCHANGED <<patternVars, overloadVars, constructionVars, narrowingVars, moduleVars>>

CompilerTypeOK ==
  PatternsTypeOK /\ OverloadsTypeOK /\ ConstructionTypeOK /\ NarrowingTypeOK /\ ModulesTypeOK /\ ShapesTypeOK

MCSpec == MCInit /\ [][MCNext]_<<part, patternVars, overloadVars, constructionVars, narrowingVars, moduleVars, shapeVars>>
=============================================================================
