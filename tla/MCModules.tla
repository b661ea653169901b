------------------------------ MODULE MCModules ------------------------------
(* Programs of a root "app" and the files "lib" and "util", which use each    *)
(* other in every form.                                                       *)
EXTENDS Modules

Whole(path, as) == [path |-> path, form |-> "module", as |-> as, symbols |-> {}]
All(path) == [path |-> path, form |-> "wildcard", as |-> "", symbols |-> {}]
Named(path, symbols) == [path |-> path, form |-> "symbols", as |-> "", symbols |-> symbols]
Renamed(name, local) == [name |-> name, as |-> local]

LiteralBody == [op |-> "literal"]
Read(path) == [op |-> "read", path |-> path]
Call(path) == [op |-> "call", path |-> path]
Function(name, visibility, param, body) ==
  [kind |-> "function", name |-> name, visibility |-> visibility, param |-> param, body |-> body]
Global(name, visibility, body) ==
  [kind |-> "global", name |-> name, visibility |-> visibility, param |-> "", body |-> body]
File(module, uses, items) == [module |-> module, uses |-> uses, items |-> items]
Program(app, lib, util) ==
  [root |-> "app", files |-> [app |-> app, lib |-> lib, util |-> util]]

(* How the root uses the others, with what it may then refer to. *)
Wired(uses, entries) == {[uses |-> uses, entry |-> entry] : entry \in entries}
Wirings == UNION {
  Wired(<<Whole("lib", "lib")>>, {Call(<<"lib", "f">>), Call(<<"lib", "g">>), Read(<<"lib", "m">>)}),
  Wired(<<Whole("lib", "a"), Whole("lib", "lib")>>, {Call(<<"a", "f">>)}),
  Wired(<<All("lib")>>, {Call(<<"f">>), Call(<<"g">>), Read(<<"m">>), Read(<<"f">>)}),
  Wired(<<Named("lib", {Renamed("f", "h")})>>, {Call(<<"h">>), Call(<<"f">>)}),
  Wired(<<Named("lib", {Renamed("f", "g"), Renamed("g", "f")})>>, {Call(<<"g">>)}),
  Wired(<<All("util"), Whole("lib", "lib")>>, {Call(<<"f">>), Call(<<"lib", "f">>), Read(<<"n">>)}),
  Wired(<<Whole("lib", "lib"), Named("util", {Renamed("f", "g")})>>, {Call(<<"g">>), Call(<<"lib", "g">>)})}
Misused == UNION {
  Wired(<<All("util"), All("lib")>>, {Call(<<"f">>)}),
  Wired(<<Whole("lib", "a"), Whole("util", "a")>>, {Call(<<"a", "f">>)}),
  Wired(<<Whole("lib", "lib"), Named("lib", {Renamed("f", "lib")})>>, {Call(<<"lib", "f">>)})}

LibUses == {<< >>, <<Whole("util", "util")>>, <<All("util")>>, <<Named("util", {Renamed("f", "g")})>>}
UtilUses == {<< >>, <<All("lib")>>, <<Whole("app", "app")>>}

(* What the root declares besides main. *)
Others ==
  {<< >>}
  \cup {<<Global("k", "private", init), Function("f", "private", "", Read(<<"k">>))>> :
          init \in {LiteralBody, Call(<<"g">>), Call(<<"lib", "f">>)}}
  \cup {<<Function("f", "private", "", Call(<<"g">>)), Function("g", "private", "m", Read(<<"m">>))>>,
         <<Function("f", "private", "g", Call(<<"g">>))>>, <<Function("f", "private", "h", Read(<<"h">>))>>}
App(wiring, others) ==
  File("app", wiring.uses, Append(others, Function("main", "private", "", wiring.entry)))

LibItems ==
  {<<Global(k, v, init), Function("f", "public", "", body), Function("g", v, "", Read(<<"m">>)),
     Global("m", "public", LiteralBody)>> :
     k \in {"k", "j"}, v \in {"private", "public"}, init \in {LiteralBody, Call(<<"g">>)},
     body \in {Read(<<"k">>), Read(<<"j">>), Call(<<"g">>), Call(<<"util", "f">>)}}
FewLibItems ==
  {<<Global("j", "public", init), Function("f", v, "", Call(<<"g">>)), Function("g", "public", "", LiteralBody)>> :
     init \in {Call(<<"f">>), Call(<<"util", "f">>), Read(<<"n">>), Call(<<"f2">>)}, v \in {"internal", "public"}}

Lib == {File("lib", <<Whole("util", "util")>>, items) : items \in LibItems}
FewLib == {File(module, uses, items) : module \in {"lib", "app"}, uses \in LibUses, items \in FewLibItems}
Util(uses) ==
  File("util", uses, <<Global("n", "public", LiteralBody), Function("f", "public", "", Read(<<"n">>)),
                       Function("main", "public", "", LiteralBody)>>)

WiredPrograms ==
  {Program(App(wiring, others), lib, Util(<< >>)) :
     wiring \in Wirings \cup Misused, others \in Others, lib \in Lib}
LinkedPrograms ==
  {Program(App(wiring, << >>), lib, Util(uses)) : wiring \in Wirings, lib \in FewLib, uses \in UtilUses}
MCPrograms == LinkedPrograms \cup WiredPrograms

(* A root and a module each with a global of one name, the module's private. *)
MCSameName ==
  {Program(File("app", <<Whole("lib", "lib")>>,
                <<Global("k", v, LiteralBody), Function("main", "private", "", Call(<<"lib", "f">>))>>),
           File("lib", << >>, <<Global("k", "private", LiteralBody), Function("f", "public", "", Read(<<"k">>))>>),
           File("util", << >>, << >>)) : v \in {"private", "internal", "public"}}

MCModulesSpec == ModulesInit /\ [][ModulesNext \/ ModulesEnd]_moduleVars
=============================================================================
