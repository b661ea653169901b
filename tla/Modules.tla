------------------------------- MODULE Modules -------------------------------
(***************************************************************************)
(* A program of several files: the files are loaded along their `use`      *)
(* lines into a graph and every name is resolved (resolver.rs), the files  *)
(* are merged into one program whose references are rewritten             *)
(* (interpreter.rs), the merged items are declared by bare name (lower.rs), *)
(* and the globals are initialised before main runs.                       *)
(*                                                                         *)
(* A file is [module, uses, items].  An item is a function or a global     *)
(* [kind, name, visibility, param, body], and its body, or the global's    *)
(* initialiser, is one literal or one reference, a read or a call of a     *)
(* name or of a member of a module: chains of references are chains of     *)
(* items.  A use is [path, form, as, symbols], its form "module" or        *)
(* "symbols" or "wildcard".  Types, objects, extensions and libraries are  *)
(* left out, as are several declarations of one name in a file, which the  *)
(* resolver refuses.                                                       *)
(***************************************************************************)
EXTENDS Integers, FiniteSets, SequencesExt

CONSTANTS
  Programs   \* the programs: [root |-> a file, files |-> path -> file]

VARIABLES
  program,
  progress,      \* "idle", "loading", "loaded", "refused", "running", "done" or "lost"
  loading,    \* the files being loaded, the innermost last
  graph,      \* the files loaded: path -> what their names import
  merged,     \* the items of the merged program
  ready,      \* the globals that are initialised, as positions in merged
  running,    \* what is evaluated: for which global or main, and in which item
  met         \* the reference evaluated last and what it turned out to be

moduleVars == <<program, progress, loading, graph, merged, ready, running, met>>

Items(file) == program.files[file].items
Root == program.root
Decl(file, kind, name) == [file |-> file, kind |-> kind, name |-> name]
FirstOf(sets) == LET some == SelectSeq(sets, LAMBDA s : s # {})
                 IN IF some = << >> THEN {} ELSE Head(some)
Nothing == "nothing"

----------------------------------------------------------------------------
(* Loading *)

VisibilityIsImportable(item, same) ==
  item.visibility = "public" \/ (item.visibility = "internal" /\ same)

SameModule(file, child) ==
  program.files[file].module = program.files[child].module /\ program.files[file].module # ""

(* What a file lets another one name: of a function and a global of one name
   the function. *)
Exported(child, same, name) ==
  LET declared(kind) == {Decl(child, kind, name) :
        i \in {item \in Range(Items(child)) :
                 item.kind = kind /\ item.name = name /\ VisibilityIsImportable(item, same)}}
  IN FirstOf(<<declared("function"), declared("global")>>)

Frame(file) ==
  [file |-> file, at |-> 1, imports |-> << >>, symbols |-> << >>, dependencies |-> << >>]

Loader == Last(loading)
Use == program.files[Loader.file].uses[Loader.at]
HasUse == Loader.at <= Len(program.files[Loader.file].uses)

(* The names a use brings in: local name and declaration.  A symbol that the
   child does not have is looked for under its alias. *)
Symbols ==
  LET same == SameModule(Loader.file, Use.path) IN
  IF Use.form = "wildcard"
  THEN {[name |-> item.name, as |-> item.name] :
          item \in {i \in Range(Items(Use.path)) : VisibilityIsImportable(i, same)}}
  ELSE Use.symbols

ResolvedSymbol(symbol) ==
  LET same == SameModule(Loader.file, Use.path)
  IN FirstOf(<<Exported(Use.path, same, symbol.name), Exported(Use.path, same, symbol.as)>>)

Locals == {symbol.as : symbol \in Symbols}
Meanings(local) ==
  UNION {ResolvedSymbol(symbol) : symbol \in {s \in Symbols : s.as = local}}
    \cup (IF local \in DOMAIN Loader.symbols THEN {Loader.symbols[local]} ELSE {})

UseIsLegal ==
  IF Use.form = "module"
  THEN /\ Use.as \in DOMAIN Loader.imports => Loader.imports[Use.as] = Use.path
       /\ Use.as \notin DOMAIN Loader.symbols
       /\ program.files[Use.path].module \in {"", Use.path}
  ELSE \A symbol \in Symbols :
         /\ ResolvedSymbol(symbol) # {}
         /\ symbol.as \notin DOMAIN Loader.imports
         /\ Cardinality(Meanings(symbol.as)) = 1

Installed ==
  LET frame == [Loader EXCEPT !.at = @ + 1,
                  !.dependencies = IF Contains(@, Use.path) THEN @ ELSE Append(@, Use.path)]
  IN IF Use.form = "module"
     THEN [frame EXCEPT !.imports = (Use.as :> Use.path) @@ @]
     ELSE [frame EXCEPT !.symbols = [l \in Locals |-> CHOOSE d \in Meanings(l) : TRUE] @@ @]

NothingRuns == UNCHANGED <<program, merged, ready, running, met>>

LoadUsed ==
  /\ progress = "loading" /\ HasUse
  /\ Use.path \notin DOMAIN graph /\ ~(\E frame \in Range(loading) : frame.file = Use.path)
  /\ loading' = Append(loading, Frame(Use.path))
  /\ UNCHANGED <<progress, graph>> /\ NothingRuns

UseCycle ==
  /\ progress = "loading" /\ HasUse
  /\ Use.path \notin DOMAIN graph /\ \E frame \in Range(loading) : frame.file = Use.path
  /\ progress' = "refused"
  /\ UNCHANGED <<loading, graph>> /\ NothingRuns

InstallUse ==
  /\ progress = "loading" /\ HasUse /\ Use.path \in DOMAIN graph
  /\ IF UseIsLegal
     THEN loading' = Append(Front(loading), Installed) /\ UNCHANGED progress
     ELSE progress' = "refused" /\ UNCHANGED loading
  /\ UNCHANGED graph /\ NothingRuns

FinishFile ==
  /\ progress = "loading" /\ ~HasUse
  /\ graph' = (Loader.file :> Loader) @@ graph
  /\ loading' = Front(loading)
  /\ progress' = IF Len(loading) = 1 THEN "loaded" ELSE "loading"
  /\ NothingRuns

----------------------------------------------------------------------------
(* Resolving names *)

(* The files of the program, each behind those it uses. *)
RECURSIVE CollectModuleOrder(_, _)
CollectModuleOrder(file, out) ==
  IF Contains(out, file) THEN out
  ELSE Append(FoldLeft(LAMBDA acc, dependency : CollectModuleOrder(dependency, acc),
                       out, graph[file].dependencies),
              file)

(* A name in the k-th item of a file: its parameter, a global, which an
   initialiser sees only when it is declared in front, an imported global, a
   function, an imported function. *)
IdentifierDefinition(file, k, name) ==
  LET own(kind) == {Decl(file, kind, name) : j \in
        {i \in DOMAIN Items(file) :
           /\ Items(file)[i].kind = kind /\ Items(file)[i].name = name
           /\ kind = "global" /\ Items(file)[k].kind = "global" => i < k}}
      imported(kind) == {graph[file].symbols[l] :
        l \in {n \in DOMAIN graph[file].symbols : n = name /\ graph[file].symbols[n].kind = kind}}
      parameter == IF Items(file)[k].param = name THEN {Decl(file, "parameter", name)} ELSE {}
  IN FirstOf(<<parameter, own("global"), imported("global"), own("function"), imported("function")>>)

ModuleMemberDefinition(file, path) ==
  IF path[1] \in DOMAIN graph[file].imports
  THEN LET child == graph[file].imports[path[1]]
       IN Exported(child, SameModule(file, child), path[2])
  ELSE {}

Definition(file, k, path) ==
  IF Len(path) = 1 THEN IdentifierDefinition(file, k, path[1])
  ELSE ModuleMemberDefinition(file, path)

IsReference(body) == body.op \in {"read", "call"}

Resolves ==
  \A file \in DOMAIN graph : \A k \in DOMAIN Items(file) :
    IsReference(Items(file)[k].body) => Definition(file, k, Items(file)[k].body.path) # {}

----------------------------------------------------------------------------
(* Merging *)

Order == CollectModuleOrder(Root, << >>)
Owners(name) ==
  {file \in DOMAIN graph : name # "main" /\
     \E item \in Range(Items(file)) : item.kind = "function" /\ item.name = name}

\* Mutant: only a name that the root declares too is renamed.
RenamedForTheRoot(file, name) ==
  IF file # Root /\ Root \in Owners(name)
  THEN <<CHOOSE n \in DOMAIN Order : Order[n] = file, name>>
  ELSE <<0, name>>

(* Names of the merged program are <<n, name>>, n the number of the module
   whose function was renamed, or 0. *)
RuntimeFunctionName(file, name) ==
  IF file # Root /\ Cardinality(Owners(name)) > 1
  THEN <<CHOOSE n \in DOMAIN Order : Order[n] = file, name>>
  ELSE <<0, name>>

RewrittenPathSegments(file, path) ==
  IF path[1] \in DOMAIN graph[file].symbols
  THEN <<graph[file].symbols[path[1]].name>> \o Tail(path)
  ELSE IF path[1] \in DOMAIN graph[file].imports /\ Len(path) > 1 THEN Tail(path)
  ELSE path

(* A reference to a renamed function takes the new name.  Any other one is
   rewritten by its text, whatever it was resolved to, and that of a call
   twice. *)
RewriteForRuntime(file, k, body) ==
  LET target == Definition(file, k, body.path)
      renamed == {RuntimeFunctionName(d.file, d.name) :
                    d \in {t \in target : t.kind = "function"}} \ {<<0, d.name>> : d \in target}
      once == RewrittenPathSegments(file, body.path)
      path == IF body.op = "call" THEN RewrittenPathSegments(file, once) ELSE once
  IN IF renamed # {} THEN CHOOSE name \in renamed : TRUE ELSE <<0, Last(path)>>

PrepareRuntimeItem(file, k) ==
  LET item == Items(file)[k] IN
  [decl |-> Decl(file, item.kind, item.name), at |-> k, kind |-> item.kind,
   name |-> IF item.kind = "function" THEN RuntimeFunctionName(file, item.name) ELSE <<0, item.name>>,
   param |-> item.param, op |-> item.body.op,
   refers |-> IF IsReference(item.body) THEN RewriteForRuntime(file, k, item.body) ELSE <<0, "">>]

PrepareRuntimeModule(file) ==
  SelectSeq([k \in DOMAIN Items(file) |-> PrepareRuntimeItem(file, k)],
            LAMBDA item : file = Root \/ item.decl.name # "main" \/ item.kind # "function")

\* Mutant: the files in the order in which they are reached from the root.
MergedUsersFirst ==
  FlattenSeq([n \in DOMAIN Order |-> PrepareRuntimeModule(Order[Len(Order) + 1 - n])])

(* The root comes first, although it uses the others. *)
MergedRuntimeProgram ==
  FlattenSeq(<<PrepareRuntimeModule(Root)>>
               \o [n \in 1..(Len(Order) - 1) |-> PrepareRuntimeModule(Order[n])])

MergeFiles ==
  /\ progress = "loaded"
  /\ IF Resolves THEN progress' = "running" /\ merged' = MergedRuntimeProgram
     ELSE progress' = "refused" /\ UNCHANGED merged
  /\ UNCHANGED <<program, loading, graph, ready, running, met>>

----------------------------------------------------------------------------
(* Running: of several items of one kind and name the first is declared, and
   only its initialiser is run. *)

FirstDeclared(kind, name) ==
  LET named == {i \in DOMAIN merged : merged[i].kind = kind /\ merged[i].name = name}
  IN IF named = {} THEN {} ELSE {Min(named)}

GlobalIds == {i \in DOMAIN merged : merged[i].kind = "global" /\ i \in FirstDeclared("global", merged[i].name)}
Main == CHOOSE i \in DOMAIN merged : merged[i].decl = Decl(Root, "function", "main")

Idle == [goal |-> 0, item |-> 0]

InitializeGlobal ==
  /\ progress = "running" /\ running = Idle /\ ready # GlobalIds
  /\ running' = [goal |-> Min(GlobalIds \ ready), item |-> Min(GlobalIds \ ready)]
  /\ UNCHANGED <<program, progress, loading, graph, merged, ready, met>>

EnterMain ==
  /\ progress = "running" /\ running = Idle /\ ready = GlobalIds
  /\ running' = [goal |-> Main, item |-> Main]
  /\ UNCHANGED <<program, progress, loading, graph, merged, ready, met>>

(* Where a reference leads: a read to the parameter, a global or a function, a
   call to a function, and only then to a value that may be called. *)
LowerReference(item) ==
  LET parameter == IF <<0, item.param>> = item.refers THEN {0} ELSE {}
      global == FirstDeclared("global", item.refers)
      function == FirstDeclared("function", item.refers)
  IN IF item.op = "read" THEN FirstOf(<<parameter, global, function>>)
     ELSE FirstOf(<<function, parameter, global>>)

Finished ==
  /\ running' = Idle
  /\ IF running.goal = Main THEN progress' = "done" /\ UNCHANGED ready
     ELSE ready' = ready \cup {running.goal} /\ UNCHANGED progress

Evaluate ==
  /\ progress = "running" /\ running # Idle
  /\ LET item == merged[running.item]
         target == LowerReference(item)
     IN IF item.op = "literal" THEN Finished /\ UNCHANGED met
        ELSE IF target = {} THEN progress' = "lost" /\ UNCHANGED <<running, ready, met>>
        ELSE \E t \in target :
               /\ met' = [goal |-> running.goal, item |-> running.item, target |-> t]
               /\ IF t # 0 /\ item.op = "call" /\ merged[t].kind = "function"
                  THEN running' = [running EXCEPT !.item = t] /\ UNCHANGED <<progress, ready>>
                  ELSE Finished
  /\ UNCHANGED <<program, loading, graph, merged>>

----------------------------------------------------------------------------

NoProgram == [root |-> "", files |-> << >>]

ModulesIdle ==
  /\ program = NoProgram /\ progress = "idle" /\ loading = << >> /\ graph = << >>
  /\ merged = << >> /\ ready = {} /\ running = Idle /\ met = Idle

ModulesInit ==
  /\ program \in Programs /\ progress = "loading" /\ loading = <<Frame(program.root)>>
  /\ graph = << >> /\ merged = << >> /\ ready = {} /\ running = Idle /\ met = Idle

ModulesNext ==
  \/ LoadUsed \/ UseCycle \/ InstallUse \/ FinishFile \/ MergeFiles
  \/ InitializeGlobal \/ EnterMain \/ Evaluate

ModulesEnd == progress \in {"done", "refused", "lost"} /\ UNCHANGED moduleVars

----------------------------------------------------------------------------

ModulesTypeOK ==
  /\ progress \in {"idle", "loading", "loaded", "refused", "running", "done", "lost"}
  /\ \A i, j \in DOMAIN loading : i # j => loading[i].file # loading[j].file
  /\ \A frame \in Range(loading) :
       frame.file \notin DOMAIN graph /\ Range(frame.dependencies) \subseteq DOMAIN graph
  /\ \A file \in DOMAIN graph : Range(graph[file].dependencies) \subseteq DOMAIN graph
  /\ ready \subseteq GlobalIds
  /\ {running.goal, running.item, met.item} \subseteq (DOMAIN merged \cup {0})

Declares(file, name) == \E item \in Range(Items(file)) : item.name = name

(* syntax.md:6030 `private` top-level declarations are local to their source
   file: what a reference reads or calls at run time is what its name means in
   its own file, and is declared there or visible from there. *)
MeaningKept ==
  met # Idle =>
    LET from == merged[met.item]
        target == IF met.target = 0 THEN Decl(from.decl.file, "parameter", from.refers[2])
                  ELSE merged[met.target].decl
    IN /\ target \in Definition(from.decl.file, from.at, Items(from.decl.file)[from.at].body.path)
       /\ \/ target.file = from.decl.file
          \/ \E item \in Range(Items(target.file)) :
               /\ item.kind = target.kind /\ item.name = target.name
               /\ VisibilityIsImportable(item, SameModule(from.decl.file, target.file))

(* The programs in which names that the merged program tells apart by nothing
   else mean one thing: a global shares its name with no item of another file,
   a parameter with no function, and a name that an import gives to something
   of another name is neither declared in the file nor what an import of it
   stands for. *)
Aliased(file) ==
  {local \in DOMAIN graph[file].symbols : graph[file].symbols[local].name # local}

Separate ==
  \A file \in DOMAIN graph :
    /\ \A item \in Range(Items(file)) :
         /\ item.name \notin Aliased(file) /\ item.param \notin Aliased(file)
         /\ \A other \in DOMAIN graph :
              /\ item.kind = "global" /\ other # file => ~Declares(other, item.name)
              /\ Owners(item.param) = {}
    /\ \A local \in DOMAIN graph[file].symbols : graph[file].symbols[local].name \notin Aliased(file)
    /\ \A alias \in DOMAIN graph[file].imports : \A local \in Aliased(file) :
         ~Declares(graph[file].imports[alias], local)

(* In such programs a reference finds at run time what the resolver resolved
   it to, functions of one name in several files, whoever imports them and
   how, included, and every reference finds something. *)
ReferencesKeepTheirMeaning == Separate => progress # "lost" /\ MeaningKept

(* No global is read before it is initialised, but by the initialiser of one
   in front of it in its own file, through a function, and by initialisers of
   the root: a file finds the globals of the files it uses initialised. *)
InitialisedBeforeRead ==
  met # Idle /\ met.target # 0 =>
    LET read == merged[met.target]
        goal == merged[met.goal].decl.file
    IN read.kind = "global" /\ met.target \notin ready =>
         \/ goal = Root /\ read.decl.file # Root
         \/ goal = read.decl.file /\ met.goal <= met.target
=============================================================================
