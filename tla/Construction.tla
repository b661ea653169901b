---------------------------- MODULE Construction -----------------------------
(***************************************************************************)
(* Constructing an instance of a class, with or without constructors of    *)
(* its own: what the type checker accepts (typecheck.rs), how the lowering *)
(* lays the construction fields out (lower.rs), and how the interpreter    *)
(* runs field initialisers and constructors, of which one may delegate to  *)
(* another with `this(...)` (interpreter.rs).  Constructors are overloads  *)
(* and selected as module Overloads says.                                  *)
(*                                                                         *)
(* A class is [fields, constructors].  A field is [name, type, initial,     *)
(* public], its initialiser "none", "constant" or "computed".  A constructor *)
(* is [sig, block] with statements, or [sig, this], the arguments it       *)
(* delegates with.  Generic classes, shapes, `new` of private or internal  *)
(* visibility and constructors of mixins are left out.                     *)
(***************************************************************************)
EXTENDS Overloads

CONSTANTS
  ClassDecls,       \* the classes
  Constructions,    \* the arguments of the constructions, as calls
  ConstantOf,       \* type -> what a constant initialiser or a default yields
  ComputedOf,       \* type -> what a computed initialiser yields
  StackDepth        \* Bound: the constructors the stack holds

VARIABLES
  class, construction,
  phase,       \* "idle", "written", "refused", "accepted", "running", "done" or "stuck"
  instances,   \* the instances made so far: field -> value
  frames       \* the constructors under way, the innermost last

constructionVars == <<class, construction, phase, instances, frames>>

Unset == "unset"       \* the default value of a field's type
Elsewhere == "elsewhere"   \* what the fields of another instance hold

----------------------------------------------------------------------------
(* The class and the checks on it *)

FieldNames == {field.name : field \in Range(class.fields)}
Constructors == class.constructors
Sigs == [k \in DOMAIN Constructors |-> Constructors[k].sig]
Delegates(k) == "this" \in DOMAIN Constructors[k]

PublicFields == SelectSeq(class.fields, LAMBDA field : field.public)

(* The contract of a class without constructors: its public fields, those
   with an initialiser optional. *)
FieldContract ==
  [k \in DOMAIN PublicFields |->
     [name |-> PublicFields[k].name, type |-> PublicFields[k].type, variadic |-> FALSE,
      default |-> IF PublicFields[k].initial = "none" THEN "" ELSE ConstantOf[PublicFields[k].type]]]

(* Assignments anywhere in the body's own statements count, also those
   behind a statement that may return. *)
ConstructorAssignedFields(k) ==
  {s.field : s \in {t \in Range(Constructors[k].block) : t.do = "assign"}}

InitializesRequiredFields(k) ==
  Delegates(k) \/ \A field \in Range(class.fields) :
                    field.initial = "none" => field.name \in ConstructorAssignedFields(k)

(* The last constructor of the highest rank, 0 for none. *)
ChooseConstructorNode(k) ==
  LET best == BestOverloadCandidates(Sigs, Constructors[k].this) IN
  IF ~Delegates(k) \/ best = {} THEN 0 ELSE Max(best)

RECURSIVE Reaches(_, _, _)
Reaches(k, goal, steps) ==
  /\ k # 0 /\ steps > 0
  /\ k = goal \/ Reaches(ChooseConstructorNode(k), goal, steps - 1)

\* Mutant: only a constructor that delegates to itself is a cycle.
DelegatesToItself == \E k \in DOMAIN Constructors : ChooseConstructorNode(k) = k

DelegationCycle ==
  \E k \in DOMAIN Constructors : Reaches(ChooseConstructorNode(k), k, Len(Constructors))

Unambiguous(call) == Cardinality(BestOverloadCandidates(Sigs, call)) = 1

ClassAccepted ==
  IF Constructors = << >>
  THEN \A field \in Range(class.fields) : field.public \/ field.initial # "none"
  ELSE /\ ~DelegationCycle
       /\ \A k \in DOMAIN Constructors :
            /\ InitializesRequiredFields(k)
            /\ Delegates(k) => Unambiguous(Constructors[k].this)

ConstructionAccepted ==
  IF Constructors = << >>
  THEN CheckScore(FieldContract, construction) # << >>
  ELSE Unambiguous(construction)

CheckClass ==
  /\ phase = "written"
  /\ phase' = IF ClassAccepted /\ ConstructionAccepted THEN "accepted" ELSE "refused"
  /\ UNCHANGED <<class, construction, instances, frames>>

----------------------------------------------------------------------------
(* Instances *)

InitialValue(field) ==
  CASE field.initial = "none" -> Unset
    [] field.initial = "constant" -> ConstantOf[field.type]
    [] field.initial = "computed" -> ComputedOf[field.type]

(* A new instance, its field initialisers run. *)
FieldInit ==
  [name \in FieldNames |->
     InitialValue(CHOOSE field \in Range(class.fields) : field.name = name)]

(* The operands of a construction without constructors.  A field that is left
   out is given its constant; when the initialiser of one is not a constant,
   nothing is filled in and the arguments close ranks. *)
LowerFieldArgs ==
  LET slots == Slots(FieldContract, construction)
      computed(k) == slots[k] = << >> /\ PublicFields[k].initial = "computed"
  IN IF \E k \in DOMAIN slots : computed(k)
     THEN [n \in DOMAIN FlattenSeq(slots) |-> construction[FlattenSeq(slots)[n]].value]
     ELSE LowerCallArgs(FieldContract, construction)

(* The operands go to the public fields in order. *)
ApplyPositionalRecordConstructor(ops) ==
  [name \in FieldNames |->
     IF \E k \in DOMAIN ops : PublicFields[k].name = name
     THEN ops[CHOOSE k \in DOMAIN ops : PublicFields[k].name = name]
     ELSE FieldInit[name]]

ConstructFromFields ==
  /\ phase = "accepted" /\ Constructors = << >>
  /\ IF \A k \in DOMAIN PublicFields :
          k > Len(LowerFieldArgs) => PublicFields[k].initial # "none"
     THEN /\ instances' = <<ApplyPositionalRecordConstructor(LowerFieldArgs)>>
          /\ phase' = "done"
     ELSE phase' = "stuck" /\ instances' = <<FieldInit>>
  /\ UNCHANGED <<class, construction, frames>>

----------------------------------------------------------------------------
(* Constructors *)

Inner == Last(frames)
ConstructorRuns == phase = "running"
Body == Constructors[Inner.ctor].block
Valued(source) ==
  LET named == ParamNamed(Sigs[Inner.ctor], source) IN
  IF named = {} THEN source ELSE Head(Inner.bound[CHOOSE k \in named : TRUE])

(* The lowering lays the operands out for the last constructor that ranks
   highest by counting. *)
LowerConstructorArgs(call) == LowerCallArgs(Sigs[Max(ArityCandidates(Sigs, call))], call)

(* construct_named_type: a new instance, its initialisers, then a constructor
   selected by the values. *)
Construct(ops, below) ==
  LET best == RuntimeCandidates(Sigs, ops) IN
  /\ instances' = Append(instances, FieldInit)
  /\ IF best = {} \/ Len(below) = StackDepth
     THEN phase' = "stuck" /\ frames' = below
     ELSE /\ phase' = "running"
          /\ frames' = Append(below,
               [instance |-> Len(instances) + 1, ctor |-> Min(best), at |-> 1,
                bound |-> NormalizeCallArgs(Sigs[Min(best)], ops)])

ConstructWithConstructor ==
  /\ phase = "accepted" /\ Constructors # << >>
  /\ Construct(LowerConstructorArgs(construction), << >>)
  /\ UNCHANGED <<class, construction>>

Goto(at) == [frames EXCEPT ![Len(frames)].at = at]

AssignField ==
  /\ ConstructorRuns /\ ~Delegates(Inner.ctor)
  /\ Inner.at <= Len(Body) /\ Body[Inner.at].do = "assign"
  /\ instances' = [instances EXCEPT ![Inner.instance][Body[Inner.at].field] =
                     Valued(Body[Inner.at].from)]
  /\ frames' = Goto(Inner.at + 1)
  /\ UNCHANGED <<class, construction, phase>>

(* `if condition { return }` *)
MayReturn ==
  /\ ConstructorRuns /\ ~Delegates(Inner.ctor)
  /\ Inner.at <= Len(Body) /\ Body[Inner.at].do = "mayReturn"
  /\ \E at \in {Inner.at + 1, Len(Body) + 1} : frames' = Goto(at)
  /\ UNCHANGED <<class, construction, phase, instances>>

(* `this(...)` constructs an instance of the class. *)
Delegate ==
  /\ ConstructorRuns /\ Delegates(Inner.ctor) /\ Inner.at = 1
  /\ LET call == Constructors[Inner.ctor].this
         evaluated == [i \in DOMAIN call |-> [call[i] EXCEPT !.value = Valued(@)]]
     IN Construct(LowerConstructorArgs(evaluated), Goto(2))
  /\ UNCHANGED <<class, construction>>

(* A constructor whose body yields an instance of the class takes its fields
   over: the one it delegated for, or, without being asked, the one that the
   last statement of its block yields (an expression statement at the end of
   a body is its value). *)
TakesFieldsOver ==
  IF Delegates(Inner.ctor)
  THEN [instances EXCEPT ![Inner.instance] = instances[Inner.instance + 1]]
  ELSE IF Inner.at = Len(Body) /\ Body[Inner.at].do = "yield"
       THEN [instances EXCEPT ![Inner.instance] = [name \in FieldNames |-> Elsewhere]]
       ELSE instances

FinishConstructor ==
  /\ ConstructorRuns
  /\ IF Delegates(Inner.ctor) THEN Inner.at = 2
     ELSE Inner.at <= Len(Body) => Body[Inner.at].do = "yield"
  /\ instances' = TakesFieldsOver
  /\ frames' = Front(frames)
  /\ phase' = IF Len(frames) = 1 THEN "done" ELSE "running"
  /\ UNCHANGED <<class, construction>>

----------------------------------------------------------------------------

NoClass == [fields |-> << >>, constructors |-> << >>]

ConstructionIdle ==
  /\ class = NoClass /\ construction = << >> /\ phase = "idle"
  /\ instances = << >> /\ frames = << >>

ConstructionInit ==
  /\ class \in ClassDecls /\ construction \in Constructions /\ phase = "written"
  /\ instances = << >> /\ frames = << >>

ConstructionNext ==
  \/ CheckClass \/ ConstructFromFields \/ ConstructWithConstructor
  \/ AssignField \/ MayReturn \/ Delegate \/ FinishConstructor

----------------------------------------------------------------------------

ConstructionTypeOK ==
  /\ phase \in {"idle", "written", "refused", "accepted", "running", "done", "stuck"}
  /\ \A i \in DOMAIN instances : DOMAIN instances[i] = FieldNames
  /\ \A n \in DOMAIN frames : frames[n].instance = n /\ frames[n].ctor \in DOMAIN Constructors
  /\ phase \in {"running", "done"} => instances # << >>
  /\ ConstructorRuns <=> frames # << >>

(* What the construction is written to give its fields: by name or position
   the arguments, the rest what its initialiser yields; with constructors,
   what the selected one, or the one it delegates to, assigns. *)
RECURSIVE Built(_)
Built(call) ==
  LET k == CHOOSE j \in BestOverloadCandidates(Sigs, call) : TRUE
      slots == Slots(Sigs[k], call)
      value(source) ==
        LET named == ParamNamed(Sigs[k], source)
            param == CHOOSE p \in named : TRUE
        IN IF named = {} THEN source
           ELSE IF slots[param] = << >> THEN Sigs[k][param].default
           ELSE call[Head(slots[param])].value
      assigned(block, name) ==
        SelectSeq(block, LAMBDA s : s.do = "assign" /\ s.field = name)
  IN IF Delegates(k)
     THEN Built([i \in DOMAIN Constructors[k].this |->
                   [Constructors[k].this[i] EXCEPT !.value = value(@)]])
     ELSE [name \in FieldNames |->
             IF assigned(Constructors[k].block, name) = << >> THEN FieldInit[name]
             ELSE value(Last(assigned(Constructors[k].block, name)).from)]

AsWritten ==
  IF Constructors # << >> THEN Built(construction)
  ELSE LET slots == Slots(FieldContract, construction) IN
       [name \in FieldNames |->
          IF \E k \in DOMAIN slots : PublicFields[k].name = name /\ slots[k] # << >>
          THEN construction[Head(slots[CHOOSE k \in DOMAIN slots :
                                         PublicFields[k].name = name])].value
          ELSE FieldInit[name]]

(* syntax.md:3031 named construction checks the public-field names and may
   omit initialized fields; syntax.md:2971 every constructor initialises the
   fields: the instance has the fields its construction is written to give. *)
ConstructedAsWritten == phase = "done" => instances[1] = AsWritten

(* A named argument behind an omitted field whose initialiser is computed. *)
ClosesRanks ==
  /\ Constructors = << >>
  /\ \E i, k \in DOMAIN PublicFields :
       /\ i < k /\ PublicFields[i].initial = "computed"
       /\ Slots(FieldContract, construction)[i] = << >>
       /\ Slots(FieldContract, construction)[k] # << >>

HasStatement(what) ==
  \E k \in DOMAIN Constructors : ~Delegates(k) /\ \E s \in Range(Constructors[k].block) : s.do = what

(* No overload that Any, a default or a name makes a rival of another. *)
Unrivalled ==
  \/ Len(Constructors) = 1
  \/ /\ \A k \in DOMAIN Constructors : \A p \in Range(Sigs[k]) : p.type # "Any" /\ ~HasDefault(p)
     /\ \A i \in DOMAIN construction : construction[i].name = "" /\ construction[i].type # "Any"

(* Construction ends, after one instance for each constructor that delegates
   and one more, and gives the fields what it is written to give them, unless
   a named argument stands behind an omitted field with a computed
   initialiser, a constructor ends in an expression that yields another
   instance, or constructors rival each other.  One that returns early leaves
   no field holding anything but its initial value or what the whole of it
   gives the field. *)
ConstructionDelivers ==
  IF Constructors = << >>
  THEN ~ClosesRanks => phase # "stuck" /\ ConstructedAsWritten
  ELSE Unrivalled =>
    /\ Len(instances) <= Len(Constructors) /\ phase # "stuck"
    /\ phase = "done" /\ ~HasStatement("yield") =>
         \A name \in FieldNames :
           \/ instances[1][name] = AsWritten[name]
           \/ HasStatement("mayReturn") /\ instances[1][name] = FieldInit[name]
=============================================================================
