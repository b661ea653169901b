------------------------------- MODULE Shapes --------------------------------
(***************************************************************************)
(* A value on its way through variables of different types: which          *)
(* assignments the type checker accepts (typecheck.rs), and what the        *)
(* interpreter makes of the value each time, by itself and from the value  *)
(* alone (interpreter.rs: coerce_value_to_type).  A shape is assigned by   *)
(* its fields: the wider value is copied into a narrower one, and a union  *)
(* receives the alternative the checker found.                             *)
(*                                                                         *)
(* A type is [t |-> "Int"], "Str", "Any", a "named" shape, class or          *)
(* interface, an "anonymous" shape with fields, or a "union" with members; *)
(* fields are sequences of <<name, type>>.  Type arguments, functions,     *)
(* tuples, fields that are not public and shapes with themselves inside    *)
(* are left out.                                                           *)
(***************************************************************************)
EXTENDS Naturals, Sequences, SequencesExt

CONSTANTS
  ShapeDecls,     \* shape -> its fields
  ClassFields,    \* class -> its fields
  BoundsOf,       \* shape or class -> the interfaces it is declared with
  SourceTypes,    \* the types of what is constructed
  Variables,      \* the types of variables, parameters and results
  MaxMoves        \* Bound: assignments and narrowings

VARIABLES
  static,         \* the type of the value for the checker
  meant,          \* the same, but of a union the member meant
  held,           \* the value
  clear,          \* so far types and values told the same apart
  moves           \* how often it was moved

shapeVars == <<static, meant, held, clear, moves>>

Nominal(name) == [t |-> "named", name |-> name]
Structural(fields) == [t |-> "anonymous", fields |-> fields]
UnionOf(members) == [t |-> "union", members |-> members]
IntType == [t |-> "Int"]
StrType == [t |-> "Str"]
AnyType == [t |-> "Any"]

IsUnionType(type) == type.t = "union"
IsNamedShape(type) == type.t = "named" /\ type.name \in DOMAIN ShapeDecls
IsShape(type) == type.t = "anonymous" \/ IsNamedShape(type)
FieldsOf(type) == IF type.t = "anonymous" THEN type.fields ELSE ShapeDecls[type.name]
NamesOf(fields) == {fields[i][1] : i \in DOMAIN fields}
FieldAt(fields, name) == fields[CHOOSE i \in DOMAIN fields : fields[i][1] = name][2]

----------------------------------------------------------------------------
(* The checker *)

RECURSIVE PlainlyAssignable(_, _)
PlainlyAssignable(actual, expected) ==
  \/ expected = AnyType \/ actual = expected
  \/ IsUnionType(expected) /\ ~IsUnionType(actual)
       /\ \E m \in Range(expected.members) : PlainlyAssignable(actual, m)
  \/ IsUnionType(actual) /\ \A m \in Range(actual.members) : PlainlyAssignable(m, expected)
  \/ /\ actual.t = "anonymous" /\ expected.t = "anonymous"
     /\ \A name \in NamesOf(expected.fields) :
          /\ name \in NamesOf(actual.fields)
          /\ PlainlyAssignable(FieldAt(actual.fields, name), FieldAt(expected.fields, name))

RECURSIVE IsAssignable(_, _)

StructurallyAssignableToShape(actual, expected) ==
  /\ IsShape(expected) /\ IsShape(actual)
  /\ \A name \in NamesOf(FieldsOf(expected)) :
       /\ name \in NamesOf(FieldsOf(actual))
       /\ IsAssignable(FieldAt(FieldsOf(actual), name), FieldAt(FieldsOf(expected), name))

ShapeFieldsMatchExactly(left, right) ==
  /\ IsShape(left) /\ IsShape(right)
  /\ Len(FieldsOf(left)) = Len(FieldsOf(right))
  /\ \A name \in NamesOf(FieldsOf(left)) :
       /\ name \in NamesOf(FieldsOf(right))
       /\ IsAssignable(FieldAt(FieldsOf(left), name), FieldAt(FieldsOf(right), name))
       /\ IsAssignable(FieldAt(FieldsOf(right), name), FieldAt(FieldsOf(left), name))

(* The members that take a value as it is. *)
Keeping(actual, members) ==
  SelectSeq(members, LAMBDA m : m = actual \/ (~IsShape(m) /\ IsAssignable(actual, m)))

(* The members it would have to be copied into. *)
ShapeUnionProjectionTargets(actual, members) ==
  LET candidates == SelectSeq(members, LAMBDA m : StructurallyAssignableToShape(actual, m))
      exact == SelectSeq(candidates, LAMBDA m : ShapeFieldsMatchExactly(actual, m))
  IN IF Keeping(actual, members) # << >> THEN << >> ELSE IF exact # << >> THEN exact ELSE candidates

RECURSIVE IsAssignableToUnion(_, _)
IsAssignableToUnion(actual, members) ==
  IF IsUnionType(actual) THEN \A m \in Range(actual.members) : IsAssignableToUnion(m, members)
  ELSE Keeping(actual, members) # << >> \/ Len(ShapeUnionProjectionTargets(actual, members)) = 1

IsAssignable(actual, expected) ==
  IF IsUnionType(expected) THEN IsAssignableToUnion(actual, expected.members)
  ELSE IF IsUnionType(actual) THEN \A m \in Range(actual.members) : IsAssignable(m, expected)
  ELSE \/ PlainlyAssignable(actual, expected)
       \/ StructurallyAssignableToShape(actual, expected)
       \/ /\ actual.t = "named" /\ actual.name \in DOMAIN BoundsOf
          /\ \E bound \in BoundsOf[actual.name] : IsAssignable(Nominal(bound), expected)

----------------------------------------------------------------------------
(* The interpreter.  A value is [v |-> "int"], "str", a "record" with fields, *)
(* or an "instance" of a shape or class; fields are <<name, value>>.         *)

Has(val) == val.v \in {"record", "instance"}

RECURSIVE ValueIsOfType(_, _)
FieldsMatch(val, fields) ==
  /\ Has(val)
  /\ \A i \in DOMAIN fields : /\ fields[i][1] \in NamesOf(val.fields)
                              /\ ValueIsOfType(FieldAt(val.fields, fields[i][1]), fields[i][2])

ValueMatchesRuntimeShape(val, name) ==
  (val.v = "instance" /\ val.of = name) \/ FieldsMatch(val, ShapeDecls[name])

(* Any is a name like others here, and the name of no value. *)
ValueIsOfType(val, type) ==
  CASE type.t = "Int" -> val.v = "int"
    [] type.t = "Str" -> val.v = "str"
    [] type.t = "Any" -> FALSE
    [] type.t = "union" -> \E m \in Range(type.members) : ValueIsOfType(val, m)
    [] type.t = "anonymous" -> FieldsMatch(val, type.fields)
    [] type.t = "named" ->
         IF val.v = "instance" THEN val.of = type.name \/ type.name \in BoundsOf[val.of]
         ELSE IsNamedShape(type) /\ FieldsMatch(val, FieldsOf(type))

ValueMatchesUnionMember(val, member) ==
  IF IsNamedShape(member) THEN val.v = "instance" /\ val.of = member.name
  ELSE ValueIsOfType(val, member)
       /\ (member.t = "anonymous" => Len(val.fields) = Len(member.fields))

ValueCanProjectToShape(val, member) ==
  IF IsNamedShape(member) THEN ValueMatchesRuntimeShape(val, member.name)
  ELSE member.t = "anonymous" /\ ValueIsOfType(val, member)

(* A mutant: the first of several decides. *)
SelectedFirst(val, members) ==
  LET candidates == SelectSeq(members, LAMBDA m : ValueCanProjectToShape(val, m))
  IN IF (\E m \in Range(members) : ValueMatchesUnionMember(val, m)) \/ candidates = << >> THEN << >>
     ELSE <<Head(candidates)>>

(* The member a value is copied into, if any. *)
Selected(val, members) ==
  LET candidates == SelectSeq(members, LAMBDA m : ValueCanProjectToShape(val, m))
      exact == SelectSeq(candidates, LAMBDA m : Len(FieldsOf(m)) = Len(val.fields))
  IN IF \E m \in Range(members) : ValueMatchesUnionMember(val, m) THEN << >>
     ELSE IF Len(exact) = 1 THEN exact
     ELSE IF exact = << >> /\ Len(candidates) = 1 THEN candidates
     ELSE << >>

RECURSIVE CoerceValueToType(_, _)
Copied(val, fields) ==
  [i \in DOMAIN fields |-> <<fields[i][1], CoerceValueToType(FieldAt(val.fields, fields[i][1]), fields[i][2])>>]

CoerceValueToNamedShape(val, name) ==
  IF Has(val) /\ ~(val.v = "instance" /\ val.of = name) /\ NamesOf(ShapeDecls[name]) \subseteq NamesOf(val.fields)
  THEN [v |-> "instance", of |-> name, fields |-> Copied(val, ShapeDecls[name])]
  ELSE val

(* A record that lacks a name but has the number of fields is taken by position. *)
CoerceValueToRecord(val, fields) ==
  IF ~Has(val) THEN val
  ELSE IF NamesOf(fields) \subseteq NamesOf(val.fields)
       THEN [v |-> "record", fields |-> Copied(val, fields)]
  ELSE IF val.v = "record" /\ Len(val.fields) = Len(fields)
       THEN [v |-> "record", fields |-> [i \in DOMAIN fields |->
               <<fields[i][1], CoerceValueToType(val.fields[i][2], fields[i][2])>>]]
  ELSE val

CoerceValueToUnion(val, members) ==
  LET selected == Selected(val, members)
  IN IF selected = << >> THEN val ELSE CoerceValueToType(val, Head(selected))

CoerceValueToType(val, type) ==
  CASE type.t = "union" -> CoerceValueToUnion(val, type.members)
    [] type.t = "anonymous" -> CoerceValueToRecord(val, type.fields)
    [] IsNamedShape(type) -> CoerceValueToNamedShape(val, type.name)
    [] OTHER -> val

----------------------------------------------------------------------------
(* What a construction of a type can yield. *)
RECURSIVE InstancesOf(_)
FieldValues(fields) ==
  LET UpTo[i \in 0 .. Len(fields)] ==
        IF i = 0 THEN {<< >>}
        ELSE {Append(s, <<fields[i][1], val>>) : s \in UpTo[i - 1], val \in InstancesOf(fields[i][2])}
  IN UpTo[Len(fields)]

InstancesOf(type) ==
  CASE type.t = "Int" -> {[v |-> "int"]}
    [] type.t = "Str" -> {[v |-> "str"]}
    [] type.t = "Any" -> {[v |-> "int"], [v |-> "str"]}
    [] type.t = "union" -> UNION {InstancesOf(m) : m \in Range(type.members)}
    [] type.t = "anonymous" -> {[v |-> "record", fields |-> f] : f \in FieldValues(type.fields)}
    [] IsNamedShape(type) ->
         {[v |-> "instance", of |-> type.name, fields |-> f] : f \in FieldValues(FieldsOf(type))}
    [] OTHER -> {[v |-> "instance", of |-> type.name, fields |-> f] : f \in FieldValues(ClassFields[type.name])}

(* Where the values choose as the types do: a union that receives shapes has  *)
(* only named ones, of Ints and Strs, and no field of the alternative that is *)
(* assigned has a union for its type.  Each part is needed: interpreter.rs     *)
(* compares counts and values where typecheck.rs compares types.               *)
Flat(type) == \A i \in DOMAIN FieldsOf(type) : FieldsOf(type)[i][2] \in {IntType, StrType}
Definite(type) == IsShape(type) => \A i \in DOMAIN FieldsOf(type) : ~IsUnionType(FieldsOf(type)[i][2])
Clear(type) ==
  IsUnionType(type) =>
    \A member \in Range(type.members) :
      IsShape(member) => IsNamedShape(member) /\ Flat(member) /\ Definite(meant)

ShapesInit ==
  /\ static \in SourceTypes /\ meant = static /\ held \in InstancesOf(static)
  /\ clear = TRUE /\ moves = 0

(* The member of a union that an assignment means: the first that keeps the
   value or else the only one it can be copied into. *)
Meant(type) ==
  IF ~IsUnionType(type) THEN type
  ELSE LET keeping == Keeping(meant, type.members)
       IN IF keeping = << >> THEN Head(ShapeUnionProjectionTargets(meant, type.members))
          ELSE IF meant \in Range(keeping) THEN meant ELSE Head(keeping)

AssignTo ==
  \E type \in Variables :
    /\ moves < MaxMoves /\ clear /\ IsAssignable(static, type)
    /\ static' = type /\ meant' = Meant(type)
    /\ held' = CoerceValueToType(held, type) /\ clear' = (clear /\ Clear(type))
    /\ moves' = moves + 1

(* `is` or a type pattern: the variable behind the test is a cast one. *)
NarrowTo ==
  \E type \in Variables :
    /\ moves < MaxMoves /\ clear /\ ~IsUnionType(type) /\ type # AnyType
    /\ static = AnyType \/ (IsUnionType(static) /\ type \in Range(static.members))
    /\ ValueIsOfType(held, type)
    /\ static' = type /\ meant' = type
    /\ held' = CoerceValueToType(held, type) /\ clear' = clear
    /\ moves' = moves + 1

(* Bound: nothing is claimed once clear is FALSE, and it is followed no further. *)
ShapesNext == AssignTo \/ NarrowTo
ShapesEnd == (moves = MaxMoves \/ ~clear) /\ UNCHANGED shapeVars

ShapesIdle == static = AnyType /\ meant = AnyType /\ held = [v |-> "int"] /\ clear = TRUE /\ moves = 0

----------------------------------------------------------------------------

RECURSIVE HasType(_, _)
HasItsFields(val, fields) ==
  /\ NamesOf(val.fields) = NamesOf(fields)
  /\ \A name \in NamesOf(fields) : HasType(FieldAt(val.fields, name), FieldAt(fields, name))

HasType(val, type) ==
  CASE type.t = "Int" -> val.v = "int"
    [] type.t = "Str" -> val.v = "str"
    [] type.t = "Any" -> TRUE
    [] type.t = "union" -> \E m \in Range(type.members) : HasType(val, m)
    [] type.t = "anonymous" -> Has(val) /\ HasItsFields(val, type.fields)
    [] IsNamedShape(type) -> val.v = "instance" /\ val.of = type.name /\ HasItsFields(val, FieldsOf(type))
    [] OTHER -> val.v = "instance" /\ (val.of = type.name \/ type.name \in BoundsOf[val.of])

(* What is moved is a value, of a type, and of an alternative that is no union. *)
ShapesTypeOK ==
  /\ static.t \in {"Int", "Str", "Any", "named", "anonymous", "union"}
  /\ ~IsUnionType(meant)
  /\ held.v \in {"int", "str", "record", "instance"}
  /\ clear \in BOOLEAN /\ moves \in 0 .. MaxMoves

(* Whatever a value went through, it has the type the checker gave it, of a   *)
(* union the alternative it meant: all the fields of a shape and no others,   *)
(* its own name and not that of the shape it was copied from; and a test for  *)
(* that alternative takes it, so that a match over the union finds its case.  *)
ValuesFollowTypes ==
  clear => /\ HasType(held, meant)
           /\ IsUnionType(static) => ValueIsOfType(held, meant)
=============================================================================
