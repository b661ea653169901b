--------------------------- MODULE PatternsProofs ----------------------------
(* Which case a match takes, whatever the types, the patterns and the values  *)
(* are, and why a pattern bound without a test never fails.  Induction over   *)
(* depth is taken from NarrowingProofs.                                       *)
EXTENDS Patterns, NarrowingProofs

-----------------------------------------------------------------------------
(* What types, patterns, values and source expressions consist of. *)

LEMMA PartsBelow ==
  ASSUME NEW p \in AllPatterns
  PROVE  /\ p.depth \in Nat
         /\ p.form = "alias" => p.inner \in AllPatterns /\ p.inner.depth < p.depth
         /\ p.form \in {"tuple", "list"} =>
              /\ p.elements \in Seq(AllPatterns)
              /\ \A i \in DOMAIN p.elements : p.elements[i] \in AllPatterns /\ p.elements[i].depth < p.depth
         /\ p.form = "record" =>
              \A f \in DOMAIN p.fields : p.fields[f] \in AllPatterns /\ p.fields[f].depth < p.depth
  <1>1. /\ p.depth \in Nat
        /\ p.form \in {"tuple", "list"} => p.elements \in Seq(AllPatterns)
        /\ \A part \in Parts(p) : part \in AllPatterns /\ part.depth < p.depth
    BY PatternAssumption, Zenon
  <1>2. p.form = "alias" => p.inner \in Parts(p)
    BY DEF Parts
  <1>3. p.form \in {"tuple", "list"} => \A i \in DOMAIN p.elements : p.elements[i] \in Parts(p)
    BY DEF Parts, Range
  <1>4. p.form = "record" => \A f \in DOMAIN p.fields : p.fields[f] \in Parts(p)
    BY DEF Parts, Range
  <1> QED
    BY <1>1, <1>2, <1>3, <1>4

\* The names of one kind of type are not those of another.
LEMMA KindsApart ==
  /\ "Bool" \notin DOMAIN Tuples \cup DOMAIN Vectors \cup DOMAIN Unions \cup DOMAIN Interfaces \cup DOMAIN Fields
  /\ "Unit" \notin DOMAIN Tuples \cup DOMAIN Vectors \cup DOMAIN Unions \cup DOMAIN Interfaces \cup DOMAIN Fields
  /\ "" \notin DOMAIN Fields
  /\ DOMAIN Tuples \cap (DOMAIN Vectors \cup DOMAIN Unions \cup DOMAIN Interfaces \cup DOMAIN Fields) = {}
  /\ DOMAIN Vectors \cap (DOMAIN Unions \cup DOMAIN Interfaces \cup DOMAIN Fields) = {}
  /\ DOMAIN Unions \cap (DOMAIN Interfaces \cup DOMAIN Fields) = {}
  /\ DOMAIN Interfaces \cap DOMAIN Fields = {}
  <1>1. \A i, j \in 1..8 : i # j => Kinds[i] \cap Kinds[j] = {}
    <2>1. DOMAIN Kinds = 1..8
      BY DEF Kinds
    <2>2. \A i, j \in DOMAIN Kinds : i # j => Kinds[i] \cap Kinds[j] = {}
      BY TypeAssumption, Zenon
    <2> QED
      BY <2>1, <2>2, Zenon
  <1>2. /\ Kinds[1] = {"Bool"} /\ Kinds[2] = {"Unit"} /\ Kinds[3] = {""} /\ Kinds[4] = DOMAIN Tuples
        /\ Kinds[5] = DOMAIN Vectors /\ Kinds[6] = DOMAIN Unions /\ Kinds[7] = DOMAIN Interfaces
        /\ Kinds[8] = DOMAIN Fields
    BY DEF Kinds
  <1>3. /\ Kinds[1] \cap Kinds[4] = {} /\ Kinds[1] \cap Kinds[5] = {} /\ Kinds[1] \cap Kinds[6] = {}
        /\ Kinds[1] \cap Kinds[7] = {} /\ Kinds[1] \cap Kinds[8] = {}
    BY <1>1
  <1>4. /\ Kinds[2] \cap Kinds[4] = {} /\ Kinds[2] \cap Kinds[5] = {} /\ Kinds[2] \cap Kinds[6] = {}
        /\ Kinds[2] \cap Kinds[7] = {} /\ Kinds[2] \cap Kinds[8] = {} /\ Kinds[3] \cap Kinds[8] = {}
    BY <1>1
  <1>5. /\ Kinds[4] \cap Kinds[5] = {} /\ Kinds[4] \cap Kinds[6] = {} /\ Kinds[4] \cap Kinds[7] = {}
        /\ Kinds[4] \cap Kinds[8] = {} /\ Kinds[5] \cap Kinds[6] = {} /\ Kinds[5] \cap Kinds[7] = {}
    BY <1>1
  <1>6. /\ Kinds[5] \cap Kinds[8] = {} /\ Kinds[6] \cap Kinds[7] = {} /\ Kinds[6] \cap Kinds[8] = {}
        /\ Kinds[7] \cap Kinds[8] = {}
    BY <1>1
  <1> HIDE DEF Kinds
  <1>7. "Bool" \notin DOMAIN Tuples \cup DOMAIN Vectors \cup DOMAIN Unions \cup DOMAIN Interfaces \cup DOMAIN Fields
    BY <1>2, <1>3
  <1>8. /\ "Unit" \notin DOMAIN Tuples \cup DOMAIN Vectors \cup DOMAIN Unions \cup DOMAIN Interfaces \cup DOMAIN Fields
        /\ "" \notin DOMAIN Fields
    BY <1>2, <1>4
  <1>9. /\ DOMAIN Tuples \cap (DOMAIN Vectors \cup DOMAIN Unions \cup DOMAIN Interfaces \cup DOMAIN Fields) = {}
        /\ DOMAIN Vectors \cap (DOMAIN Unions \cup DOMAIN Interfaces) = {}
    BY <1>2, <1>5
  <1>10. /\ DOMAIN Vectors \cap DOMAIN Fields = {}
         /\ DOMAIN Unions \cap (DOMAIN Interfaces \cup DOMAIN Fields) = {}
         /\ DOMAIN Interfaces \cap DOMAIN Fields = {}
    BY <1>2, <1>6
  <1> QED
    BY <1>7, <1>8, <1>9, <1>10

\* A value of a type that is no union and no interface was made as one of it.
LEMMA MadeAs ==
  ASSUME NEW v, NEW T \in DOMAIN Tuples \cup DOMAIN Vectors \cup DOMAIN Fields \cup {"Bool"}, OfType(v, T)
  PROVE  v.of = T
  BY KindsApart DEF OfType

LEMMA ValueParts ==
  ASSUME NEW v \in AllValues
  PROVE  /\ v.of = "Bool" => v = Flag(v.value)
         /\ v.of \in DOMAIN Tuples =>
              /\ v.items \in Seq(AllValues) /\ Len(v.items) = Len(Tuples[v.of])
              /\ \A i \in DOMAIN v.items : OfType(v.items[i], Tuples[v.of][i])
         /\ v.of \in DOMAIN Vectors =>
              /\ v.items \in Seq(AllValues)
              /\ \A i \in DOMAIN v.items : OfType(v.items[i], Vectors[v.of])
         /\ v.of \in DOMAIN Fields =>
              /\ DOMAIN v.fields = DOMAIN Fields[v.of]
              /\ \A f \in DOMAIN v.fields : v.fields[f] \in AllValues /\ OfType(v.fields[f], Fields[v.of][f])
  <1>1. /\ v.of = "Bool" => v = Flag(v.value)
        /\ v.of \in DOMAIN Tuples \cup DOMAIN Vectors => v.items \in Seq(AllValues)
        /\ v.of \in DOMAIN Tuples =>
            /\ Len(v.items) = Len(Tuples[v.of])
            /\ \A i \in DOMAIN v.items : OfType(v.items[i], Tuples[v.of][i])
        /\ v.of \in DOMAIN Vectors => \A i \in DOMAIN v.items : OfType(v.items[i], Vectors[v.of])
        /\ HasFields(v) =>
            /\ DOMAIN v.fields = DOMAIN Fields[v.of]
            /\ \A f \in DOMAIN v.fields : v.fields[f] \in AllValues /\ OfType(v.fields[f], Fields[v.of][f])
    BY ValueAssumption, Zenon
  <1>2. v.of \in DOMAIN Tuples \/ v.of \in DOMAIN Vectors => v.of \in DOMAIN Tuples \cup DOMAIN Vectors
    OBVIOUS
  <1> QED
    BY <1>1, <1>2, Zenon DEF HasFields

LEMMA TypeParts ==
  /\ \A T \in DOMAIN Tuples : \A i \in DOMAIN Tuples[T] : Tuples[T][i] \in Types
  /\ \A T \in DOMAIN Tuples : DOMAIN Tuples[T] = 1 .. Len(Tuples[T]) /\ Len(Tuples[T]) \in Nat
  /\ \A T \in DOMAIN Vectors : Vectors[T] \in Types
  /\ \A name \in DOMAIN Fields : \A f \in DOMAIN Fields[name] : Fields[name][f] \in Types
  <1>1. /\ \A T \in DOMAIN Tuples : Tuples[T] \in Seq(Types)
        /\ \A T \in DOMAIN Vectors : Vectors[T] \in Types
        /\ \A name \in DOMAIN Fields : \A f \in DOMAIN Fields[name] : Fields[name][f] \in Types
    BY TypeAssumption, Zenon
  <1> HIDE DEF Types
  <1>2. \A s \in Seq(Types) : DOMAIN s = 1 .. Len(s) /\ Len(s) \in Nat /\ \A i \in DOMAIN s : s[i] \in Types
    OBVIOUS
  <1> QED
    BY <1>1, <1>2, Zenon

\* f and g agree on the patterns less deep than p.
AgreeBelow(f, g, S, p) ==
  \A part \in AllPatterns : \A s \in S : part.depth < p.depth => f[<<part, s>>] = g[<<part, s>>]

Depths(D) == [q \in D |-> q[1].depth]

LEMMA DepthsOK ==
  ASSUME NEW S
  PROVE  /\ Depths(AllPatterns \X S) \in [AllPatterns \X S -> Nat]
         /\ \A q \in AllPatterns \X S : Depths(AllPatterns \X S)[q] = q[1].depth
  <1>1. \A q \in AllPatterns \X S : q[1] \in AllPatterns
    OBVIOUS
  <1>2. \A q \in AllPatterns \X S : q[1].depth \in Nat
    BY <1>1, PartsBelow, Zenon
  <1> QED
    BY <1>2 DEF Depths

LEMMA AgreesBelow ==
  ASSUME NEW S, NEW q \in AllPatterns \X S, NEW f, NEW g, NEW D, D = AllPatterns \X S,
         NEW depth, depth = Depths(D), \A r \in D : depth[r] < depth[q] => f[r] = g[r]
  PROVE  AgreeBelow(f, g, S, q[1])
  <1> SUFFICES ASSUME NEW part \in AllPatterns, NEW s \in S, part.depth < q[1].depth
               PROVE  f[<<part, s>>] = g[<<part, s>>]
    BY DEF AgreeBelow
  <1>1. PICK r : r = <<part, s>>
    OBVIOUS
  <1>2. r \in AllPatterns \X S /\ r[1] = part
    BY <1>1
  <1>3. depth[r] = part.depth /\ depth[q] = q[1].depth
    BY <1>2, DepthsOK
  <1> QED
    BY <1>1, <1>2, <1>3

-----------------------------------------------------------------------------
(* What the checker accepts. *)

TupleBinds(f, p, T) ==
  /\ T \in DOMAIN Tuples
  /\ \A i \in DOMAIN p.elements \cap DOMAIN Tuples[T] : f[<<p.elements[i], Tuples[T][i]>>]

ListBinds(f, p, T) ==
  T \in DOMAIN Vectors /\ \A i \in DOMAIN p.elements : f[<<p.elements[i], Vectors[T]>>]

RecordBinds(f, p, T) ==
  /\ HasTarget(p, T)
  /\ DOMAIN p.fields \subseteq DOMAIN FieldTypes(p, T)
  /\ DOMAIN p.fields = {} => IsCase(p) /\ DOMAIN FieldTypes(p, T) = {}
  /\ p.shorthand => T = "Option"
  /\ \A g \in DOMAIN p.fields : f[<<p.fields[g], FieldTypes(p, T)[g]>>]

BindsBy(f, q) ==
  LET p == q[1] T == q[2] IN
  IF p.form = "alias" THEN f[<<p.inner, T>>]
  ELSE IF p.form = "literal" THEN Assignable("Bool", T)
  ELSE IF p.form = "tuple" THEN TupleBinds(f, p, T)
  ELSE IF p.form = "list" THEN ListBinds(f, p, T)
  ELSE IF p.form = "record" THEN RecordBinds(f, p, T)
  ELSE TRUE

LEMMA FieldTypesTyped ==
  ASSUME NEW p, NEW T, HasTarget(p, T)
  PROVE  /\ TargetOf(p, T) \in DOMAIN Fields
         /\ \A f \in DOMAIN FieldTypes(p, T) : FieldTypes(p, T)[f] \in Types
  <1>1. TargetOf(p, T) \in DOMAIN Fields
    BY DEF HasTarget, Classes
  <1> QED
    BY <1>1, TypeParts, Zenon DEF FieldTypes

LEMMA BindsGrounded ==
  ASSUME NEW q \in AllPatterns \X Types, NEW f, NEW g, AgreeBelow(f, g, Types, q[1])
  PROVE  BindsBy(f, q) = BindsBy(g, q)
  <1>1. PICK p \in AllPatterns, T \in Types : q = <<p, T>>
    OBVIOUS
  <1>2. q[1] = p /\ q[2] = T
    BY <1>1
  <1>3. \A part \in AllPatterns : \A S \in Types :
          part.depth < p.depth => f[<<part, S>>] = g[<<part, S>>]
    BY <1>2 DEF AgreeBelow
  <1>4. CASE p.form = "alias"
    <2>1. f[<<p.inner, T>>] = g[<<p.inner, T>>]
      BY <1>3, <1>4, PartsBelow, Zenon
    <2> QED
      BY <1>2, <1>4, <2>1, Zenon DEF BindsBy
  <1>5. CASE p.form = "tuple"
    <2>1. ASSUME T \in DOMAIN Tuples, NEW i \in DOMAIN p.elements \cap DOMAIN Tuples[T]
          PROVE  f[<<p.elements[i], Tuples[T][i]>>] = g[<<p.elements[i], Tuples[T][i]>>]
      <3>1. p.elements[i] \in AllPatterns /\ p.elements[i].depth < p.depth
        BY <1>5, PartsBelow
      <3>2. Tuples[T][i] \in Types
        BY <2>1, TypeParts
      <3> QED
        BY <1>3, <3>1, <3>2, Zenon
    <2>2. TupleBinds(f, p, T) <=> TupleBinds(g, p, T)
      BY <2>1, Zenon DEF TupleBinds
    <2>3. TupleBinds(f, p, T) = TupleBinds(g, p, T)
      BY <2>2, Zenon DEF TupleBinds
    <2> QED
      BY <1>2, <1>5, <2>3, Zenon DEF BindsBy
  <1>6. CASE p.form = "list"
    <2>1. ASSUME T \in DOMAIN Vectors, NEW i \in DOMAIN p.elements
          PROVE  f[<<p.elements[i], Vectors[T]>>] = g[<<p.elements[i], Vectors[T]>>]
      <3>1. p.elements[i] \in AllPatterns /\ p.elements[i].depth < p.depth
        BY <1>6, PartsBelow
      <3>2. Vectors[T] \in Types
        BY <2>1, TypeParts
      <3> QED
        BY <1>3, <3>1, <3>2, Zenon
    <2>2. ListBinds(f, p, T) <=> ListBinds(g, p, T)
      BY <2>1, Zenon DEF ListBinds
    <2>3. ListBinds(f, p, T) = ListBinds(g, p, T)
      BY <2>2, Zenon DEF ListBinds
    <2> QED
      BY <1>2, <1>6, <2>3, Zenon DEF BindsBy
  <1>7. CASE p.form = "record"
    <2>1. ASSUME HasTarget(p, T), NEW i \in DOMAIN p.fields, i \in DOMAIN FieldTypes(p, T)
          PROVE  f[<<p.fields[i], FieldTypes(p, T)[i]>>] = g[<<p.fields[i], FieldTypes(p, T)[i]>>]
      <3>1. p.fields[i] \in AllPatterns /\ p.fields[i].depth < p.depth
        BY <1>7, PartsBelow
      <3>2. FieldTypes(p, T)[i] \in Types
        BY <2>1, FieldTypesTyped, Zenon
      <3> QED
        BY <1>3, <3>1, <3>2, Zenon
    <2>2. RecordBinds(f, p, T) <=> RecordBinds(g, p, T)
      <3>1. HasTarget(p, T) /\ DOMAIN p.fields \subseteq DOMAIN FieldTypes(p, T)
              => \A i \in DOMAIN p.fields : f[<<p.fields[i], FieldTypes(p, T)[i]>>] = g[<<p.fields[i], FieldTypes(p, T)[i]>>]
        BY <2>1, Zenon
      <3> QED
        BY <3>1, Zenon DEF RecordBinds
    <2>3. RecordBinds(f, p, T) = RecordBinds(g, p, T)
      BY <2>2, Zenon DEF RecordBinds
    <2> QED
      BY <1>2, <1>7, <2>3, Zenon DEF BindsBy
  <1>8. CASE p.form \notin {"alias", "tuple", "list", "record"}
    BY <1>2, <1>8, Zenon DEF BindsBy
  <1> QED
    BY <1>4, <1>5, <1>6, <1>7, <1>8

LEMMA BindsTyped ==
  ASSUME NEW q \in AllPatterns \X Types, NEW f \in [AllPatterns \X Types -> BOOLEAN]
  PROVE  BindsBy(f, q) \in BOOLEAN
  <1>1. PICK p \in AllPatterns, T \in Types : q = <<p, T>>
    OBVIOUS
  <1>2. q[1] = p /\ q[2] = T
    BY <1>1
  <1>3. CASE p.form = "alias"
    <2>1. p.inner \in AllPatterns
      BY <1>3, PartsBelow
    <2>2. f[<<p.inner, T>>] \in BOOLEAN
      BY <2>1
    <2> QED
      BY <1>2, <1>3, <2>2, Zenon DEF BindsBy
  <1>4. CASE p.form # "alias"
    <2>1. /\ TupleBinds(f, p, T) \in BOOLEAN /\ ListBinds(f, p, T) \in BOOLEAN /\ RecordBinds(f, p, T) \in BOOLEAN
          /\ Assignable("Bool", T) \in BOOLEAN
      BY DEF TupleBinds, ListBinds, RecordBinds, Assignable
    <2> QED
      BY <1>2, <1>4, <2>1, Zenon DEF BindsBy
  <1> QED
    BY <1>3, <1>4

\* The domain of a function of patterns and of what they are held against.
Paired(D, S) == D = AllPatterns \X S

LEMMA PatternChecksIs ==
  ASSUME NEW D, Paired(D, Types)
  PROVE  /\ PatternChecks \in [D -> BOOLEAN]
         /\ \A q \in D : PatternChecks[q] = BindsBy(PatternChecks, q)
  <1> USE DEF Paired
  <1> DEFINE depth == Depths(D)
             F == [q \in D |-> [f \in [D -> BOOLEAN] |-> BindsBy(f, q)]]
             Defines(f) == f = [q \in D |-> BindsBy(f, q)]
  <1>1. depth \in [D -> Nat]
    BY DepthsOK
  <1>2. \A f \in [D -> BOOLEAN] : \A q \in D : BindsBy(f, q) \in BOOLEAN
    BY BindsTyped
  <1>3. F \in [D -> [[D -> BOOLEAN] -> BOOLEAN]]
    <2> HIDE DEF Paired
    <2> QED
      BY <1>2
  <1>4. ASSUME NEW q \in D, NEW f, NEW g, \A e \in D : depth[e] < depth[q] => f[e] = g[e]
        PROVE  BindsBy(f, q) = BindsBy(g, q)
    <2>1. AgreeBelow(f, g, Types, q[1])
      <3>1. q \in AllPatterns \X Types
        OBVIOUS
      <3>2. PICK e : e = Depths(D)
        OBVIOUS
      <3>3. \A r \in D : e[r] < e[q] => f[r] = g[r]
        BY <1>4, <3>2
      <3> QED
        BY <3>1, <3>2, <3>3, AgreesBelow
    <2> QED
      BY <2>1, BindsGrounded
  <1> HIDE DEF Paired
  <1>5. Grounded(F, D, BOOLEAN, depth)
    <2> SUFFICES ASSUME NEW q \in D, NEW f \in [D -> BOOLEAN], NEW g \in [D -> BOOLEAN],
                        \A e \in D : depth[e] < depth[q] => f[e] = g[e]
                 PROVE  F[q][f] = F[q][g]
      BY DEF Grounded
    <2>1. BindsBy(f, q) = BindsBy(g, q)
      BY <1>4
    <2> QED
      BY <2>1
  <1>6. PICK h \in [D -> BOOLEAN] : \A q \in D : h[q] = F[q][h]
    <2>1. BOOLEAN # {}
      OBVIOUS
    <2> HIDE DEF depth, F
    <2>2. Recursive(F, D, BOOLEAN, depth)
      BY <1>1, <1>3, <1>5, <2>1 DEF Recursive
    <2>3. \E h \in [D -> BOOLEAN] : \A d \in D : h[d] = F[d][h]
      BY <2>2, Recursion
    <2> QED
      BY <2>3
  <1>7. \A q \in D : h[q] = BindsBy(h, q)
    BY <1>6
  <1>8. Defines(h)
    BY <1>6, <1>7
  <1>9. PICK f : f = CHOOSE g : Defines(g)
    OBVIOUS
  <1>10. Defines(f)
    BY <1>8, <1>9
  <1>11. PatternChecks = f
    BY <1>9, Zenon DEF PatternChecks, BindsBy, TupleBinds, ListBinds, RecordBinds, Paired
  <1>12. \A q \in D : f[q] = BindsBy(f, q)
    BY <1>10
  <1>13. \A q \in D : (\A e \in D : depth[e] < depth[q] => f[e] = h[e]) => f[q] = h[q]
    <2> SUFFICES ASSUME NEW q \in D, \A e \in D : depth[e] < depth[q] => f[e] = h[e]
                 PROVE  f[q] = h[q]
      OBVIOUS
    <2>1. BindsBy(f, q) = BindsBy(h, q)
      BY <1>4
    <2> QED
      BY <1>7, <1>12, <2>1
  <1>14. \A q \in D : f[q] = h[q]
    <2> HIDE DEF depth
    <2> QED
      BY <1>1, <1>13, Agree
  <1>15. f \in [D -> BOOLEAN]
    <2>1. \A q \in D : f[q] \in BOOLEAN
      BY <1>14
    <2>2. f = [q \in D |-> f[q]]
      BY <1>10
    <2> QED
      BY <2>1, <2>2
  <1> QED
    BY <1>11, <1>12, <1>15

\* What an accepted pattern tells of its parts.
LEMMA BoundParts ==
  ASSUME NEW p \in AllPatterns, NEW T \in Types, BindPattern(p, T)
  PROVE  /\ p.form = "alias" => BindPattern(p.inner, T)
         /\ p.form = "tuple" =>
              /\ T \in DOMAIN Tuples
              /\ \A i \in DOMAIN p.elements \cap DOMAIN Tuples[T] : BindPattern(p.elements[i], Tuples[T][i])
         /\ p.form = "list" =>
              T \in DOMAIN Vectors /\ \A i \in DOMAIN p.elements : BindPattern(p.elements[i], Vectors[T])
         /\ p.form = "record" =>
              /\ HasTarget(p, T) /\ DOMAIN p.fields \subseteq DOMAIN FieldTypes(p, T)
              /\ \A f \in DOMAIN p.fields : BindPattern(p.fields[f], FieldTypes(p, T)[f])
  <1>1. PICK q : q = <<p, T>>
    OBVIOUS
  <1>2. q \in AllPatterns \X Types /\ q[1] = p /\ q[2] = T
    BY <1>1
  <1>3. PatternChecks[q] = BindsBy(PatternChecks, q)
    BY <1>2, PatternChecksIs DEF Paired
  <1>4. BindsBy(PatternChecks, q)
    BY <1>1, <1>3, Zenon DEF BindPattern
  <1>5. p.form = "alias" => PatternChecks[<<p.inner, T>>]
    BY <1>2, <1>4, Zenon DEF BindsBy
  <1>6. p.form = "tuple" => TupleBinds(PatternChecks, p, T)
    <2>1. "tuple" # "alias" /\ "tuple" # "literal"
      OBVIOUS
    <2> QED
      BY <1>2, <1>4, <2>1, Zenon DEF BindsBy
  <1>7. p.form = "list" => ListBinds(PatternChecks, p, T)
    <2>1. "list" # "alias" /\ "list" # "literal" /\ "list" # "tuple"
      OBVIOUS
    <2> QED
      BY <1>2, <1>4, <2>1, Zenon DEF BindsBy
  <1>8. p.form = "record" => RecordBinds(PatternChecks, p, T)
    <2>1. "record" # "alias" /\ "record" # "literal" /\ "record" # "tuple" /\ "record" # "list"
      OBVIOUS
    <2> QED
      BY <1>2, <1>4, <2>1, Zenon DEF BindsBy
  <1> QED
    BY <1>5, <1>6, <1>7, <1>8, Zenon DEF BindPattern, TupleBinds, ListBinds, RecordBinds

TupleIrrefutable(f, p, T) ==
  /\ T \in DOMAIN Tuples
  /\ Len(Tuples[T]) = Len(p.elements)
  /\ \A i \in DOMAIN p.elements : f[<<p.elements[i], Tuples[T][i]>>]

ListIrrefutable(p, T) == p.elements = << >> /\ p.rest /\ T \in DOMAIN Vectors

RecordIrrefutable(f, p, T) ==
  /\ HasTarget(p, T) /\ ~IsCase(p)
  /\ Assignable(T, TargetOf(p, T))
  /\ \A g \in DOMAIN p.fields :
       g \in DOMAIN FieldTypes(p, T) /\ f[<<p.fields[g], FieldTypes(p, T)[g]>>]

IrrefutableBy(f, q) ==
  LET p == q[1] T == q[2] IN
  IF p.form \in {"wildcard", "binding"} THEN TRUE
  ELSE IF p.form = "alias" THEN f[<<p.inner, T>>]
  ELSE IF p.form = "type" THEN Assignable(T, p.target)
  ELSE IF p.form = "tuple" THEN TupleIrrefutable(f, p, T)
  ELSE IF p.form = "list" THEN ListIrrefutable(p, T)
  ELSE IF p.form = "record" THEN RecordIrrefutable(f, p, T)
  ELSE FALSE

LEMMA IrrefutableGrounded ==
  ASSUME NEW q \in AllPatterns \X Types, NEW f, NEW g, AgreeBelow(f, g, Types, q[1])
  PROVE  IrrefutableBy(f, q) = IrrefutableBy(g, q)
  <1>1. PICK p \in AllPatterns, T \in Types : q = <<p, T>>
    OBVIOUS
  <1>2. q[1] = p /\ q[2] = T
    BY <1>1
  <1>3. \A part \in AllPatterns : \A S \in Types :
          part.depth < p.depth => f[<<part, S>>] = g[<<part, S>>]
    BY <1>2 DEF AgreeBelow
  <1>4. CASE p.form = "alias"
    <2>1. f[<<p.inner, T>>] = g[<<p.inner, T>>]
      BY <1>3, <1>4, PartsBelow, Zenon
    <2>2. p.form \notin {"wildcard", "binding"}
      BY <1>4
    <2> QED
      BY <1>2, <1>4, <2>1, <2>2, Zenon DEF IrrefutableBy
  <1>5. CASE p.form = "tuple"
    <2>1. ASSUME T \in DOMAIN Tuples, Len(Tuples[T]) = Len(p.elements), NEW i \in DOMAIN p.elements
          PROVE  f[<<p.elements[i], Tuples[T][i]>>] = g[<<p.elements[i], Tuples[T][i]>>]
      <3>1. p.elements[i] \in AllPatterns /\ p.elements[i].depth < p.depth /\ p.elements \in Seq(AllPatterns)
        BY <1>5, PartsBelow
      <3>2. i \in DOMAIN Tuples[T]
        BY <2>1, <3>1, TypeParts
      <3>3. Tuples[T][i] \in Types
        BY <2>1, <3>2, TypeParts
      <3> QED
        BY <1>3, <3>1, <3>3, Zenon
    <2>2. TupleIrrefutable(f, p, T) <=> TupleIrrefutable(g, p, T)
      BY <2>1, Zenon DEF TupleIrrefutable
    <2>3. TupleIrrefutable(f, p, T) = TupleIrrefutable(g, p, T)
      BY <2>2, Zenon DEF TupleIrrefutable
    <2>4. p.form \notin {"wildcard", "binding", "alias", "type"}
      BY <1>5
    <2> QED
      BY <1>2, <1>5, <2>3, <2>4, Zenon DEF IrrefutableBy
  <1>6. CASE p.form = "record"
    <2>1. ASSUME HasTarget(p, T), NEW i \in DOMAIN p.fields, i \in DOMAIN FieldTypes(p, T)
          PROVE  f[<<p.fields[i], FieldTypes(p, T)[i]>>] = g[<<p.fields[i], FieldTypes(p, T)[i]>>]
      <3>1. p.fields[i] \in AllPatterns /\ p.fields[i].depth < p.depth
        BY <1>6, PartsBelow
      <3>2. FieldTypes(p, T)[i] \in Types
        BY <2>1, FieldTypesTyped, Zenon
      <3> QED
        BY <1>3, <3>1, <3>2, Zenon
    <2>2. RecordIrrefutable(f, p, T) <=> RecordIrrefutable(g, p, T)
      <3>1. HasTarget(p, T) => \A i \in DOMAIN p.fields : i \in DOMAIN FieldTypes(p, T) =>
              f[<<p.fields[i], FieldTypes(p, T)[i]>>] = g[<<p.fields[i], FieldTypes(p, T)[i]>>]
        BY <2>1, Zenon
      <3> QED
        BY <3>1, Zenon DEF RecordIrrefutable
    <2>3. RecordIrrefutable(f, p, T) = RecordIrrefutable(g, p, T)
      BY <2>2, Zenon DEF RecordIrrefutable
    <2>4. p.form \notin {"wildcard", "binding", "alias", "type", "tuple", "list"}
      BY <1>6
    <2> QED
      BY <1>2, <1>6, <2>3, <2>4, Zenon DEF IrrefutableBy
  <1>7. CASE p.form \notin {"alias", "tuple", "record"}
    BY <1>2, <1>7, Zenon DEF IrrefutableBy
  <1> QED
    BY <1>4, <1>5, <1>6, <1>7

LEMMA IrrefutableTyped ==
  ASSUME NEW q \in AllPatterns \X Types, NEW f \in [AllPatterns \X Types -> BOOLEAN]
  PROVE  IrrefutableBy(f, q) \in BOOLEAN
  <1>1. PICK p \in AllPatterns, T \in Types : q = <<p, T>>
    OBVIOUS
  <1>2. q[1] = p /\ q[2] = T
    BY <1>1
  <1>3. CASE p.form = "alias"
    <2>1. p.inner \in AllPatterns
      BY <1>3, PartsBelow
    <2>2. f[<<p.inner, T>>] \in BOOLEAN
      BY <2>1
    <2> QED
      BY <1>2, <1>3, <2>2, Zenon DEF IrrefutableBy
  <1>4. CASE p.form # "alias"
    <2>1. /\ TupleIrrefutable(f, p, T) \in BOOLEAN /\ ListIrrefutable(p, T) \in BOOLEAN
          /\ RecordIrrefutable(f, p, T) \in BOOLEAN /\ Assignable(T, p.target) \in BOOLEAN
      BY DEF TupleIrrefutable, ListIrrefutable, RecordIrrefutable, Assignable
    <2> QED
      BY <1>2, <1>4, <2>1, Zenon DEF IrrefutableBy
  <1> QED
    BY <1>3, <1>4

LEMMA IrrefutablePatternsIs ==
  ASSUME NEW D, Paired(D, Types)
  PROVE  /\ IrrefutablePatterns \in [D -> BOOLEAN]
         /\ \A q \in D : IrrefutablePatterns[q] = IrrefutableBy(IrrefutablePatterns, q)
  <1> USE DEF Paired
  <1> DEFINE depth == Depths(D)
             F == [q \in D |-> [f \in [D -> BOOLEAN] |-> IrrefutableBy(f, q)]]
             Defines(f) == f = [q \in D |-> IrrefutableBy(f, q)]
  <1>1. depth \in [D -> Nat]
    BY DepthsOK
  <1>2. \A f \in [D -> BOOLEAN] : \A q \in D : IrrefutableBy(f, q) \in BOOLEAN
    BY IrrefutableTyped
  <1>3. F \in [D -> [[D -> BOOLEAN] -> BOOLEAN]]
    <2> HIDE DEF Paired
    <2> QED
      BY <1>2
  <1>4. ASSUME NEW q \in D, NEW f, NEW g, \A e \in D : depth[e] < depth[q] => f[e] = g[e]
        PROVE  IrrefutableBy(f, q) = IrrefutableBy(g, q)
    <2>1. AgreeBelow(f, g, Types, q[1])
      <3>1. q \in AllPatterns \X Types
        OBVIOUS
      <3>2. PICK e : e = Depths(D)
        OBVIOUS
      <3>3. \A r \in D : e[r] < e[q] => f[r] = g[r]
        BY <1>4, <3>2
      <3> QED
        BY <3>1, <3>2, <3>3, AgreesBelow
    <2> QED
      BY <2>1, IrrefutableGrounded
  <1> HIDE DEF Paired
  <1>5. Grounded(F, D, BOOLEAN, depth)
    <2> SUFFICES ASSUME NEW q \in D, NEW f \in [D -> BOOLEAN], NEW g \in [D -> BOOLEAN],
                        \A e \in D : depth[e] < depth[q] => f[e] = g[e]
                 PROVE  F[q][f] = F[q][g]
      BY DEF Grounded
    <2>1. IrrefutableBy(f, q) = IrrefutableBy(g, q)
      BY <1>4
    <2> QED
      BY <2>1
  <1>6. PICK h \in [D -> BOOLEAN] : \A q \in D : h[q] = F[q][h]
    <2>1. BOOLEAN # {}
      OBVIOUS
    <2> HIDE DEF depth, F
    <2>2. Recursive(F, D, BOOLEAN, depth)
      BY <1>1, <1>3, <1>5, <2>1 DEF Recursive
    <2>3. \E h \in [D -> BOOLEAN] : \A d \in D : h[d] = F[d][h]
      BY <2>2, Recursion
    <2> QED
      BY <2>3
  <1>7. \A q \in D : h[q] = IrrefutableBy(h, q)
    BY <1>6
  <1>8. Defines(h)
    BY <1>6, <1>7
  <1>9. PICK f : f = CHOOSE g : Defines(g)
    OBVIOUS
  <1>10. Defines(f)
    BY <1>8, <1>9
  <1>11. IrrefutablePatterns = f
    BY <1>9, Zenon DEF IrrefutablePatterns, IrrefutableBy, TupleIrrefutable, ListIrrefutable, RecordIrrefutable, Paired
  <1>12. \A q \in D : f[q] = IrrefutableBy(f, q)
    BY <1>10
  <1>13. \A q \in D : (\A e \in D : depth[e] < depth[q] => f[e] = h[e]) => f[q] = h[q]
    <2> SUFFICES ASSUME NEW q \in D, \A e \in D : depth[e] < depth[q] => f[e] = h[e]
                 PROVE  f[q] = h[q]
      OBVIOUS
    <2>1. IrrefutableBy(f, q) = IrrefutableBy(h, q)
      BY <1>4
    <2> QED
      BY <1>7, <1>12, <2>1
  <1>14. \A q \in D : f[q] = h[q]
    <2> HIDE DEF depth
    <2> QED
      BY <1>1, <1>13, Agree
  <1>15. f \in [D -> BOOLEAN]
    <2>1. \A q \in D : f[q] \in BOOLEAN
      BY <1>14
    <2>2. f = [q \in D |-> f[q]]
      BY <1>10
    <2> QED
      BY <2>1, <2>2
  <1> QED
    BY <1>11, <1>12, <1>15

\* What an irrefutable pattern tells of its parts.
LEMMA IrrefutableParts ==
  ASSUME NEW p \in AllPatterns, NEW T \in Types, PatternIsIrrefutable(p, T)
  PROVE  /\ p.form = "alias" => PatternIsIrrefutable(p.inner, T)
         /\ p.form = "type" => Assignable(T, p.target)
         /\ p.form = "tuple" =>
              /\ T \in DOMAIN Tuples /\ Len(Tuples[T]) = Len(p.elements)
              /\ \A i \in DOMAIN p.elements : PatternIsIrrefutable(p.elements[i], Tuples[T][i])
         /\ p.form = "list" => p.elements = << >> /\ p.rest /\ T \in DOMAIN Vectors
         /\ p.form = "record" =>
              /\ HasTarget(p, T) /\ ~IsCase(p) /\ Assignable(T, TargetOf(p, T))
              /\ \A f \in DOMAIN p.fields :
                   f \in DOMAIN FieldTypes(p, T) /\ PatternIsIrrefutable(p.fields[f], FieldTypes(p, T)[f])
         /\ p.form \in {"wildcard", "binding", "alias", "type", "tuple", "list", "record"}
  <1>1. PICK q : q = <<p, T>>
    OBVIOUS
  <1>2. q \in AllPatterns \X Types /\ q[1] = p /\ q[2] = T
    BY <1>1
  <1>3. IrrefutablePatterns[q] = IrrefutableBy(IrrefutablePatterns, q)
    BY <1>2, IrrefutablePatternsIs DEF Paired
  <1>4. IrrefutableBy(IrrefutablePatterns, q)
    BY <1>1, <1>3, Zenon DEF PatternIsIrrefutable
  <1>5. p.form = "alias" => IrrefutablePatterns[<<p.inner, T>>]
    <2>1. "alias" \notin {"wildcard", "binding"}
      OBVIOUS
    <2> QED
      BY <1>2, <1>4, <2>1, Zenon DEF IrrefutableBy
  <1>6. p.form = "type" => Assignable(T, p.target)
    <2>1. "type" \notin {"wildcard", "binding"} /\ "type" # "alias"
      OBVIOUS
    <2> QED
      BY <1>2, <1>4, <2>1, Zenon DEF IrrefutableBy
  <1>7. p.form = "tuple" => TupleIrrefutable(IrrefutablePatterns, p, T)
    <2>1. "tuple" \notin {"wildcard", "binding"} /\ "tuple" # "alias" /\ "tuple" # "type"
      OBVIOUS
    <2> QED
      BY <1>2, <1>4, <2>1, Zenon DEF IrrefutableBy
  <1>8. p.form = "list" => ListIrrefutable(p, T)
    <2>1. "list" \notin {"wildcard", "binding"} /\ "list" # "alias" /\ "list" # "type" /\ "list" # "tuple"
      OBVIOUS
    <2> QED
      BY <1>2, <1>4, <2>1, Zenon DEF IrrefutableBy
  <1>9. p.form = "record" => RecordIrrefutable(IrrefutablePatterns, p, T)
    <2>1. /\ "record" \notin {"wildcard", "binding"} /\ "record" # "alias" /\ "record" # "type"
          /\ "record" # "tuple" /\ "record" # "list"
      OBVIOUS
    <2> QED
      BY <1>2, <1>4, <2>1, Zenon DEF IrrefutableBy
  <1>10. p.form \in {"wildcard", "binding", "alias", "type", "tuple", "list", "record"}
    <2> SUFFICES ASSUME p.form \notin {"wildcard", "binding", "alias", "type", "tuple", "list", "record"}
                 PROVE  FALSE
      OBVIOUS
    <2>1. /\ p.form \notin {"wildcard", "binding"} /\ p.form # "alias" /\ p.form # "type"
          /\ p.form # "tuple" /\ p.form # "list" /\ p.form # "record"
      OBVIOUS
    <2> QED
      BY <1>2, <1>4, <2>1, Zenon DEF IrrefutableBy
  <1> QED
    BY <1>5, <1>6, <1>7, <1>8, <1>9, <1>10, Zenon
       DEF PatternIsIrrefutable, TupleIrrefutable, ListIrrefutable, RecordIrrefutable

-----------------------------------------------------------------------------
(* What the literal form of a source proves. *)

LEMMA SourceParts ==
  ASSUME NEW s \in AllSources
  PROVE  /\ s.denotes \in AllValues
         /\ s.expr = "literal" => s.denotes = Flag(s.value)
         /\ s.expr \in {"tuple", "list"} =>
              /\ s.denotes.of \in IF s.expr = "tuple" THEN DOMAIN Tuples ELSE DOMAIN Vectors
              /\ s.items \in Seq(AllSources) /\ Len(s.denotes.items) = Len(s.items)
              /\ \A i \in DOMAIN s.items : s.denotes.items[i] = s.items[i].denotes
              /\ \A i \in DOMAIN s.items : s.items[i] \in AllSources
         /\ s.expr = "construct" =>
              /\ s.denotes.of = s.path /\ s.path \in DOMAIN Fields
              /\ DOMAIN s.denotes.fields = DOMAIN s.fields
              /\ \A f \in DOMAIN s.fields : s.fields[f] \in AllSources /\ s.denotes.fields[f] = s.fields[f].denotes
  <1>1. /\ s.denotes \in AllValues
        /\ s.expr = "literal" => s.denotes = Flag(s.value)
        /\ s.expr \in {"tuple", "list"} =>
             /\ s.denotes.of \in IF s.expr = "tuple" THEN DOMAIN Tuples ELSE DOMAIN Vectors
             /\ s.items \in Seq(AllSources) /\ Len(s.denotes.items) = Len(s.items)
             /\ \A i \in DOMAIN s.items : s.denotes.items[i] = s.items[i].denotes
        /\ s.expr = "construct" =>
             /\ s.denotes.of = s.path /\ s.path \in DOMAIN Fields
             /\ DOMAIN s.denotes.fields = DOMAIN s.fields
             /\ \A f \in DOMAIN s.fields : s.fields[f] \in AllSources /\ s.denotes.fields[f] = s.fields[f].denotes
    BY SourceAssumption, Zenon
  <1>2. \A t \in Seq(AllSources) : \A i \in DOMAIN t : t[i] \in AllSources
    OBVIOUS
  <1> QED
    BY <1>1, <1>2, Zenon

TupleProved(f, p, source) ==
  /\ source.expr = "tuple" /\ Len(source.items) = Len(p.elements)
  /\ \A i \in DOMAIN p.elements : f[<<p.elements[i], source.items[i]>>]

ListProved(f, p, source) ==
  /\ source.expr = "list"
  /\ p.rest \/ Len(source.items) = Len(p.elements)
  /\ Len(source.items) >= Len(p.elements)
  /\ \A i \in DOMAIN p.elements : f[<<p.elements[i], source.items[i]>>]

RecordProved(f, p, source) ==
  /\ source.expr = "construct" /\ source.path = p.path
  /\ DOMAIN source.fields = DOMAIN p.fields
  /\ DOMAIN p.fields = {} \/ p.shorthand
  /\ \A g \in DOMAIN p.fields : f[<<p.fields[g], source.fields[g]>>]

ProvedBy(f, q) ==
  LET p == q[1] source == q[2] IN
  IF p.form \in {"wildcard", "binding"} THEN TRUE
  ELSE IF p.form = "alias" THEN f[<<p.inner, source>>]
  ELSE IF p.form = "tuple" THEN TupleProved(f, p, source)
  ELSE IF p.form = "list" THEN ListProved(f, p, source)
  ELSE IF p.form = "literal" THEN source.expr = "literal" /\ source.value = p.value
  ELSE IF p.form = "record" THEN RecordProved(f, p, source)
  ELSE FALSE

\* The elements of the pattern are no more than the items of the source.
LEMMA ItemsOf ==
  ASSUME NEW p \in AllPatterns, p.form \in {"tuple", "list"},
         NEW s \in AllSources, s.expr \in {"tuple", "list"}, Len(s.items) >= Len(p.elements)
  PROVE  \A i \in DOMAIN p.elements :
           /\ p.elements[i] \in AllPatterns /\ p.elements[i].depth < p.depth
           /\ i \in DOMAIN s.items /\ s.items[i] \in AllSources
  <1>1. /\ p.elements \in Seq(AllPatterns)
        /\ \A i \in DOMAIN p.elements : p.elements[i] \in AllPatterns /\ p.elements[i].depth < p.depth
    BY PartsBelow
  <1>2. s.items \in Seq(AllSources)
    BY SourceParts
  <1> QED
    BY <1>1, <1>2

LEMMA ProvedGrounded ==
  ASSUME NEW q \in AllPatterns \X AllSources, NEW f, NEW g, AgreeBelow(f, g, AllSources, q[1])
  PROVE  ProvedBy(f, q) = ProvedBy(g, q)
  <1>1. PICK p \in AllPatterns, s \in AllSources : q = <<p, s>>
    OBVIOUS
  <1>2. q[1] = p /\ q[2] = s
    BY <1>1
  <1>3. \A part \in AllPatterns : \A S \in AllSources :
          part.depth < p.depth => f[<<part, S>>] = g[<<part, S>>]
    BY <1>2 DEF AgreeBelow
  <1>4. CASE p.form = "alias"
    <2>1. f[<<p.inner, s>>] = g[<<p.inner, s>>]
      BY <1>3, <1>4, PartsBelow, Zenon
    <2>2. p.form \notin {"wildcard", "binding"}
      BY <1>4
    <2> QED
      BY <1>2, <1>4, <2>1, <2>2, Zenon DEF ProvedBy
  <1>5. ASSUME p.form \in {"tuple", "list"}, s.expr \in {"tuple", "list"}, Len(s.items) >= Len(p.elements)
        PROVE  \A i \in DOMAIN p.elements : f[<<p.elements[i], s.items[i]>>] = g[<<p.elements[i], s.items[i]>>]
    BY <1>3, <1>5, ItemsOf, Zenon
  <1>6. CASE p.form = "tuple"
    <2>1. s.expr = "tuple" /\ Len(s.items) = Len(p.elements) =>
            s.expr \in {"tuple", "list"} /\ Len(s.items) >= Len(p.elements)
      <3>1. p.elements \in Seq(AllPatterns)
        BY <1>6, PartsBelow
      <3>2. Len(p.elements) \in Nat
        BY <3>1
      <3> QED
        BY <3>2
    <2>2. p.form \in {"tuple", "list"}
      BY <1>6
    <2>3. TupleProved(f, p, s) <=> TupleProved(g, p, s)
      BY <1>5, <2>1, <2>2, Zenon DEF TupleProved
    <2>4. TupleProved(f, p, s) = TupleProved(g, p, s)
      BY <2>3, Zenon DEF TupleProved
    <2>5. p.form \notin {"wildcard", "binding", "alias"}
      BY <1>6
    <2> QED
      BY <1>2, <1>6, <2>4, <2>5, Zenon DEF ProvedBy
  <1>7. CASE p.form = "list"
    <2>1. s.expr = "list" => s.expr \in {"tuple", "list"}
      OBVIOUS
    <2>2. p.form \in {"tuple", "list"}
      BY <1>7
    <2>3. ListProved(f, p, s) <=> ListProved(g, p, s)
      BY <1>5, <2>1, <2>2, Zenon DEF ListProved
    <2>4. ListProved(f, p, s) = ListProved(g, p, s)
      BY <2>3, Zenon DEF ListProved
    <2>5. p.form \notin {"wildcard", "binding", "alias", "tuple"}
      BY <1>7
    <2> QED
      BY <1>2, <1>7, <2>4, <2>5, Zenon DEF ProvedBy
  <1>8. CASE p.form = "record"
    <2>1. ASSUME s.expr = "construct", DOMAIN s.fields = DOMAIN p.fields, NEW i \in DOMAIN p.fields
          PROVE  f[<<p.fields[i], s.fields[i]>>] = g[<<p.fields[i], s.fields[i]>>]
      <3>1. p.fields[i] \in AllPatterns /\ p.fields[i].depth < p.depth
        BY <1>8, PartsBelow
      <3>2. s.fields[i] \in AllSources
        BY <2>1, SourceParts
      <3> QED
        BY <1>3, <3>1, <3>2, Zenon
    <2>2. RecordProved(f, p, s) <=> RecordProved(g, p, s)
      <3>1. s.expr = "construct" /\ DOMAIN s.fields = DOMAIN p.fields =>
              \A i \in DOMAIN p.fields : f[<<p.fields[i], s.fields[i]>>] = g[<<p.fields[i], s.fields[i]>>]
        BY <2>1, Zenon
      <3> QED
        BY <3>1, Zenon DEF RecordProved
    <2>3. RecordProved(f, p, s) = RecordProved(g, p, s)
      BY <2>2, Zenon DEF RecordProved
    <2>4. p.form \notin {"wildcard", "binding", "alias", "tuple", "list", "literal"}
      BY <1>8
    <2> QED
      BY <1>2, <1>8, <2>3, <2>4, Zenon DEF ProvedBy
  <1>9. CASE p.form \notin {"alias", "tuple", "list", "record"}
    BY <1>2, <1>9, Zenon DEF ProvedBy
  <1> QED
    BY <1>4, <1>6, <1>7, <1>8, <1>9

LEMMA ProvedTyped ==
  ASSUME NEW q \in AllPatterns \X AllSources, NEW f \in [AllPatterns \X AllSources -> BOOLEAN]
  PROVE  ProvedBy(f, q) \in BOOLEAN
  <1>1. PICK p \in AllPatterns, s \in AllSources : q = <<p, s>>
    OBVIOUS
  <1>2. q[1] = p /\ q[2] = s
    BY <1>1
  <1>3. CASE p.form = "alias"
    <2>1. p.inner \in AllPatterns
      BY <1>3, PartsBelow
    <2>2. f[<<p.inner, s>>] \in BOOLEAN
      BY <2>1
    <2> QED
      BY <1>2, <1>3, <2>2, Zenon DEF ProvedBy
  <1>4. CASE p.form # "alias"
    <2>1. /\ TupleProved(f, p, s) \in BOOLEAN /\ ListProved(f, p, s) \in BOOLEAN
          /\ RecordProved(f, p, s) \in BOOLEAN
      BY DEF TupleProved, ListProved, RecordProved
    <2> QED
      BY <1>2, <1>4, <2>1, Zenon DEF ProvedBy
  <1> QED
    BY <1>3, <1>4

LEMMA PatternProofsIs ==
  ASSUME NEW D, Paired(D, AllSources)
  PROVE  /\ PatternProofs \in [D -> BOOLEAN]
         /\ \A q \in D : PatternProofs[q] = ProvedBy(PatternProofs, q)
  <1> USE DEF Paired
  <1> DEFINE depth == Depths(D)
             F == [q \in D |-> [f \in [D -> BOOLEAN] |-> ProvedBy(f, q)]]
             Defines(f) == f = [q \in D |-> ProvedBy(f, q)]
  <1>1. depth \in [D -> Nat]
    BY DepthsOK
  <1>2. \A f \in [D -> BOOLEAN] : \A q \in D : ProvedBy(f, q) \in BOOLEAN
    BY ProvedTyped
  <1>3. F \in [D -> [[D -> BOOLEAN] -> BOOLEAN]]
    <2> HIDE DEF Paired
    <2> QED
      BY <1>2
  <1>4. ASSUME NEW q \in D, NEW f, NEW g, \A e \in D : depth[e] < depth[q] => f[e] = g[e]
        PROVE  ProvedBy(f, q) = ProvedBy(g, q)
    <2>1. AgreeBelow(f, g, AllSources, q[1])
      <3>1. q \in AllPatterns \X AllSources
        OBVIOUS
      <3>2. PICK e : e = Depths(D)
        OBVIOUS
      <3>3. \A r \in D : e[r] < e[q] => f[r] = g[r]
        BY <1>4, <3>2
      <3> QED
        BY <3>1, <3>2, <3>3, AgreesBelow
    <2> QED
      BY <2>1, ProvedGrounded
  <1> HIDE DEF Paired
  <1>5. Grounded(F, D, BOOLEAN, depth)
    <2> SUFFICES ASSUME NEW q \in D, NEW f \in [D -> BOOLEAN], NEW g \in [D -> BOOLEAN],
                        \A e \in D : depth[e] < depth[q] => f[e] = g[e]
                 PROVE  F[q][f] = F[q][g]
      BY DEF Grounded
    <2>1. ProvedBy(f, q) = ProvedBy(g, q)
      BY <1>4
    <2> QED
      BY <2>1
  <1>6. PICK h \in [D -> BOOLEAN] : \A q \in D : h[q] = F[q][h]
    <2>1. BOOLEAN # {}
      OBVIOUS
    <2> HIDE DEF depth, F
    <2>2. Recursive(F, D, BOOLEAN, depth)
      BY <1>1, <1>3, <1>5, <2>1 DEF Recursive
    <2>3. \E h \in [D -> BOOLEAN] : \A d \in D : h[d] = F[d][h]
      BY <2>2, Recursion
    <2> QED
      BY <2>3
  <1>7. \A q \in D : h[q] = ProvedBy(h, q)
    BY <1>6
  <1>8. Defines(h)
    BY <1>6, <1>7
  <1>9. PICK f : f = CHOOSE g : Defines(g)
    OBVIOUS
  <1>10. Defines(f)
    BY <1>8, <1>9
  <1>11. PatternProofs = f
    BY <1>9, Zenon DEF PatternProofs, ProvedBy, TupleProved, ListProved, RecordProved, Paired
  <1>12. \A q \in D : f[q] = ProvedBy(f, q)
    BY <1>10
  <1>13. \A q \in D : (\A e \in D : depth[e] < depth[q] => f[e] = h[e]) => f[q] = h[q]
    <2> SUFFICES ASSUME NEW q \in D, \A e \in D : depth[e] < depth[q] => f[e] = h[e]
                 PROVE  f[q] = h[q]
      OBVIOUS
    <2>1. ProvedBy(f, q) = ProvedBy(h, q)
      BY <1>4
    <2> QED
      BY <1>7, <1>12, <2>1
  <1>14. \A q \in D : f[q] = h[q]
    <2> HIDE DEF depth
    <2> QED
      BY <1>1, <1>13, Agree
  <1>15. f \in [D -> BOOLEAN]
    <2>1. \A q \in D : f[q] \in BOOLEAN
      BY <1>14
    <2>2. f = [q \in D |-> f[q]]
      BY <1>10
    <2> QED
      BY <2>1, <2>2
  <1> QED
    BY <1>11, <1>12, <1>15

-----------------------------------------------------------------------------
(* What it means to match, and what the lowered tests yield. *)

ItemsMatch(f, p, v) ==
  /\ v.of \in IF p.form = "tuple" THEN DOMAIN Tuples ELSE DOMAIN Vectors
  /\ Len(v.items) >= Len(p.elements)
  /\ p.form = "tuple" \/ p.rest \/ Len(v.items) = Len(p.elements)
  /\ \A i \in DOMAIN p.elements : f[<<p.elements[i], v.items[i]>>]

RecordMatches(f, p, v) ==
  /\ HasFields(v) /\ p.path \in {"", v.of}
  /\ \A g \in DOMAIN p.fields : g \in DOMAIN v.fields /\ f[<<p.fields[g], v.fields[g]>>]

MatchesBy(f, q) ==
  LET p == q[1] v == q[2] IN
  IF p.form = "alias" THEN f[<<p.inner, v>>]
  ELSE IF p.form = "literal" THEN v = Flag(p.value)
  ELSE IF p.form = "type" THEN OfType(v, p.target)
  ELSE IF p.form \in {"tuple", "list"} THEN ItemsMatch(f, p, v)
  ELSE IF p.form = "record" THEN RecordMatches(f, p, v)
  ELSE TRUE

ItemPlan(f, p, v, i) ==
  IF DeferredListItem(p.elements[i]) THEN "yes"
  ELSE IF i > Len(v.items) THEN "error"
  ELSE f[<<p.elements[i], v.items[i]>>]

TuplePlan(f, p, v) ==
  IF v.of \notin DOMAIN Tuples \/ Len(p.elements) > Len(v.items) THEN "error"
  ELSE CombineConditions({f[<<p.elements[i], v.items[i]>>] : i \in DOMAIN p.elements})

ListPlan(f, p, v) ==
  IF v.of \notin DOMAIN Vectors THEN "error"
  ELSE CombineConditions(
         {Holds(IF p.rest THEN Len(v.items) >= Len(p.elements) ELSE Len(v.items) = Len(p.elements))}
         \cup {ItemPlan(f, p, v, i) : i \in DOMAIN p.elements})

RecordPlan(f, p, v) ==
  CombineConditions(
    {Holds(p.path = "" \/ ValueMatchesType(v, p.path))} \cup
    {f[<<p.fields[g], PatternField(v, g)>>] : g \in {h \in DOMAIN p.fields : ~Deferred(p.fields[h])}})

PlanBy(f, q) ==
  LET p == q[1] v == q[2] IN
  IF p.form = "alias" THEN f[<<p.inner, v>>]
  ELSE IF p.form = "literal" THEN Holds(v.of = "Bool" /\ v.value = p.value)
  ELSE IF p.form = "type" THEN Holds(ValueMatchesType(v, p.target))
  ELSE IF p.form = "tuple" THEN TuplePlan(f, p, v)
  ELSE IF p.form = "list" THEN ListPlan(f, p, v)
  ELSE IF p.form = "record" THEN RecordPlan(f, p, v)
  ELSE "yes"

Verdicts == {"yes", "no", "error"}

\* The elements of a pattern and the items of a value that has as many.
LEMMA ItemsAt ==
  ASSUME NEW p \in AllPatterns, p.form \in {"tuple", "list"}, NEW v \in AllValues,
         v.of \in DOMAIN Tuples \/ v.of \in DOMAIN Vectors
  PROVE  /\ Len(v.items) \in Nat /\ Len(p.elements) \in Nat
         /\ DOMAIN v.items = 1 .. Len(v.items) /\ DOMAIN p.elements = 1 .. Len(p.elements)
         /\ \A i \in DOMAIN p.elements : p.elements[i] \in AllPatterns /\ p.elements[i].depth < p.depth
         /\ \A i \in DOMAIN v.items : v.items[i] \in AllValues
  <1>1. /\ p.elements \in Seq(AllPatterns)
        /\ \A i \in DOMAIN p.elements : p.elements[i] \in AllPatterns /\ p.elements[i].depth < p.depth
    BY PartsBelow
  <1>2. v.items \in Seq(AllValues)
    BY ValueParts
  <1> QED
    BY <1>1, <1>2

LEMMA FieldInValues ==
  ASSUME NEW v \in AllValues, NEW g
  PROVE  PatternField(v, g) \in AllValues
  <1>1. Unit \in AllValues
    BY ValueAssumption, Zenon
  <1>2. HasFields(v) /\ g \in DOMAIN v.fields => v.fields[g] \in AllValues
    BY ValueParts DEF HasFields
  <1> QED
    BY <1>1, <1>2, Zenon DEF PatternField

LEMMA MatchesGrounded ==
  ASSUME NEW q \in AllPatterns \X AllValues, NEW f, NEW g, AgreeBelow(f, g, AllValues, q[1])
  PROVE  MatchesBy(f, q) = MatchesBy(g, q)
  <1>1. PICK p \in AllPatterns, v \in AllValues : q = <<p, v>>
    OBVIOUS
  <1>2. q[1] = p /\ q[2] = v
    BY <1>1
  <1>3. \A part \in AllPatterns : \A w \in AllValues :
          part.depth < p.depth => f[<<part, w>>] = g[<<part, w>>]
    BY <1>2 DEF AgreeBelow
  <1>4. CASE p.form = "alias"
    <2>1. f[<<p.inner, v>>] = g[<<p.inner, v>>]
      BY <1>3, <1>4, PartsBelow, Zenon
    <2> QED
      BY <1>2, <1>4, <2>1, Zenon DEF MatchesBy
  <1>5. CASE p.form \in {"tuple", "list"}
    <2>1. ASSUME v.of \in DOMAIN Tuples \/ v.of \in DOMAIN Vectors, Len(v.items) >= Len(p.elements),
                 NEW i \in DOMAIN p.elements
          PROVE  f[<<p.elements[i], v.items[i]>>] = g[<<p.elements[i], v.items[i]>>]
      <3>1. /\ Len(v.items) \in Nat /\ Len(p.elements) \in Nat
            /\ DOMAIN v.items = 1 .. Len(v.items) /\ DOMAIN p.elements = 1 .. Len(p.elements)
            /\ p.elements[i] \in AllPatterns /\ p.elements[i].depth < p.depth
            /\ \A j \in DOMAIN v.items : v.items[j] \in AllValues
        BY <1>5, <2>1, ItemsAt
      <3>2. v.items[i] \in AllValues
        BY <2>1, <3>1
      <3> QED
        BY <1>3, <3>1, <3>2, Zenon
    <2>2. v.of \in (IF p.form = "tuple" THEN DOMAIN Tuples ELSE DOMAIN Vectors) =>
            v.of \in DOMAIN Tuples \/ v.of \in DOMAIN Vectors
      OBVIOUS
    <2>3. ItemsMatch(f, p, v) <=> ItemsMatch(g, p, v)
      BY <2>1, <2>2, Zenon DEF ItemsMatch
    <2>4. ItemsMatch(f, p, v) = ItemsMatch(g, p, v)
      BY <2>3, Zenon DEF ItemsMatch
    <2>5. p.form \notin {"alias", "literal", "type"}
      BY <1>5
    <2> QED
      BY <1>2, <1>5, <2>4, <2>5, Zenon DEF MatchesBy
  <1>6. CASE p.form = "record"
    <2>1. ASSUME HasFields(v), NEW i \in DOMAIN p.fields, i \in DOMAIN v.fields
          PROVE  f[<<p.fields[i], v.fields[i]>>] = g[<<p.fields[i], v.fields[i]>>]
      <3>1. p.fields[i] \in AllPatterns /\ p.fields[i].depth < p.depth
        BY <1>6, PartsBelow
      <3>2. v.fields[i] \in AllValues
        BY <2>1, ValueParts DEF HasFields
      <3> QED
        BY <1>3, <3>1, <3>2, Zenon
    <2>2. RecordMatches(f, p, v) <=> RecordMatches(g, p, v)
      <3>1. HasFields(v) => \A i \in DOMAIN p.fields : i \in DOMAIN v.fields =>
              f[<<p.fields[i], v.fields[i]>>] = g[<<p.fields[i], v.fields[i]>>]
        BY <2>1, Zenon
      <3> QED
        BY <3>1, Zenon DEF RecordMatches
    <2>3. RecordMatches(f, p, v) = RecordMatches(g, p, v)
      BY <2>2, Zenon DEF RecordMatches
    <2>4. p.form \notin {"alias", "literal", "type", "tuple", "list"}
      BY <1>6
    <2> QED
      BY <1>2, <1>6, <2>3, <2>4, Zenon DEF MatchesBy
  <1>7. CASE p.form \notin {"alias", "tuple", "list", "record"}
    <2>1. p.form \notin {"tuple", "list"}
      BY <1>7
    <2> QED
      BY <1>2, <1>7, <2>1, Zenon DEF MatchesBy
  <1> QED
    BY <1>4, <1>5, <1>6, <1>7

LEMMA MatchesTyped ==
  ASSUME NEW q \in AllPatterns \X AllValues, NEW f \in [AllPatterns \X AllValues -> BOOLEAN]
  PROVE  MatchesBy(f, q) \in BOOLEAN
  <1>1. PICK p \in AllPatterns, v \in AllValues : q = <<p, v>>
    OBVIOUS
  <1>2. q[1] = p /\ q[2] = v
    BY <1>1
  <1>3. CASE p.form = "alias"
    <2>1. p.inner \in AllPatterns
      BY <1>3, PartsBelow
    <2>2. f[<<p.inner, v>>] \in BOOLEAN
      BY <2>1
    <2> QED
      BY <1>2, <1>3, <2>2, Zenon DEF MatchesBy
  <1>4. CASE p.form # "alias"
    <2>1. ItemsMatch(f, p, v) \in BOOLEAN /\ RecordMatches(f, p, v) \in BOOLEAN /\ OfType(v, p.target) \in BOOLEAN
      BY DEF ItemsMatch, RecordMatches, OfType
    <2> QED
      BY <1>2, <1>4, <2>1, Zenon DEF MatchesBy
  <1> QED
    BY <1>3, <1>4

LEMMA PlanGrounded ==
  ASSUME NEW q \in AllPatterns \X AllValues, NEW f, NEW g, AgreeBelow(f, g, AllValues, q[1])
  PROVE  PlanBy(f, q) = PlanBy(g, q)
  <1>1. PICK p \in AllPatterns, v \in AllValues : q = <<p, v>>
    OBVIOUS
  <1>2. q[1] = p /\ q[2] = v
    BY <1>1
  <1>3. \A part \in AllPatterns : \A w \in AllValues :
          part.depth < p.depth => f[<<part, w>>] = g[<<part, w>>]
    BY <1>2 DEF AgreeBelow
  <1>4. CASE p.form = "alias"
    <2>1. f[<<p.inner, v>>] = g[<<p.inner, v>>]
      BY <1>3, <1>4, PartsBelow, Zenon
    <2> QED
      BY <1>2, <1>4, <2>1, Zenon DEF PlanBy
  <1>5. ASSUME p.form \in {"tuple", "list"}, v.of \in DOMAIN Tuples \/ v.of \in DOMAIN Vectors,
               NEW i \in DOMAIN p.elements, ~(i > Len(v.items))
        PROVE  f[<<p.elements[i], v.items[i]>>] = g[<<p.elements[i], v.items[i]>>]
    <2>1. /\ Len(v.items) \in Nat /\ Len(p.elements) \in Nat
          /\ DOMAIN v.items = 1 .. Len(v.items) /\ DOMAIN p.elements = 1 .. Len(p.elements)
          /\ p.elements[i] \in AllPatterns /\ p.elements[i].depth < p.depth
          /\ \A j \in DOMAIN v.items : v.items[j] \in AllValues
      BY <1>5, ItemsAt
    <2>2. v.items[i] \in AllValues
      BY <1>5, <2>1
    <2> QED
      BY <1>3, <2>1, <2>2, Zenon
  <1>6. CASE p.form = "tuple"
    <2>1. ASSUME v.of \in DOMAIN Tuples, ~(Len(p.elements) > Len(v.items)), NEW i \in DOMAIN p.elements
          PROVE  f[<<p.elements[i], v.items[i]>>] = g[<<p.elements[i], v.items[i]>>]
      <3>1. /\ Len(v.items) \in Nat /\ Len(p.elements) \in Nat /\ DOMAIN p.elements = 1 .. Len(p.elements)
        BY <1>6, <2>1, ItemsAt
      <3>2. ~(i > Len(v.items))
        BY <2>1, <3>1
      <3>3. p.form \in {"tuple", "list"}
        BY <1>6
      <3> QED
        BY <1>5, <2>1, <3>2, <3>3
    <2>2. v.of \in DOMAIN Tuples /\ ~(Len(p.elements) > Len(v.items)) =>
            {f[<<p.elements[i], v.items[i]>>] : i \in DOMAIN p.elements}
              = {g[<<p.elements[i], v.items[i]>>] : i \in DOMAIN p.elements}
      BY <2>1, Zenon
    <2>3. TuplePlan(f, p, v) = TuplePlan(g, p, v)
      BY <2>2, Zenon DEF TuplePlan
    <2>4. p.form \notin {"alias", "literal", "type"}
      BY <1>6
    <2> QED
      BY <1>2, <1>6, <2>3, <2>4, Zenon DEF PlanBy
  <1>7. CASE p.form = "list"
    <2>1. ASSUME v.of \in DOMAIN Vectors, NEW i \in DOMAIN p.elements
          PROVE  ItemPlan(f, p, v, i) = ItemPlan(g, p, v, i)
      <3>1. p.form \in {"tuple", "list"}
        BY <1>7
      <3>2. ~(i > Len(v.items)) => f[<<p.elements[i], v.items[i]>>] = g[<<p.elements[i], v.items[i]>>]
        BY <1>5, <2>1, <3>1
      <3> QED
        BY <3>2, Zenon DEF ItemPlan
    <2>2. v.of \in DOMAIN Vectors =>
            {ItemPlan(f, p, v, i) : i \in DOMAIN p.elements} = {ItemPlan(g, p, v, i) : i \in DOMAIN p.elements}
      BY <2>1, Zenon
    <2>3. ListPlan(f, p, v) = ListPlan(g, p, v)
      BY <2>2, Zenon DEF ListPlan
    <2>4. p.form \notin {"alias", "literal", "type", "tuple"}
      BY <1>7
    <2> QED
      BY <1>2, <1>7, <2>3, <2>4, Zenon DEF PlanBy
  <1>8. CASE p.form = "record"
    <2>1. \A i \in {h \in DOMAIN p.fields : ~Deferred(p.fields[h])} :
            f[<<p.fields[i], PatternField(v, i)>>] = g[<<p.fields[i], PatternField(v, i)>>]
      <3> SUFFICES ASSUME NEW i \in DOMAIN p.fields
                   PROVE  f[<<p.fields[i], PatternField(v, i)>>] = g[<<p.fields[i], PatternField(v, i)>>]
        BY Zenon
      <3>1. p.fields[i] \in AllPatterns /\ p.fields[i].depth < p.depth
        BY <1>8, PartsBelow
      <3>2. PatternField(v, i) \in AllValues
        BY FieldInValues
      <3> QED
        BY <1>3, <3>1, <3>2, Zenon
    <2>2. {f[<<p.fields[i], PatternField(v, i)>>] : i \in {h \in DOMAIN p.fields : ~Deferred(p.fields[h])}}
            = {g[<<p.fields[i], PatternField(v, i)>>] : i \in {h \in DOMAIN p.fields : ~Deferred(p.fields[h])}}
      BY <2>1, Zenon
    <2>3. RecordPlan(f, p, v) = RecordPlan(g, p, v)
      BY <2>2, Zenon DEF RecordPlan
    <2>4. p.form \notin {"alias", "literal", "type", "tuple", "list"}
      BY <1>8
    <2> QED
      BY <1>2, <1>8, <2>3, <2>4, Zenon DEF PlanBy
  <1>9. CASE p.form \notin {"alias", "tuple", "list", "record"}
    BY <1>2, <1>9, Zenon DEF PlanBy
  <1> QED
    BY <1>4, <1>6, <1>7, <1>8, <1>9

LEMMA PlanTyped ==
  ASSUME NEW q \in AllPatterns \X AllValues, NEW f \in [AllPatterns \X AllValues -> Verdicts]
  PROVE  PlanBy(f, q) \in Verdicts
  <1>1. PICK p \in AllPatterns, v \in AllValues : q = <<p, v>>
    OBVIOUS
  <1>2. q[1] = p /\ q[2] = v
    BY <1>1
  <1>3. CASE p.form = "alias"
    <2>1. p.inner \in AllPatterns
      BY <1>3, PartsBelow
    <2>2. f[<<p.inner, v>>] \in Verdicts
      BY <2>1
    <2> QED
      BY <1>2, <1>3, <2>2, Zenon DEF PlanBy
  <1>4. CASE p.form # "alias"
    <2>1. \A b : Holds(b) \in Verdicts
      BY DEF Holds, Verdicts
    <2>2. \A tests : CombineConditions(tests) \in Verdicts
      BY DEF CombineConditions, Verdicts
    <2>3. "yes" \in Verdicts /\ "error" \in Verdicts
      BY DEF Verdicts
    <2>4. TuplePlan(f, p, v) \in Verdicts /\ ListPlan(f, p, v) \in Verdicts /\ RecordPlan(f, p, v) \in Verdicts
      BY <2>2, <2>3, Zenon DEF TuplePlan, ListPlan, RecordPlan
    <2> QED
      BY <1>2, <1>4, <2>1, <2>3, <2>4, Zenon DEF PlanBy
  <1> QED
    BY <1>3, <1>4

LEMMA PatternMatchesIs ==
  ASSUME NEW D, Paired(D, AllValues)
  PROVE  /\ PatternMatches \in [D -> BOOLEAN]
         /\ \A q \in D : PatternMatches[q] = MatchesBy(PatternMatches, q)
  <1> USE DEF Paired
  <1> DEFINE depth == Depths(D)
             F == [q \in D |-> [f \in [D -> BOOLEAN] |-> MatchesBy(f, q)]]
             Defines(f) == f = [q \in D |-> MatchesBy(f, q)]
  <1>1. depth \in [D -> Nat]
    BY DepthsOK
  <1>2. \A f \in [D -> BOOLEAN] : \A q \in D : MatchesBy(f, q) \in BOOLEAN
    BY MatchesTyped
  <1>3. F \in [D -> [[D -> BOOLEAN] -> BOOLEAN]]
    <2> HIDE DEF Paired
    <2> QED
      BY <1>2
  <1>4. ASSUME NEW q \in D, NEW f, NEW g, \A e \in D : depth[e] < depth[q] => f[e] = g[e]
        PROVE  MatchesBy(f, q) = MatchesBy(g, q)
    <2>1. AgreeBelow(f, g, AllValues, q[1])
      <3>1. q \in AllPatterns \X AllValues
        OBVIOUS
      <3>2. PICK e : e = Depths(D)
        OBVIOUS
      <3>3. \A r \in D : e[r] < e[q] => f[r] = g[r]
        BY <1>4, <3>2
      <3> QED
        BY <3>1, <3>2, <3>3, AgreesBelow
    <2> QED
      BY <2>1, MatchesGrounded
  <1> HIDE DEF Paired
  <1>5. Grounded(F, D, BOOLEAN, depth)
    <2> SUFFICES ASSUME NEW q \in D, NEW f \in [D -> BOOLEAN], NEW g \in [D -> BOOLEAN],
                        \A e \in D : depth[e] < depth[q] => f[e] = g[e]
                 PROVE  F[q][f] = F[q][g]
      BY DEF Grounded
    <2>1. MatchesBy(f, q) = MatchesBy(g, q)
      BY <1>4
    <2> QED
      BY <2>1
  <1>6. PICK h \in [D -> BOOLEAN] : \A q \in D : h[q] = F[q][h]
    <2>1. BOOLEAN # {}
      OBVIOUS
    <2> HIDE DEF depth, F
    <2>2. Recursive(F, D, BOOLEAN, depth)
      BY <1>1, <1>3, <1>5, <2>1 DEF Recursive
    <2>3. \E h \in [D -> BOOLEAN] : \A d \in D : h[d] = F[d][h]
      BY <2>2, Recursion
    <2> QED
      BY <2>3
  <1>7. \A q \in D : h[q] = MatchesBy(h, q)
    BY <1>6
  <1>8. Defines(h)
    BY <1>6, <1>7
  <1>9. PICK f : f = CHOOSE g : Defines(g)
    OBVIOUS
  <1>10. Defines(f)
    BY <1>8, <1>9
  <1>11. PatternMatches = f
    BY <1>9, Zenon DEF PatternMatches, MatchesBy, ItemsMatch, RecordMatches, Paired
  <1>12. \A q \in D : f[q] = MatchesBy(f, q)
    BY <1>10
  <1>13. \A q \in D : (\A e \in D : depth[e] < depth[q] => f[e] = h[e]) => f[q] = h[q]
    <2> SUFFICES ASSUME NEW q \in D, \A e \in D : depth[e] < depth[q] => f[e] = h[e]
                 PROVE  f[q] = h[q]
      OBVIOUS
    <2>1. MatchesBy(f, q) = MatchesBy(h, q)
      BY <1>4
    <2> QED
      BY <1>7, <1>12, <2>1
  <1>14. \A q \in D : f[q] = h[q]
    <2> HIDE DEF depth
    <2> QED
      BY <1>1, <1>13, Agree
  <1>15. f \in [D -> BOOLEAN]
    <2>1. \A q \in D : f[q] \in BOOLEAN
      BY <1>14
    <2>2. f = [q \in D |-> f[q]]
      BY <1>10
    <2> QED
      BY <2>1, <2>2
  <1> QED
    BY <1>11, <1>12, <1>15

LEMMA LoweredPlansIs ==
  ASSUME NEW D, Paired(D, AllValues)
  PROVE  /\ LoweredPlans \in [D -> Verdicts]
         /\ \A q \in D : LoweredPlans[q] = PlanBy(LoweredPlans, q)
  <1> USE DEF Paired
  <1> DEFINE depth == Depths(D)
             F == [q \in D |-> [f \in [D -> Verdicts] |-> PlanBy(f, q)]]
             Defines(f) == f = [q \in D |-> PlanBy(f, q)]
  <1>1. depth \in [D -> Nat]
    BY DepthsOK
  <1>2. \A f \in [D -> Verdicts] : \A q \in D : PlanBy(f, q) \in Verdicts
    BY PlanTyped
  <1>3. F \in [D -> [[D -> Verdicts] -> Verdicts]]
    <2> HIDE DEF Paired
    <2> QED
      BY <1>2
  <1>4. ASSUME NEW q \in D, NEW f, NEW g, \A e \in D : depth[e] < depth[q] => f[e] = g[e]
        PROVE  PlanBy(f, q) = PlanBy(g, q)
    <2>1. AgreeBelow(f, g, AllValues, q[1])
      <3>1. q \in AllPatterns \X AllValues
        OBVIOUS
      <3>2. PICK e : e = Depths(D)
        OBVIOUS
      <3>3. \A r \in D : e[r] < e[q] => f[r] = g[r]
        BY <1>4, <3>2
      <3> QED
        BY <3>1, <3>2, <3>3, AgreesBelow
    <2> QED
      BY <2>1, PlanGrounded
  <1> HIDE DEF Paired
  <1>5. Grounded(F, D, Verdicts, depth)
    <2> SUFFICES ASSUME NEW q \in D, NEW f \in [D -> Verdicts], NEW g \in [D -> Verdicts],
                        \A e \in D : depth[e] < depth[q] => f[e] = g[e]
                 PROVE  F[q][f] = F[q][g]
      BY DEF Grounded
    <2>1. PlanBy(f, q) = PlanBy(g, q)
      BY <1>4
    <2> QED
      BY <2>1
  <1>6. PICK h \in [D -> Verdicts] : \A q \in D : h[q] = F[q][h]
    <2>1. Verdicts # {}
      BY DEF Verdicts
    <2> HIDE DEF depth, F
    <2>2. Recursive(F, D, Verdicts, depth)
      BY <1>1, <1>3, <1>5, <2>1 DEF Recursive
    <2>3. \E h \in [D -> Verdicts] : \A d \in D : h[d] = F[d][h]
      BY <2>2, Recursion
    <2> QED
      BY <2>3
  <1>7. \A q \in D : h[q] = PlanBy(h, q)
    BY <1>6
  <1>8. Defines(h)
    BY <1>6, <1>7
  <1>9. PICK f : f = CHOOSE g : Defines(g)
    OBVIOUS
  <1>10. Defines(f)
    BY <1>8, <1>9
  <1>11. LoweredPlans = f
    BY <1>9, Zenon DEF LoweredPlans, PlanBy, ItemPlan, TuplePlan, ListPlan, RecordPlan, Paired
  <1>12. \A q \in D : f[q] = PlanBy(f, q)
    BY <1>10
  <1>13. \A q \in D : (\A e \in D : depth[e] < depth[q] => f[e] = h[e]) => f[q] = h[q]
    <2> SUFFICES ASSUME NEW q \in D, \A e \in D : depth[e] < depth[q] => f[e] = h[e]
                 PROVE  f[q] = h[q]
      OBVIOUS
    <2>1. PlanBy(f, q) = PlanBy(h, q)
      BY <1>4
    <2> QED
      BY <1>7, <1>12, <2>1
  <1>14. \A q \in D : f[q] = h[q]
    <2> HIDE DEF depth
    <2> QED
      BY <1>1, <1>13, Agree
  <1>15. f \in [D -> Verdicts]
    <2>1. \A q \in D : f[q] \in Verdicts
      BY <1>14
    <2>2. f = [q \in D |-> f[q]]
      BY <1>10
    <2> QED
      BY <2>1, <2>2
  <1> QED
    BY <1>11, <1>12, <1>15

WithoutBy(f, p) == IF p.form = "alias" THEN f[p.inner] ELSE p

LEMMA UnaliasedPatternsIs ==
  ASSUME AllPatterns # {}
  PROVE  /\ UnaliasedPatterns \in [AllPatterns -> AllPatterns]
         /\ \A p \in AllPatterns : UnaliasedPatterns[p] = WithoutBy(UnaliasedPatterns, p)
  <1> DEFINE D == AllPatterns
             depth == DepthsOf(D)
             F == [p \in D |-> [f \in [D -> D] |-> WithoutBy(f, p)]]
             Defines(f) == f = [p \in D |-> WithoutBy(f, p)]
  <1>1. depth \in [D -> Nat] /\ \A p \in D : depth[p] = p.depth
    <2>1. \A p \in AllPatterns : p.depth \in Nat
      BY PartsBelow, Zenon
    <2> QED
      BY <2>1 DEF DepthsOf
  <1>2. \A f \in [D -> D] : \A p \in D : WithoutBy(f, p) \in D
    <2> SUFFICES ASSUME NEW f \in [D -> D], NEW p \in D
                 PROVE  WithoutBy(f, p) \in D
      OBVIOUS
    <2>1. p.form = "alias" => p.inner \in D
      BY PartsBelow
    <2>2. p.form = "alias" => f[p.inner] \in D
      BY <2>1
    <2> QED
      BY <2>2 DEF WithoutBy
  <1>3. F \in [D -> [[D -> D] -> D]]
    BY <1>2
  <1>4. ASSUME NEW p \in D, NEW f, NEW g, \A e \in D : depth[e] < depth[p] => f[e] = g[e]
        PROVE  WithoutBy(f, p) = WithoutBy(g, p)
    <2>1. p.form = "alias" => p.inner \in D /\ p.inner.depth < p.depth
      BY PartsBelow
    <2>2. p.form = "alias" => f[p.inner] = g[p.inner]
      BY <1>1, <1>4, <2>1
    <2> QED
      BY <2>2, Zenon DEF WithoutBy
  <1>5. Grounded(F, D, D, depth)
    <2> SUFFICES ASSUME NEW p \in D, NEW f \in [D -> D], NEW g \in [D -> D],
                        \A e \in D : depth[e] < depth[p] => f[e] = g[e]
                 PROVE  F[p][f] = F[p][g]
      BY DEF Grounded
    <2>1. WithoutBy(f, p) = WithoutBy(g, p)
      BY <1>4
    <2> QED
      BY <2>1
  <1>6. PICK h \in [D -> D] : \A p \in D : h[p] = F[p][h]
    <2>1. D # {} /\ depth \in [D -> Nat]
      BY <1>1
    <2> HIDE DEF D, depth, F
    <2>2. Recursive(F, D, D, depth)
      BY <1>3, <1>5, <2>1 DEF Recursive
    <2>3. \E h \in [D -> D] : \A d \in D : h[d] = F[d][h]
      BY <2>2, Recursion
    <2> QED
      BY <2>3
  <1>7. \A p \in D : h[p] = WithoutBy(h, p)
    BY <1>6
  <1>8. Defines(h)
    BY <1>6, <1>7
  <1>9. PICK f : f = CHOOSE g : Defines(g)
    OBVIOUS
  <1>10. Defines(f)
    BY <1>8, <1>9
  <1>11. UnaliasedPatterns = f
    BY <1>9, Zenon DEF UnaliasedPatterns, WithoutBy
  <1>12. \A p \in D : f[p] = WithoutBy(f, p)
    BY <1>10
  <1>13. \A p \in D : (\A e \in D : depth[e] < depth[p] => f[e] = h[e]) => f[p] = h[p]
    <2> SUFFICES ASSUME NEW p \in D, \A e \in D : depth[e] < depth[p] => f[e] = h[e]
                 PROVE  f[p] = h[p]
      OBVIOUS
    <2>1. WithoutBy(f, p) = WithoutBy(h, p)
      BY <1>4
    <2> QED
      BY <1>7, <1>12, <2>1
  <1>14. \A p \in D : f[p] = h[p]
    <2>1. depth \in [D -> Nat]
      BY <1>1
    <2> HIDE DEF D, depth
    <2> QED
      BY <1>13, <2>1, Agree
  <1>15. f \in [D -> D]
    <2>1. \A p \in D : f[p] \in D
      BY <1>14
    <2>2. f = [p \in D |-> f[p]]
      BY <1>10
    <2> QED
      BY <2>1, <2>2
  <1> QED
    BY <1>11, <1>12, <1>15

\* Induction over the depth of patterns.
LEMMA PatternInduct ==
  ASSUME NEW T,
         \A p \in AllPatterns : (\A part \in AllPatterns : part.depth < p.depth => part \in T) => p \in T
  PROVE  AllPatterns \subseteq T
  <1> DEFINE U == {n \in Nat : \A p \in AllPatterns : p.depth < n => p \in T}
  <1>1. 0 \in U
    BY PartsBelow
  <1>2. ASSUME NEW n \in Nat, n \in U PROVE n + 1 \in U
    <2> SUFFICES ASSUME NEW p \in AllPatterns, p.depth < n + 1 PROVE p \in T
      OBVIOUS
    <2>1. p.depth \in Nat
      BY PartsBelow
    <2>2. ASSUME NEW part \in AllPatterns, part.depth < p.depth PROVE part \in T
      <3>1. part.depth \in Nat
        BY PartsBelow
      <3>2. part.depth < n
        BY <2>1, <2>2, <3>1
      <3> QED
        BY <1>2, <3>2
    <2> QED
      BY <2>2
  <1>3. Nat \subseteq U
    <2> HIDE DEF U
    <2> QED
      BY <1>1, <1>2, NatInduct
  <1>4. ASSUME NEW p \in AllPatterns PROVE p \in T
    <2>1. p.depth \in Nat
      BY PartsBelow
    <2>2. p.depth + 1 \in U
      BY <1>3, <2>1
    <2> QED
      BY <2>1, <2>2
  <1> QED
    BY <1>4

-----------------------------------------------------------------------------
(* What the definitions say, form by form. *)

LEMMA MatchesIs ==
  ASSUME NEW p \in AllPatterns, NEW v \in AllValues
  PROVE  /\ p.form = "alias" => (SourceMatches(p, v) <=> SourceMatches(p.inner, v))
         /\ p.form = "literal" => (SourceMatches(p, v) <=> v = Flag(p.value))
         /\ p.form = "type" => (SourceMatches(p, v) <=> OfType(v, p.target))
         /\ p.form \in {"tuple", "list"} =>
              (SourceMatches(p, v) <=>
                 /\ v.of \in IF p.form = "tuple" THEN DOMAIN Tuples ELSE DOMAIN Vectors
                 /\ Len(v.items) >= Len(p.elements)
                 /\ p.form = "tuple" \/ p.rest \/ Len(v.items) = Len(p.elements)
                 /\ \A i \in DOMAIN p.elements : SourceMatches(p.elements[i], v.items[i]))
         /\ p.form = "record" =>
              (SourceMatches(p, v) <=>
                 /\ HasFields(v) /\ p.path \in {"", v.of}
                 /\ \A f \in DOMAIN p.fields : f \in DOMAIN v.fields /\ SourceMatches(p.fields[f], v.fields[f]))
         /\ p.form \in {"wildcard", "binding"} => SourceMatches(p, v)
         /\ SourceMatches(p, v) \in BOOLEAN
  <1>1. PICK q : q = <<p, v>>
    OBVIOUS
  <1>2. q \in AllPatterns \X AllValues /\ q[1] = p /\ q[2] = v
    BY <1>1
  <1>3. PatternMatches[q] = MatchesBy(PatternMatches, q) /\ PatternMatches[q] \in BOOLEAN
    <2>1. /\ PatternMatches \in [AllPatterns \X AllValues -> BOOLEAN]
          /\ \A r \in AllPatterns \X AllValues : PatternMatches[r] = MatchesBy(PatternMatches, r)
      BY PatternMatchesIs DEF Paired
    <2> QED
      BY <1>2, <2>1
  <1>4. SourceMatches(p, v) = MatchesBy(PatternMatches, q) /\ SourceMatches(p, v) \in BOOLEAN
    BY <1>1, <1>3, Zenon DEF SourceMatches
  <1>5. p.form = "alias" => SourceMatches(p, v) = PatternMatches[<<p.inner, v>>]
    BY <1>2, <1>4, Zenon DEF MatchesBy
  <1>6. p.form = "literal" => (SourceMatches(p, v) <=> v = Flag(p.value))
    <2>1. "literal" # "alias"
      OBVIOUS
    <2> QED
      BY <1>2, <1>4, <2>1, Zenon DEF MatchesBy
  <1>7. p.form = "type" => (SourceMatches(p, v) <=> OfType(v, p.target))
    <2>1. "type" # "alias" /\ "type" # "literal"
      OBVIOUS
    <2> QED
      BY <1>2, <1>4, <2>1, Zenon DEF MatchesBy
  <1>8. p.form \in {"tuple", "list"} => (SourceMatches(p, v) <=> ItemsMatch(PatternMatches, p, v))
    <2>1. p.form \in {"tuple", "list"} => p.form # "alias" /\ p.form # "literal" /\ p.form # "type"
      OBVIOUS
    <2> QED
      BY <1>2, <1>4, <2>1, Zenon DEF MatchesBy
  <1>9. p.form = "record" => (SourceMatches(p, v) <=> RecordMatches(PatternMatches, p, v))
    <2>1. "record" # "alias" /\ "record" # "literal" /\ "record" # "type" /\ "record" \notin {"tuple", "list"}
      OBVIOUS
    <2> QED
      BY <1>2, <1>4, <2>1, Zenon DEF MatchesBy
  <1>10. p.form \in {"wildcard", "binding"} => SourceMatches(p, v)
    <2>1. p.form \in {"wildcard", "binding"} =>
            /\ p.form # "alias" /\ p.form # "literal" /\ p.form # "type" /\ p.form \notin {"tuple", "list"}
            /\ p.form # "record"
      OBVIOUS
    <2> QED
      BY <1>2, <1>4, <2>1, Zenon DEF MatchesBy
  <1>11. p.form = "alias" => (SourceMatches(p, v) <=> SourceMatches(p.inner, v))
    BY <1>5, Zenon DEF SourceMatches
  <1>12. p.form \in {"tuple", "list"} =>
              (SourceMatches(p, v) <=>
                 /\ v.of \in IF p.form = "tuple" THEN DOMAIN Tuples ELSE DOMAIN Vectors
                 /\ Len(v.items) >= Len(p.elements)
                 /\ p.form = "tuple" \/ p.rest \/ Len(v.items) = Len(p.elements)
                 /\ \A i \in DOMAIN p.elements : SourceMatches(p.elements[i], v.items[i]))
    BY <1>8, Zenon DEF ItemsMatch, SourceMatches
  <1>13. p.form = "record" =>
              (SourceMatches(p, v) <=>
                 /\ HasFields(v) /\ p.path \in {"", v.of}
                 /\ \A f \in DOMAIN p.fields : f \in DOMAIN v.fields /\ SourceMatches(p.fields[f], v.fields[f]))
    BY <1>9, Zenon DEF RecordMatches, SourceMatches
  <1> QED
    BY <1>4, <1>6, <1>7, <1>10, <1>11, <1>12, <1>13, Zenon

\* The test of item i of a list pattern.
ItemTest(p, v, i) ==
  IF DeferredListItem(p.elements[i]) THEN "yes"
  ELSE IF i > Len(v.items) THEN "error"
  ELSE LowerPatternPlan(p.elements[i], v.items[i])

LEMMA PlanIs ==
  ASSUME NEW p \in AllPatterns, NEW v \in AllValues
  PROVE  /\ p.form = "alias" => LowerPatternPlan(p, v) = LowerPatternPlan(p.inner, v)
         /\ p.form = "literal" => LowerPatternPlan(p, v) = Holds(v.of = "Bool" /\ v.value = p.value)
         /\ p.form = "type" => LowerPatternPlan(p, v) = Holds(OfType(v, p.target))
         /\ p.form = "tuple" =>
              LowerPatternPlan(p, v) =
                IF v.of \notin DOMAIN Tuples \/ Len(p.elements) > Len(v.items) THEN "error"
                ELSE CombineConditions({LowerPatternPlan(p.elements[i], v.items[i]) : i \in DOMAIN p.elements})
         /\ p.form = "list" =>
              LowerPatternPlan(p, v) =
                IF v.of \notin DOMAIN Vectors THEN "error"
                ELSE CombineConditions(
                       {Holds(IF p.rest THEN Len(v.items) >= Len(p.elements) ELSE Len(v.items) = Len(p.elements))}
                       \cup {ItemTest(p, v, i) : i \in DOMAIN p.elements})
         /\ p.form = "record" =>
              LowerPatternPlan(p, v) =
                CombineConditions(
                  {Holds(p.path = "" \/ OfType(v, p.path))} \cup
                  {LowerPatternPlan(p.fields[g], PatternField(v, g)) :
                     g \in {h \in DOMAIN p.fields : ~Deferred(p.fields[h])}})
         /\ p.form \in {"wildcard", "binding"} => LowerPatternPlan(p, v) = "yes"
         /\ LowerPatternPlan(p, v) \in Verdicts
  <1>1. PICK q : q = <<p, v>>
    OBVIOUS
  <1>2. q \in AllPatterns \X AllValues /\ q[1] = p /\ q[2] = v
    BY <1>1
  <1>3. LoweredPlans[q] = PlanBy(LoweredPlans, q) /\ LoweredPlans[q] \in Verdicts
    <2>1. /\ LoweredPlans \in [AllPatterns \X AllValues -> Verdicts]
          /\ \A r \in AllPatterns \X AllValues : LoweredPlans[r] = PlanBy(LoweredPlans, r)
      BY LoweredPlansIs DEF Paired
    <2> QED
      BY <1>2, <2>1
  <1>4. LowerPatternPlan(p, v) = PlanBy(LoweredPlans, q) /\ LowerPatternPlan(p, v) \in Verdicts
    BY <1>1, <1>3, Zenon DEF LowerPatternPlan
  <1>5. p.form = "alias" => LowerPatternPlan(p, v) = LowerPatternPlan(p.inner, v)
    BY <1>2, <1>4, Zenon DEF PlanBy, LowerPatternPlan
  <1>6. p.form = "literal" => LowerPatternPlan(p, v) = Holds(v.of = "Bool" /\ v.value = p.value)
    <2>1. "literal" # "alias"
      OBVIOUS
    <2> QED
      BY <1>2, <1>4, <2>1, Zenon DEF PlanBy
  <1>7. p.form = "type" => LowerPatternPlan(p, v) = Holds(OfType(v, p.target))
    <2>1. "type" # "alias" /\ "type" # "literal"
      OBVIOUS
    <2> QED
      BY <1>2, <1>4, <2>1, Zenon DEF PlanBy, ValueMatchesType
  <1>8. p.form = "tuple" => LowerPatternPlan(p, v) = TuplePlan(LoweredPlans, p, v)
    <2>1. "tuple" # "alias" /\ "tuple" # "literal" /\ "tuple" # "type"
      OBVIOUS
    <2> QED
      BY <1>2, <1>4, <2>1, Zenon DEF PlanBy
  <1>9. p.form = "list" => LowerPatternPlan(p, v) = ListPlan(LoweredPlans, p, v)
    <2>1. "list" # "alias" /\ "list" # "literal" /\ "list" # "type" /\ "list" # "tuple"
      OBVIOUS
    <2> QED
      BY <1>2, <1>4, <2>1, Zenon DEF PlanBy
  <1>10. p.form = "record" => LowerPatternPlan(p, v) = RecordPlan(LoweredPlans, p, v)
    <2>1. "record" # "alias" /\ "record" # "literal" /\ "record" # "type" /\ "record" # "tuple" /\ "record" # "list"
      OBVIOUS
    <2> QED
      BY <1>2, <1>4, <2>1, Zenon DEF PlanBy
  <1>11. p.form \in {"wildcard", "binding"} => LowerPatternPlan(p, v) = "yes"
    <2>1. p.form \in {"wildcard", "binding"} =>
            /\ p.form # "alias" /\ p.form # "literal" /\ p.form # "type" /\ p.form # "tuple" /\ p.form # "list"
            /\ p.form # "record"
      OBVIOUS
    <2> QED
      BY <1>2, <1>4, <2>1, Zenon DEF PlanBy
  <1>12. p.form = "tuple" =>
              LowerPatternPlan(p, v) =
                IF v.of \notin DOMAIN Tuples \/ Len(p.elements) > Len(v.items) THEN "error"
                ELSE CombineConditions({LowerPatternPlan(p.elements[i], v.items[i]) : i \in DOMAIN p.elements})
    BY <1>8, Zenon DEF TuplePlan, LowerPatternPlan
  <1>13. p.form = "list" =>
              LowerPatternPlan(p, v) =
                IF v.of \notin DOMAIN Vectors THEN "error"
                ELSE CombineConditions(
                       {Holds(IF p.rest THEN Len(v.items) >= Len(p.elements) ELSE Len(v.items) = Len(p.elements))}
                       \cup {ItemTest(p, v, i) : i \in DOMAIN p.elements})
    BY <1>9, Zenon DEF ListPlan, ItemPlan, ItemTest, LowerPatternPlan
  <1>14. p.form = "record" =>
              LowerPatternPlan(p, v) =
                CombineConditions(
                  {Holds(p.path = "" \/ OfType(v, p.path))} \cup
                  {LowerPatternPlan(p.fields[g], PatternField(v, g)) :
                     g \in {h \in DOMAIN p.fields : ~Deferred(p.fields[h])}})
    BY <1>10, Zenon DEF RecordPlan, LowerPatternPlan, ValueMatchesType
  <1> QED
    BY <1>4, <1>5, <1>6, <1>7, <1>11, <1>12, <1>13, <1>14, Zenon

\* Conditions hold together when each of them does.
LEMMA Combined ==
  ASSUME NEW tests \in SUBSET Verdicts
  PROVE  CombineConditions(tests) = "yes" <=> \A t \in tests : t = "yes"
  BY DEF CombineConditions, Verdicts

LEMMA ProvedParts ==
  ASSUME NEW p \in AllPatterns, NEW s \in AllSources, SourceExprProvesPatternMatch(p, s)
  PROVE  /\ p.form = "alias" => SourceExprProvesPatternMatch(p.inner, s)
         /\ p.form = "tuple" =>
              /\ s.expr = "tuple" /\ Len(s.items) = Len(p.elements)
              /\ \A i \in DOMAIN p.elements : SourceExprProvesPatternMatch(p.elements[i], s.items[i])
         /\ p.form = "list" =>
              /\ s.expr = "list" /\ (p.rest \/ Len(s.items) = Len(p.elements))
              /\ Len(s.items) >= Len(p.elements)
              /\ \A i \in DOMAIN p.elements : SourceExprProvesPatternMatch(p.elements[i], s.items[i])
         /\ p.form = "literal" => s.expr = "literal" /\ s.value = p.value
         /\ p.form = "record" =>
              /\ s.expr = "construct" /\ s.path = p.path /\ DOMAIN s.fields = DOMAIN p.fields
              /\ \A f \in DOMAIN p.fields : SourceExprProvesPatternMatch(p.fields[f], s.fields[f])
         /\ p.form \in {"wildcard", "binding", "alias", "tuple", "list", "literal", "record"}
  <1>1. PICK q : q = <<p, s>>
    OBVIOUS
  <1>2. q \in AllPatterns \X AllSources /\ q[1] = p /\ q[2] = s
    BY <1>1
  <1>3. PatternProofs[q] = ProvedBy(PatternProofs, q)
    BY <1>2, PatternProofsIs DEF Paired
  <1>4. ProvedBy(PatternProofs, q)
    BY <1>1, <1>3, Zenon DEF SourceExprProvesPatternMatch
  <1>5. p.form = "alias" => PatternProofs[<<p.inner, s>>]
    <2>1. "alias" \notin {"wildcard", "binding"}
      OBVIOUS
    <2> QED
      BY <1>2, <1>4, <2>1, Zenon DEF ProvedBy
  <1>6. p.form = "tuple" => TupleProved(PatternProofs, p, s)
    <2>1. "tuple" \notin {"wildcard", "binding"} /\ "tuple" # "alias"
      OBVIOUS
    <2> QED
      BY <1>2, <1>4, <2>1, Zenon DEF ProvedBy
  <1>7. p.form = "list" => ListProved(PatternProofs, p, s)
    <2>1. "list" \notin {"wildcard", "binding"} /\ "list" # "alias" /\ "list" # "tuple"
      OBVIOUS
    <2> QED
      BY <1>2, <1>4, <2>1, Zenon DEF ProvedBy
  <1>8. p.form = "literal" => s.expr = "literal" /\ s.value = p.value
    <2>1. "literal" \notin {"wildcard", "binding"} /\ "literal" # "alias" /\ "literal" # "tuple" /\ "literal" # "list"
      OBVIOUS
    <2> QED
      BY <1>2, <1>4, <2>1, Zenon DEF ProvedBy
  <1>9. p.form = "record" => RecordProved(PatternProofs, p, s)
    <2>1. /\ "record" \notin {"wildcard", "binding"} /\ "record" # "alias" /\ "record" # "tuple"
          /\ "record" # "list" /\ "record" # "literal"
      OBVIOUS
    <2> QED
      BY <1>2, <1>4, <2>1, Zenon DEF ProvedBy
  <1>10. p.form \in {"wildcard", "binding", "alias", "tuple", "list", "literal", "record"}
    <2> SUFFICES ASSUME p.form \notin {"wildcard", "binding", "alias", "tuple", "list", "literal", "record"}
                 PROVE  FALSE
      OBVIOUS
    <2>1. /\ p.form \notin {"wildcard", "binding"} /\ p.form # "alias" /\ p.form # "tuple"
          /\ p.form # "list" /\ p.form # "literal" /\ p.form # "record"
      OBVIOUS
    <2> QED
      BY <1>2, <1>4, <2>1, Zenon DEF ProvedBy
  <1> QED
    BY <1>5, <1>6, <1>7, <1>8, <1>9, <1>10, Zenon
       DEF SourceExprProvesPatternMatch, TupleProved, ListProved, RecordProved

-----------------------------------------------------------------------------
(* The tests, the checks and what matches agree. *)

LEMMA Unaliased ==
  ASSUME NEW p \in AllPatterns
  PROVE  /\ PatternWithoutAlias(p) \in AllPatterns
         /\ \A v \in AllValues : SourceMatches(p, v) <=> SourceMatches(PatternWithoutAlias(p), v)
         /\ \A S \in Types : BindPattern(p, S) => BindPattern(PatternWithoutAlias(p), S)
  <1> DEFINE Same(r) ==
               /\ PatternWithoutAlias(r) \in AllPatterns
               /\ \A v \in AllValues : SourceMatches(r, v) <=> SourceMatches(PatternWithoutAlias(r), v)
               /\ \A S \in Types : BindPattern(r, S) => BindPattern(PatternWithoutAlias(r), S)
             T == {r \in AllPatterns : Same(r)}
  <1>1. ASSUME NEW r \in AllPatterns, \A part \in AllPatterns : part.depth < r.depth => part \in T
        PROVE  r \in T
    <2>1. PatternWithoutAlias(r) = IF r.form = "alias" THEN PatternWithoutAlias(r.inner) ELSE r
      <3>1. UnaliasedPatterns[r] = WithoutBy(UnaliasedPatterns, r)
        BY UnaliasedPatternsIs
      <3> QED
        BY <3>1, Zenon DEF PatternWithoutAlias, WithoutBy
    <2>2. CASE r.form = "alias"
      <3>1. r.inner \in AllPatterns /\ r.inner.depth < r.depth
        BY <2>2, PartsBelow
      <3>2. Same(r.inner)
        BY <1>1, <3>1
      <3>3. \A v \in AllValues : SourceMatches(r, v) <=> SourceMatches(r.inner, v)
        BY <2>2, MatchesIs
      <3>4. \A S \in Types : BindPattern(r, S) => BindPattern(r.inner, S)
        BY <2>2, BoundParts
      <3> QED
        BY <2>1, <2>2, <3>2, <3>3, <3>4, Zenon
    <2>3. CASE r.form # "alias"
      BY <2>1, <2>3, Zenon
    <2> QED
      BY <2>2, <2>3
  <1>2. AllPatterns \subseteq T
    <2> HIDE DEF T
    <2> QED
      BY <1>1, PatternInduct
  <1> QED
    BY <1>2

\* A pattern that matches passes its tests.
LEMMA MatchedPlans ==
  ASSUME NEW p \in AllPatterns, NEW v \in AllValues, SourceMatches(p, v)
  PROVE  LowerPatternPlan(p, v) = "yes"
  <1> DEFINE T == {r \in AllPatterns : \A w \in AllValues : SourceMatches(r, w) => LowerPatternPlan(r, w) = "yes"}
  <1>1. ASSUME NEW r \in AllPatterns, \A part \in AllPatterns : part.depth < r.depth => part \in T
        PROVE  r \in T
    <2> SUFFICES ASSUME NEW w \in AllValues, SourceMatches(r, w) PROVE LowerPatternPlan(r, w) = "yes"
      OBVIOUS
    <2>1. \A part \in AllPatterns : \A u \in AllValues :
            part.depth < r.depth /\ SourceMatches(part, u) => LowerPatternPlan(part, u) = "yes"
      BY <1>1
    <2>2. \A part \in AllPatterns : \A u \in AllValues : LowerPatternPlan(part, u) \in Verdicts
      BY PlanIs
    <2>3. CASE r.form = "alias"
      <3>1. r.inner \in AllPatterns /\ r.inner.depth < r.depth
        BY <2>3, PartsBelow
      <3>2. SourceMatches(r.inner, w)
        BY <2>3, MatchesIs
      <3>3. LowerPatternPlan(r, w) = LowerPatternPlan(r.inner, w)
        BY <2>3, PlanIs
      <3> QED
        BY <2>1, <3>1, <3>2, <3>3
    <2>4. CASE r.form = "literal"
      <3>1. w = Flag(r.value)
        BY <2>4, MatchesIs
      <3>2. w.of = "Bool" /\ w.value = r.value
        BY <3>1 DEF Flag
      <3>3. LowerPatternPlan(r, w) = Holds(w.of = "Bool" /\ w.value = r.value)
        BY <2>4, PlanIs
      <3> QED
        BY <3>2, <3>3, Zenon DEF Holds
    <2>5. CASE r.form = "type"
      <3>1. OfType(w, r.target)
        BY <2>5, MatchesIs
      <3>2. LowerPatternPlan(r, w) = Holds(OfType(w, r.target))
        BY <2>5, PlanIs
      <3> QED
        BY <3>1, <3>2, Zenon DEF Holds
    <2>6. CASE r.form \in {"tuple", "list"}
      <3>1. /\ w.of \in IF r.form = "tuple" THEN DOMAIN Tuples ELSE DOMAIN Vectors
            /\ Len(w.items) >= Len(r.elements)
            /\ r.form = "tuple" \/ r.rest \/ Len(w.items) = Len(r.elements)
            /\ \A i \in DOMAIN r.elements : SourceMatches(r.elements[i], w.items[i])
        BY <2>6, MatchesIs
      <3>2. /\ Len(w.items) \in Nat /\ Len(r.elements) \in Nat
            /\ DOMAIN w.items = 1 .. Len(w.items) /\ DOMAIN r.elements = 1 .. Len(r.elements)
            /\ \A i \in DOMAIN r.elements : r.elements[i] \in AllPatterns /\ r.elements[i].depth < r.depth
            /\ \A i \in DOMAIN w.items : w.items[i] \in AllValues
        <4>1. w.of \in DOMAIN Tuples \/ w.of \in DOMAIN Vectors
          BY <3>1
        <4> QED
          BY <2>6, <4>1, ItemsAt
      <3>3. \A i \in DOMAIN r.elements : i \in DOMAIN w.items /\ ~(i > Len(w.items))
        BY <3>1, <3>2
      <3>4. \A i \in DOMAIN r.elements : LowerPatternPlan(r.elements[i], w.items[i]) = "yes"
        BY <2>1, <3>1, <3>2, <3>3, Zenon
      <3>5. CASE r.form = "tuple"
        <4>1. ~(w.of \notin DOMAIN Tuples \/ Len(r.elements) > Len(w.items))
          BY <3>1, <3>2, <3>5
        <4>2. PICK tests : tests = {LowerPatternPlan(r.elements[i], w.items[i]) : i \in DOMAIN r.elements}
          OBVIOUS
        <4>3. LowerPatternPlan(r, w) = CombineConditions(tests)
          BY <3>5, <4>1, <4>2, PlanIs, Zenon
        <4>4. \A t \in tests : t = "yes"
          BY <3>4, <4>2
        <4>5. tests \in SUBSET Verdicts
          BY <4>4 DEF Verdicts
        <4> QED
          BY <4>3, <4>4, <4>5, Combined
      <3>6. CASE r.form = "list"
        <4>1. ~(w.of \notin DOMAIN Vectors)
          BY <3>1, <3>6
        <4>2. PICK tests : tests =
                {Holds(IF r.rest THEN Len(w.items) >= Len(r.elements) ELSE Len(w.items) = Len(r.elements))}
                \cup {ItemTest(r, w, i) : i \in DOMAIN r.elements}
          OBVIOUS
        <4>3. LowerPatternPlan(r, w) = CombineConditions(tests)
          BY <3>6, <4>1, <4>2, PlanIs, Zenon
        <4>4. \A i \in DOMAIN r.elements : ItemTest(r, w, i) = "yes"
          BY <3>3, <3>4, Zenon DEF ItemTest
        <4>5. Holds(IF r.rest THEN Len(w.items) >= Len(r.elements) ELSE Len(w.items) = Len(r.elements)) = "yes"
          <5>1. r.form # "tuple"
            BY <3>6
          <5> QED
            BY <3>1, <5>1, Zenon DEF Holds
        <4>6. \A t \in tests : t = "yes"
          BY <4>2, <4>4, <4>5, Zenon
        <4>7. tests \in SUBSET Verdicts
          BY <4>6 DEF Verdicts
        <4> QED
          BY <4>3, <4>6, <4>7, Combined
      <3> QED
        BY <2>6, <3>5, <3>6
    <2>7. CASE r.form = "record"
      <3>1. /\ HasFields(w) /\ r.path \in {"", w.of}
            /\ \A f \in DOMAIN r.fields : f \in DOMAIN w.fields /\ SourceMatches(r.fields[f], w.fields[f])
        BY <2>7, MatchesIs
      <3>2. PICK tests : tests =
              {Holds(r.path = "" \/ OfType(w, r.path))} \cup
              {LowerPatternPlan(r.fields[g], PatternField(w, g)) : g \in {h \in DOMAIN r.fields : ~Deferred(r.fields[h])}}
        OBVIOUS
      <3>3. LowerPatternPlan(r, w) = CombineConditions(tests)
        BY <2>7, <3>2, PlanIs, Zenon
      <3>4. Holds(r.path = "" \/ OfType(w, r.path)) = "yes"
        BY <3>1 DEF Holds, OfType
      <3>5. ASSUME NEW g \in DOMAIN r.fields PROVE LowerPatternPlan(r.fields[g], PatternField(w, g)) = "yes"
        <4>1. r.fields[g] \in AllPatterns /\ r.fields[g].depth < r.depth
          BY <2>7, PartsBelow
        <4>2. PatternField(w, g) = w.fields[g] /\ SourceMatches(r.fields[g], w.fields[g])
          BY <3>1, Zenon DEF PatternField
        <4>3. w.fields[g] \in AllValues
          BY <4>2, FieldInValues, Zenon
        <4> QED
          BY <2>1, <4>1, <4>2, <4>3
      <3>6. \A t \in tests : t = "yes"
        BY <3>2, <3>4, <3>5, Zenon
      <3>7. tests \in SUBSET Verdicts
        BY <3>6 DEF Verdicts
      <3> QED
        BY <3>3, <3>6, <3>7, Combined
    <2>8. CASE r.form \in {"wildcard", "binding"}
      BY <2>8, PlanIs
    <2>9. r.form \in {"wildcard", "binding", "alias", "literal", "type", "tuple", "list", "record"}
      BY PatternAssumption, Zenon
    <2> QED
      BY <2>3, <2>4, <2>5, <2>6, <2>7, <2>8, <2>9
  <1>2. AllPatterns \subseteq T
    <2> HIDE DEF T
    <2> QED
      BY <1>1, PatternInduct
  <1> QED
    BY <1>2

\* An accepted pattern that passes its tests matches.
LEMMA PlannedMatches ==
  ASSUME NEW p \in AllPatterns, NEW v \in AllValues, NEW S \in Types,
         BindPattern(p, S), OfType(v, S), LowerPatternPlan(p, v) = "yes"
  PROVE  SourceMatches(p, v)
  <1> DEFINE T == {r \in AllPatterns : \A w \in AllValues : \A U \in Types :
                     BindPattern(r, U) /\ OfType(w, U) /\ LowerPatternPlan(r, w) = "yes" => SourceMatches(r, w)}
  <1>1. ASSUME NEW r \in AllPatterns, \A part \in AllPatterns : part.depth < r.depth => part \in T
        PROVE  r \in T
    <2> SUFFICES ASSUME NEW w \in AllValues, NEW U \in Types,
                        BindPattern(r, U), OfType(w, U), LowerPatternPlan(r, w) = "yes"
                 PROVE  SourceMatches(r, w)
      OBVIOUS
    <2>1. \A part \in AllPatterns : \A u \in AllValues : \A W \in Types :
            part.depth < r.depth /\ BindPattern(part, W) /\ OfType(u, W) /\ LowerPatternPlan(part, u) = "yes"
              => SourceMatches(part, u)
      BY <1>1
    <2>2. \A part \in AllPatterns : \A u \in AllValues : LowerPatternPlan(part, u) \in Verdicts
      BY PlanIs
    <2>3. CASE r.form = "alias"
      <3>1. r.inner \in AllPatterns /\ r.inner.depth < r.depth
        BY <2>3, PartsBelow
      <3>2. BindPattern(r.inner, U)
        BY <2>3, BoundParts
      <3>3. LowerPatternPlan(r, w) = LowerPatternPlan(r.inner, w)
        BY <2>3, PlanIs
      <3>4. SourceMatches(r.inner, w)
        BY <2>1, <3>1, <3>2, <3>3
      <3> QED
        BY <2>3, <3>4, MatchesIs
    <2>4. CASE r.form = "literal"
      <3>1. LowerPatternPlan(r, w) = Holds(w.of = "Bool" /\ w.value = r.value)
        BY <2>4, PlanIs
      <3>2. w.of = "Bool" /\ w.value = r.value
        BY <3>1 DEF Holds
      <3>3. w = Flag(w.value)
        BY <3>2, ValueParts
      <3>4. w = Flag(r.value)
        BY <3>2, <3>3, Zenon
      <3> QED
        BY <2>4, <3>4, MatchesIs
    <2>5. CASE r.form = "type"
      <3>1. LowerPatternPlan(r, w) = Holds(OfType(w, r.target))
        BY <2>5, PlanIs
      <3>2. OfType(w, r.target)
        BY <3>1 DEF Holds
      <3> QED
        BY <2>5, <3>2, MatchesIs
    <2>6. CASE r.form = "tuple"
      <3>1. /\ U \in DOMAIN Tuples
            /\ \A i \in DOMAIN r.elements \cap DOMAIN Tuples[U] : BindPattern(r.elements[i], Tuples[U][i])
        BY <2>6, BoundParts
      <3>2. w.of = U
        BY <3>1, MadeAs
      <3>3. /\ Len(w.items) \in Nat /\ Len(r.elements) \in Nat
            /\ DOMAIN w.items = 1 .. Len(w.items) /\ DOMAIN r.elements = 1 .. Len(r.elements)
            /\ \A i \in DOMAIN r.elements : r.elements[i] \in AllPatterns /\ r.elements[i].depth < r.depth
            /\ \A i \in DOMAIN w.items : w.items[i] \in AllValues
        <4>1. w.of \in DOMAIN Tuples \/ w.of \in DOMAIN Vectors
          BY <3>1, <3>2
        <4> QED
          BY <2>6, <4>1, ItemsAt
      <3>4. PICK tests : tests = {LowerPatternPlan(r.elements[i], w.items[i]) : i \in DOMAIN r.elements}
        OBVIOUS
      <3>5. LowerPatternPlan(r, w) =
              IF w.of \notin DOMAIN Tuples \/ Len(r.elements) > Len(w.items) THEN "error"
              ELSE CombineConditions(tests)
        BY <2>6, <3>4, PlanIs, Zenon
      <3>6. ~(Len(r.elements) > Len(w.items)) /\ CombineConditions(tests) = "yes"
        BY <3>5
      <3>7. \A i \in DOMAIN r.elements : i \in DOMAIN w.items /\ r.elements[i] \in AllPatterns /\ w.items[i] \in AllValues
        BY <3>3, <3>6
      <3>8. tests \in SUBSET Verdicts
        BY <2>2, <3>4, <3>7, Zenon
      <3>9. \A i \in DOMAIN r.elements : LowerPatternPlan(r.elements[i], w.items[i]) = "yes"
        <4>1. \A t \in tests : t = "yes"
          BY <3>6, <3>8, Combined
        <4> QED
          BY <3>4, <4>1, Zenon
      <3>10. ASSUME NEW i \in DOMAIN r.elements PROVE SourceMatches(r.elements[i], w.items[i])
        <4>1. Len(w.items) = Len(Tuples[U]) /\ OfType(w.items[i], Tuples[U][i])
          BY <3>1, <3>2, <3>7, ValueParts
        <4>2. i \in DOMAIN Tuples[U]
          BY <3>1, <3>3, <3>7, <4>1, TypeParts
        <4>3. Tuples[U][i] \in Types /\ BindPattern(r.elements[i], Tuples[U][i])
          BY <3>1, <4>2, TypeParts
        <4> QED
          BY <2>1, <3>3, <3>7, <3>9, <4>1, <4>3, Zenon
      <3>11. Len(w.items) >= Len(r.elements)
        BY <3>3, <3>6
      <3>12. w.of \in IF r.form = "tuple" THEN DOMAIN Tuples ELSE DOMAIN Vectors
        BY <2>6, <3>1, <3>2
      <3>13. r.form \in {"tuple", "list"}
        BY <2>6
      <3> QED
        BY <2>6, <3>10, <3>11, <3>12, <3>13, MatchesIs, Zenon
    <2>7. CASE r.form = "list"
      <3>1. U \in DOMAIN Vectors /\ \A i \in DOMAIN r.elements : BindPattern(r.elements[i], Vectors[U])
        BY <2>7, BoundParts
      <3>2. w.of = U
        BY <3>1, MadeAs
      <3>3. /\ Len(w.items) \in Nat /\ Len(r.elements) \in Nat
            /\ DOMAIN w.items = 1 .. Len(w.items) /\ DOMAIN r.elements = 1 .. Len(r.elements)
            /\ \A i \in DOMAIN r.elements : r.elements[i] \in AllPatterns /\ r.elements[i].depth < r.depth
            /\ \A i \in DOMAIN w.items : w.items[i] \in AllValues
        <4>1. w.of \in DOMAIN Tuples \/ w.of \in DOMAIN Vectors
          BY <3>1, <3>2
        <4> QED
          BY <2>7, <4>1, ItemsAt
      <3>4. PICK enough : enough = Holds(IF r.rest THEN Len(w.items) >= Len(r.elements)
                                         ELSE Len(w.items) = Len(r.elements))
        OBVIOUS
      <3>5. PICK tests : tests = {enough} \cup {ItemTest(r, w, i) : i \in DOMAIN r.elements}
        OBVIOUS
      <3>6. LowerPatternPlan(r, w) = CombineConditions(tests)
        <4>1. ~(w.of \notin DOMAIN Vectors)
          BY <3>1, <3>2
        <4> QED
          BY <2>7, <3>4, <3>5, <4>1, PlanIs, Zenon
      <3>7. ASSUME NEW i \in DOMAIN r.elements PROVE ItemTest(r, w, i) \in Verdicts
        <4>1. "yes" \in Verdicts /\ "error" \in Verdicts
          BY DEF Verdicts
        <4>2. ~(i > Len(w.items)) => r.elements[i] \in AllPatterns /\ w.items[i] \in AllValues
          BY <3>3
        <4>3. ~(i > Len(w.items)) => LowerPatternPlan(r.elements[i], w.items[i]) \in Verdicts
          BY <2>2, <4>2, Zenon
        <4> QED
          BY <4>1, <4>3, Zenon DEF ItemTest
      <3>8. tests \in SUBSET Verdicts
        <4>1. enough \in Verdicts
          BY <3>4 DEF Holds, Verdicts
        <4> QED
          BY <3>5, <3>7, <4>1, Zenon
      <3>9. \A t \in tests : t = "yes"
        BY <3>6, <3>8, Combined
      <3>10. enough = "yes" /\ \A i \in DOMAIN r.elements : ItemTest(r, w, i) = "yes"
        BY <3>5, <3>9, Zenon
      <3>11. IF r.rest THEN Len(w.items) >= Len(r.elements) ELSE Len(w.items) = Len(r.elements)
        BY <3>4, <3>10 DEF Holds
      <3>12. Len(w.items) >= Len(r.elements) /\ (r.rest \/ Len(w.items) = Len(r.elements))
        BY <3>3, <3>11
      <3>13. ASSUME NEW i \in DOMAIN r.elements PROVE SourceMatches(r.elements[i], w.items[i])
        <4>1. /\ i \in DOMAIN w.items /\ ~(i > Len(w.items))
              /\ r.elements[i] \in AllPatterns /\ r.elements[i].depth < r.depth /\ w.items[i] \in AllValues
          BY <3>3, <3>12
        <4>2. CASE DeferredListItem(r.elements[i])
          <5>1. PICK d \in AllPatterns : d = PatternWithoutAlias(r.elements[i])
            BY <4>1, Unaliased
          <5>2. d.form \in {"wildcard", "binding"}
            BY <4>2, <5>1 DEF DeferredListItem, Deferred
          <5>3. SourceMatches(d, w.items[i])
            BY <4>1, <5>2, MatchesIs
          <5> QED
            BY <4>1, <5>1, <5>3, Unaliased, Zenon
        <4>3. CASE ~DeferredListItem(r.elements[i])
          <5>1. LowerPatternPlan(r.elements[i], w.items[i]) = "yes"
            BY <3>10, <4>1, <4>3, Zenon DEF ItemTest
          <5>2. OfType(w.items[i], Vectors[U]) /\ Vectors[U] \in Types
            BY <3>1, <3>2, <4>1, ValueParts, TypeParts
          <5> QED
            BY <2>1, <3>1, <4>1, <5>1, <5>2, Zenon
        <4> QED
          BY <4>2, <4>3
      <3>14. w.of \in IF r.form = "tuple" THEN DOMAIN Tuples ELSE DOMAIN Vectors
        BY <2>7, <3>1, <3>2
      <3>15. r.form \in {"tuple", "list"}
        BY <2>7
      <3> QED
        BY <3>12, <3>13, <3>14, <3>15, MatchesIs, Zenon
    <2>8. CASE r.form = "record"
      <3>1. /\ HasTarget(r, U) /\ DOMAIN r.fields \subseteq DOMAIN FieldTypes(r, U)
            /\ \A f \in DOMAIN r.fields : BindPattern(r.fields[f], FieldTypes(r, U)[f])
        BY <2>8, BoundParts
      <3>2. PICK tests : tests =
              {Holds(r.path = "" \/ OfType(w, r.path))} \cup
              {LowerPatternPlan(r.fields[g], PatternField(w, g)) : g \in {h \in DOMAIN r.fields : ~Deferred(r.fields[h])}}
        OBVIOUS
      <3>3. CombineConditions(tests) = "yes"
        BY <2>8, <3>2, PlanIs, Zenon
      <3>4. tests \in SUBSET Verdicts
        <4>1. \A b : Holds(b) \in Verdicts
          BY DEF Holds, Verdicts
        <4>2. \A g \in DOMAIN r.fields : LowerPatternPlan(r.fields[g], PatternField(w, g)) \in Verdicts
          BY <2>2, <2>8, FieldInValues, PartsBelow
        <4> QED
          BY <3>2, <4>1, <4>2, Zenon
      <3>5. \A t \in tests : t = "yes"
        BY <3>3, <3>4, Combined
      <3>6. /\ Holds(r.path = "" \/ OfType(w, r.path)) = "yes"
            /\ \A g \in DOMAIN r.fields :
                 ~Deferred(r.fields[g]) => LowerPatternPlan(r.fields[g], PatternField(w, g)) = "yes"
        BY <3>2, <3>5, Zenon
      <3>7. r.path = "" \/ OfType(w, r.path)
        BY <3>6 DEF Holds
      <3>8. w.of = TargetOf(r, U) /\ r.path \in {"", w.of} /\ HasFields(w)
        <4>1. CASE r.path = ""
          <5>1. TargetOf(r, U) = U /\ U \in Classes
            BY <3>1, <4>1 DEF HasTarget, TargetOf
          <5>2. U \in DOMAIN Fields
            BY <5>1 DEF Classes
          <5>3. w.of = U
            BY <5>2, MadeAs
          <5> QED
            BY <4>1, <5>1, <5>2, <5>3 DEF HasFields
        <4>2. CASE r.path # ""
          <5>1. TargetOf(r, U) = r.path /\ r.path \in DOMAIN Fields
            BY <3>1, <4>2 DEF HasTarget, TargetOf
          <5>2. OfType(w, r.path)
            BY <3>7, <4>2
          <5>3. w.of = r.path
            BY <5>1, <5>2, MadeAs
          <5> QED
            BY <5>1, <5>3 DEF HasFields
        <4> QED
          BY <4>1, <4>2
      <3>9. ASSUME NEW f \in DOMAIN r.fields
            PROVE  f \in DOMAIN w.fields /\ SourceMatches(r.fields[f], w.fields[f])
        <4>1. r.fields[f] \in AllPatterns /\ r.fields[f].depth < r.depth
          BY <2>8, PartsBelow
        <4>2. FieldTypes(r, U) = Fields[w.of]
          BY <3>8 DEF FieldTypes
        <4>3. f \in DOMAIN w.fields /\ w.fields[f] \in AllValues /\ OfType(w.fields[f], Fields[w.of][f])
          BY <3>1, <3>8, <4>2, ValueParts DEF HasFields
        <4>4. CASE Deferred(r.fields[f])
          BY <4>1, <4>3, <4>4, MatchesIs DEF Deferred
        <4>5. CASE ~Deferred(r.fields[f])
          <5>1. PatternField(w, f) = w.fields[f]
            BY <3>8, <4>3, Zenon DEF PatternField
          <5>2. LowerPatternPlan(r.fields[f], w.fields[f]) = "yes"
            BY <3>6, <4>5, <5>1, Zenon
          <5>3. Fields[w.of][f] \in Types /\ BindPattern(r.fields[f], Fields[w.of][f])
            BY <3>1, <4>2, FieldTypesTyped, Zenon
          <5> QED
            BY <2>1, <4>1, <4>3, <5>2, <5>3, Zenon
        <4> QED
          BY <4>3, <4>4, <4>5
      <3> QED
        BY <2>8, <3>8, <3>9, MatchesIs, Zenon
    <2>9. CASE r.form \in {"wildcard", "binding"}
      BY <2>9, MatchesIs
    <2>10. r.form \in {"wildcard", "binding", "alias", "literal", "type", "tuple", "list", "record"}
      BY PatternAssumption, Zenon
    <2> QED
      BY <2>3, <2>4, <2>5, <2>6, <2>7, <2>8, <2>9, <2>10
  <1>2. AllPatterns \subseteq T
    <2> HIDE DEF T
    <2> QED
      BY <1>1, PatternInduct
  <1> QED
    BY <1>2


\* A value made as a class or as one that implements an interface is of each
\* type to which its own is assignable.
LEMMA AssignableOf ==
  ASSUME NEW v, NEW S, NEW T, OfType(v, S), Assignable(S, T), S \notin DOMAIN Unions \/ S = T
  PROVE  OfType(v, T)
  <1>1. CASE S = T
    BY <1>1
  <1>2. CASE T \in DOMAIN Interfaces /\ S \in Interfaces[T]
    <2>1. S \in DOMAIN Fields
      <3>1. Interfaces[T] \subseteq Classes
        BY <1>2, TypeAssumption
      <3> QED
        BY <1>2, <3>1 DEF Classes
    <2>2. v.of = S
      BY <2>1, MadeAs
    <2> QED
      BY <1>2, <2>2 DEF OfType
  <1> QED
    BY <1>1, <1>2 DEF Assignable

\* What the checker calls irrefutable matches every value of the type.
LEMMA IrrefutableMatches ==
  ASSUME NEW p \in AllPatterns, NEW v \in AllValues, NEW S \in Types,
         PatternIsIrrefutable(p, S), OfType(v, S)
  PROVE  SourceMatches(p, v)
  <1> DEFINE T == {r \in AllPatterns : \A w \in AllValues : \A U \in Types :
                     PatternIsIrrefutable(r, U) /\ OfType(w, U) => SourceMatches(r, w)}
  <1>1. ASSUME NEW r \in AllPatterns, \A part \in AllPatterns : part.depth < r.depth => part \in T
        PROVE  r \in T
    <2> SUFFICES ASSUME NEW w \in AllValues, NEW U \in Types, PatternIsIrrefutable(r, U), OfType(w, U)
                 PROVE  SourceMatches(r, w)
      OBVIOUS
    <2>1. \A part \in AllPatterns : \A u \in AllValues : \A W \in Types :
            part.depth < r.depth /\ PatternIsIrrefutable(part, W) /\ OfType(u, W) => SourceMatches(part, u)
      BY <1>1
    <2>2. CASE r.form = "alias"
      <3>1. r.inner \in AllPatterns /\ r.inner.depth < r.depth
        BY <2>2, PartsBelow
      <3>2. PatternIsIrrefutable(r.inner, U)
        BY <2>2, IrrefutableParts
      <3>3. SourceMatches(r.inner, w)
        BY <2>1, <3>1, <3>2, Zenon
      <3> QED
        BY <2>2, <3>3, MatchesIs
    <2>3. CASE r.form = "type"
      <3>1. Assignable(U, r.target)
        BY <2>3, IrrefutableParts
      <3>2. U \notin DOMAIN Unions \/ U = r.target
        <4>1. CASE U = r.target
          BY <4>1
        <4>2. CASE U # r.target
          <5>1. r.target \in DOMAIN Interfaces /\ U \in Interfaces[r.target]
            BY <3>1, <4>2 DEF Assignable
          <5>2. Interfaces[r.target] \subseteq Classes
            BY <5>1, TypeAssumption
          <5>3. U \in DOMAIN Fields
            BY <5>1, <5>2 DEF Classes
          <5> QED
            BY <5>3, KindsApart
        <4> QED
          BY <4>1, <4>2
      <3>3. OfType(w, r.target)
        BY <3>1, <3>2, AssignableOf
      <3> QED
        BY <2>3, <3>3, MatchesIs
    <2>4. CASE r.form = "tuple"
      <3>1. /\ U \in DOMAIN Tuples /\ Len(Tuples[U]) = Len(r.elements)
            /\ \A i \in DOMAIN r.elements : PatternIsIrrefutable(r.elements[i], Tuples[U][i])
        BY <2>4, IrrefutableParts
      <3>2. w.of = U
        BY <3>1, MadeAs
      <3>3. /\ Len(w.items) \in Nat /\ Len(r.elements) \in Nat
            /\ DOMAIN w.items = 1 .. Len(w.items) /\ DOMAIN r.elements = 1 .. Len(r.elements)
            /\ \A i \in DOMAIN r.elements : r.elements[i] \in AllPatterns /\ r.elements[i].depth < r.depth
            /\ \A i \in DOMAIN w.items : w.items[i] \in AllValues
        <4>1. w.of \in DOMAIN Tuples \/ w.of \in DOMAIN Vectors
          BY <3>1, <3>2
        <4> QED
          BY <2>4, <4>1, ItemsAt
      <3>4. Len(w.items) = Len(Tuples[U]) /\ \A i \in DOMAIN w.items : OfType(w.items[i], Tuples[U][i])
        BY <3>1, <3>2, ValueParts
      <3>5. Len(w.items) = Len(r.elements) /\ Len(w.items) >= Len(r.elements)
        BY <3>1, <3>3, <3>4
      <3>6. ASSUME NEW i \in DOMAIN r.elements PROVE SourceMatches(r.elements[i], w.items[i])
        <4>1. i \in DOMAIN w.items
          BY <3>3, <3>5
        <4>2. i \in DOMAIN Tuples[U]
          BY <3>1, <3>3, TypeParts
        <4>3. Tuples[U][i] \in Types
          BY <3>1, <4>2, TypeParts
        <4> QED
          BY <2>1, <3>1, <3>3, <3>4, <4>1, <4>3, Zenon
      <3>7. w.of \in IF r.form = "tuple" THEN DOMAIN Tuples ELSE DOMAIN Vectors
        BY <2>4, <3>1, <3>2
      <3>8. r.form \in {"tuple", "list"}
        BY <2>4
      <3> QED
        BY <2>4, <3>5, <3>6, <3>7, <3>8, MatchesIs, Zenon
    <2>5. CASE r.form = "list"
      <3>1. r.elements = << >> /\ r.rest /\ U \in DOMAIN Vectors
        BY <2>5, IrrefutableParts
      <3>2. w.of = U
        BY <3>1, MadeAs
      <3>3. Len(w.items) \in Nat
        <4>1. w.items \in Seq(AllValues)
          BY <3>1, <3>2, ValueParts
        <4> QED
          BY <4>1
      <3>4. Len(w.items) >= Len(r.elements) /\ DOMAIN r.elements = {}
        BY <3>1, <3>3
      <3>5. w.of \in IF r.form = "tuple" THEN DOMAIN Tuples ELSE DOMAIN Vectors
        BY <2>5, <3>1, <3>2
      <3>6. r.form \in {"tuple", "list"}
        BY <2>5
      <3>7. \A i \in DOMAIN r.elements : SourceMatches(r.elements[i], w.items[i])
        BY <3>4
      <3> QED
        BY <3>1, <3>4, <3>5, <3>6, <3>7, MatchesIs, Zenon
    <2>6. CASE r.form = "record"
      <3>1. /\ HasTarget(r, U) /\ ~IsCase(r) /\ Assignable(U, TargetOf(r, U))
            /\ \A f \in DOMAIN r.fields :
                 f \in DOMAIN FieldTypes(r, U) /\ PatternIsIrrefutable(r.fields[f], FieldTypes(r, U)[f])
        BY <2>6, IrrefutableParts
      <3>2. TargetOf(r, U) \in DOMAIN Fields
        BY <3>1 DEF HasTarget, TargetOf, Classes
      <3>3. TargetOf(r, U) = U
        BY <3>1, <3>2, KindsApart DEF Assignable
      <3>4. w.of = U
        BY <3>2, <3>3, MadeAs
      <3>5. r.path \in {"", w.of}
        BY <3>3, <3>4 DEF TargetOf
      <3>6. HasFields(w) /\ w.of \in DOMAIN Fields
        BY <3>2, <3>3, <3>4 DEF HasFields
      <3>7. FieldTypes(r, U) = Fields[w.of]
        BY <3>3, <3>4 DEF FieldTypes
      <3>8. ASSUME NEW f \in DOMAIN r.fields
            PROVE  f \in DOMAIN w.fields /\ SourceMatches(r.fields[f], w.fields[f])
        <4>1. r.fields[f] \in AllPatterns /\ r.fields[f].depth < r.depth
          BY <2>6, PartsBelow
        <4>2. f \in DOMAIN Fields[w.of] /\ PatternIsIrrefutable(r.fields[f], Fields[w.of][f])
          BY <3>1, <3>7, Zenon
        <4>3. f \in DOMAIN w.fields /\ w.fields[f] \in AllValues /\ OfType(w.fields[f], Fields[w.of][f])
          BY <3>6, <4>2, ValueParts
        <4>4. Fields[w.of][f] \in Types
          BY <3>6, <4>2, TypeParts
        <4> QED
          BY <2>1, <4>1, <4>2, <4>3, <4>4, Zenon
      <3> QED
        BY <2>6, <3>5, <3>6, <3>8, MatchesIs, Zenon
    <2>7. CASE r.form \in {"wildcard", "binding"}
      BY <2>7, MatchesIs
    <2>8. r.form \in {"wildcard", "binding", "alias", "type", "tuple", "list", "record"}
      BY IrrefutableParts, Zenon
    <2> QED
      BY <2>2, <2>3, <2>4, <2>5, <2>6, <2>7, <2>8
  <1>2. AllPatterns \subseteq T
    <2> HIDE DEF T
    <2> QED
      BY <1>1, PatternInduct
  <1> QED
    BY <1>2

\* What the literal form of a source proves matches what the source denotes.
LEMMA ProvedMatches ==
  ASSUME NEW p \in AllPatterns, NEW s \in AllSources, SourceExprProvesPatternMatch(p, s)
  PROVE  SourceMatches(p, s.denotes)
  <1> DEFINE T == {r \in AllPatterns : \A u \in AllSources :
                     SourceExprProvesPatternMatch(r, u) => SourceMatches(r, u.denotes)}
  <1>1. ASSUME NEW r \in AllPatterns, \A part \in AllPatterns : part.depth < r.depth => part \in T
        PROVE  r \in T
    <2> SUFFICES ASSUME NEW u \in AllSources, SourceExprProvesPatternMatch(r, u)
                 PROVE  SourceMatches(r, u.denotes)
      OBVIOUS
    <2>1. \A part \in AllPatterns : \A t \in AllSources :
            part.depth < r.depth /\ SourceExprProvesPatternMatch(part, t) => SourceMatches(part, t.denotes)
      BY <1>1
    <2>2. PICK w \in AllValues : w = u.denotes
      BY SourceParts
    <2> SUFFICES SourceMatches(r, w)
      BY <2>2
    <2>3. CASE r.form = "alias"
      <3>1. r.inner \in AllPatterns /\ r.inner.depth < r.depth
        BY <2>3, PartsBelow
      <3>2. SourceExprProvesPatternMatch(r.inner, u)
        BY <2>3, ProvedParts
      <3>3. SourceMatches(r.inner, w)
        BY <2>1, <2>2, <3>1, <3>2, Zenon
      <3> QED
        BY <2>3, <3>3, MatchesIs
    <2>4. CASE r.form = "literal"
      <3>1. u.expr = "literal" /\ u.value = r.value
        BY <2>4, ProvedParts
      <3>2. w = Flag(r.value)
        BY <2>2, <3>1, SourceParts
      <3> QED
        BY <2>4, <3>2, MatchesIs
    <2>5. CASE r.form \in {"tuple", "list"}
      <3>1. u.expr = r.form
        BY <2>5, ProvedParts
      <3>2. /\ Len(u.items) >= Len(r.elements)
            /\ r.form = "tuple" \/ r.rest \/ Len(u.items) = Len(r.elements)
            /\ \A i \in DOMAIN r.elements : SourceExprProvesPatternMatch(r.elements[i], u.items[i])
        <4>1. CASE r.form = "tuple"
          <5>1. /\ Len(u.items) = Len(r.elements)
                /\ \A i \in DOMAIN r.elements : SourceExprProvesPatternMatch(r.elements[i], u.items[i])
            BY <4>1, ProvedParts
          <5>2. Len(r.elements) \in Nat
            <6>1. r.elements \in Seq(AllPatterns)
              BY <2>5, PartsBelow
            <6> QED
              BY <6>1
          <5> QED
            BY <4>1, <5>1, <5>2
        <4>2. CASE r.form = "list"
          BY <4>2, ProvedParts
        <4> QED
          BY <2>5, <4>1, <4>2
      <3>3. /\ w.of \in IF r.form = "tuple" THEN DOMAIN Tuples ELSE DOMAIN Vectors
            /\ Len(w.items) = Len(u.items) /\ \A i \in DOMAIN u.items : w.items[i] = u.items[i].denotes
        BY <2>2, <2>5, <3>1, SourceParts
      <3>4. \A i \in DOMAIN r.elements :
              /\ r.elements[i] \in AllPatterns /\ r.elements[i].depth < r.depth
              /\ i \in DOMAIN u.items /\ u.items[i] \in AllSources
        BY <2>5, <3>1, <3>2, ItemsOf
      <3>5. \A i \in DOMAIN r.elements : SourceMatches(r.elements[i], w.items[i])
        BY <2>1, <3>2, <3>3, <3>4
      <3>6. Len(w.items) >= Len(r.elements) /\ (r.form = "tuple" \/ r.rest \/ Len(w.items) = Len(r.elements))
        BY <3>2, <3>3
      <3>7. w.of \in IF r.form = "tuple" THEN DOMAIN Tuples ELSE DOMAIN Vectors
        BY <3>3
      <3> QED
        BY <2>5, <3>5, <3>6, <3>7, MatchesIs, Zenon
    <2>6. CASE r.form = "record"
      <3>1. /\ u.expr = "construct" /\ u.path = r.path /\ DOMAIN u.fields = DOMAIN r.fields
            /\ \A f \in DOMAIN r.fields : SourceExprProvesPatternMatch(r.fields[f], u.fields[f])
        BY <2>6, ProvedParts
      <3>2. /\ w.of = u.path /\ u.path \in DOMAIN Fields /\ DOMAIN w.fields = DOMAIN u.fields
            /\ \A f \in DOMAIN u.fields : u.fields[f] \in AllSources /\ w.fields[f] = u.fields[f].denotes
        BY <2>2, <3>1, SourceParts
      <3>3. HasFields(w) /\ r.path \in {"", w.of}
        BY <3>1, <3>2 DEF HasFields
      <3>4. ASSUME NEW f \in DOMAIN r.fields
            PROVE  f \in DOMAIN w.fields /\ SourceMatches(r.fields[f], w.fields[f])
        <4>1. r.fields[f] \in AllPatterns /\ r.fields[f].depth < r.depth
          BY <2>6, PartsBelow
        <4>2. f \in DOMAIN w.fields /\ u.fields[f] \in AllSources /\ w.fields[f] = u.fields[f].denotes
          BY <3>1, <3>2
        <4>3. SourceMatches(r.fields[f], u.fields[f].denotes)
          BY <2>1, <3>1, <4>1, <4>2, Zenon
        <4> QED
          BY <4>2, <4>3
      <3> QED
        BY <2>6, <3>3, <3>4, MatchesIs, Zenon
    <2>7. CASE r.form \in {"wildcard", "binding"}
      BY <2>7, MatchesIs
    <2>8. r.form \in {"wildcard", "binding", "alias", "tuple", "list", "literal", "record"}
      BY ProvedParts, Zenon
    <2> QED
      BY <2>3, <2>4, <2>5, <2>6, <2>7, <2>8
  <1>2. AllPatterns \subseteq T
    <2> HIDE DEF T
    <2> QED
      BY <1>1, PatternInduct
  <1> QED
    BY <1>2


-----------------------------------------------------------------------------
(* How the cases of a match lie: those of one written case after those of the *)
(* one before it.                                                             *)

LEMMA Joined ==
  ASSUME NEW S, NEW s \in Seq(S), NEW t \in Seq(S)
  PROVE  /\ s \o t \in Seq(S) /\ Len(s \o t) = Len(s) + Len(t)
         /\ Len(s) \in Nat /\ Len(t) \in Nat
         /\ \A i \in 1..Len(s) : (s \o t)[i] = s[i]
         /\ \A i \in 1..Len(t) : (s \o t)[Len(s) + i] = t[i]
  OBVIOUS

\* f holds the concatenations of the first sequences of s, up to the nth.
Flattens(f, s, n) == f = [i \in 1..n |-> IF i = 1 THEN s[i] ELSE f[i - 1] \o s[i]]

LEMMA FlattensAt ==
  ASSUME NEW s, NEW n, NEW f, Flattens(f, s, n), NEW i \in 1..n
  PROVE  f[i] = IF i = 1 THEN s[i] ELSE f[i - 1] \o s[i]
  <1>1. PICK h : h = [j \in 1..n |-> IF j = 1 THEN s[j] ELSE f[j - 1] \o s[j]]
    OBVIOUS
  <1>2. h[i] = IF i = 1 THEN s[i] ELSE f[i - 1] \o s[i]
    BY <1>1, Zenon
  <1>3. h = f
    BY <1>1, Zenon DEF Flattens
  <1> QED
    BY <1>2, <1>3

LEMMA FlattensExists == ASSUME NEW s, NEW n \in Nat PROVE \E f : Flattens(f, s, n)
  <1>1. PICK T : T = {k \in Nat : \E f : Flattens(f, s, k)}
    OBVIOUS
  <1>2. 0 \in T
    <2>1. PICK f : f = [i \in 1..0 |-> s[i]]
      OBVIOUS
    <2>2. Flattens(f, s, 0)
      BY <2>1 DEF Flattens
    <2> QED
      BY <1>1, <2>2
  <1>3. ASSUME NEW k \in Nat, k \in T PROVE k + 1 \in T
    <2>1. PICK f : Flattens(f, s, k)
      BY <1>1, <1>3
    <2>2. PICK e : e = IF k = 0 THEN s[1] ELSE f[k] \o s[k + 1]
      OBVIOUS
    <2>3. PICK g : g = [i \in 1..(k + 1) |-> IF i = k + 1 THEN e ELSE f[i]]
      OBVIOUS
    <2>4. ASSUME NEW i \in 1..(k + 1)
          PROVE  g[i] = IF i = 1 THEN s[i] ELSE g[i - 1] \o s[i]
      <3>1. CASE i = k + 1
        BY <2>2, <2>3, <3>1
      <3>2. CASE i # k + 1
        <4>1. i \in 1..k /\ (i # 1 => i - 1 \in 1..k)
          BY <3>2
        <4>2. f[i] = IF i = 1 THEN s[i] ELSE f[i - 1] \o s[i]
          BY <2>1, <4>1, FlattensAt
        <4>3. g[i] = f[i] /\ (i # 1 => g[i - 1] = f[i - 1])
          BY <2>3, <3>2, <4>1
        <4> QED
          BY <4>2, <4>3
      <3> QED
        BY <3>1, <3>2
    <2>5. Flattens(g, s, k + 1)
      <3>1. PICK h : h = [i \in 1..(k + 1) |-> IF i = 1 THEN s[i] ELSE g[i - 1] \o s[i]]
        OBVIOUS
      <3>2. \A i \in 1..(k + 1) : h[i] = g[i]
        BY <2>4, <3>1
      <3>3. h = g
        BY <2>3, <3>1, <3>2
      <3> QED
        BY <3>1, <3>3 DEF Flattens
    <2> QED
      BY <1>1, <2>5
  <1> QED
    BY <1>1, <1>2, <1>3, NatInduct

LEMMA FlattenIs ==
  ASSUME NEW s, Len(s) \in Nat \ {0}
  PROVE  \E f : Flattens(f, s, Len(s)) /\ FlattenSeq(s) = f[Len(s)]
  <1>1. PICK g : g = CHOOSE h : Flattens(h, s, Len(s))
    OBVIOUS
  <1>2. Flattens(g, s, Len(s))
    BY <1>1, FlattensExists
  <1>3. FlattenSeq(s) = (CHOOSE h : Flattens(h, s, Len(s)))[Len(s)]
    BY DEF FlattenSeq, Flattens
  <1> QED
    BY <1>1, <1>2, <1>3

WrittenCases == [alternatives : Seq(AllPatterns) \ {<< >>}, guard : {"none", "true", "false"}]

CaseRecords ==
  [pattern : AllPatterns, guard : {"none", "true", "false"}, written : Nat, remainingAlternatives : Nat]

LEMMA WrittenParts ==
  ASSUME NEW w \in Seq(WrittenCases)
  PROVE  /\ Len(w) \in Nat /\ DOMAIN w = 1..Len(w)
         /\ \A k \in 1..Len(w) :
              /\ w[k].guard \in {"none", "true", "false"}
              /\ Len(w[k].alternatives) \in Nat \ {0}
              /\ DOMAIN w[k].alternatives = 1..Len(w[k].alternatives)
              /\ \A j \in 1..Len(w[k].alternatives) : w[k].alternatives[j] \in AllPatterns
  <1>1. Len(w) \in Nat /\ DOMAIN w = 1..Len(w) /\ \A k \in 1..Len(w) : w[k] \in WrittenCases
    OBVIOUS
  <1>2. ASSUME NEW k \in 1..Len(w)
        PROVE  /\ w[k].guard \in {"none", "true", "false"}
               /\ Len(w[k].alternatives) \in Nat \ {0}
               /\ DOMAIN w[k].alternatives = 1..Len(w[k].alternatives)
               /\ \A j \in 1..Len(w[k].alternatives) : w[k].alternatives[j] \in AllPatterns
    <2>1. w[k].guard \in {"none", "true", "false"} /\ w[k].alternatives \in Seq(AllPatterns) \ {<< >>}
      BY <1>1 DEF WrittenCases
    <2>2. \A s \in Seq(AllPatterns) \ {<< >>} :
            /\ Len(s) \in Nat \ {0} /\ DOMAIN s = 1..Len(s) /\ \A j \in 1..Len(s) : s[j] \in AllPatterns
      OBVIOUS
    <2> QED
      BY <2>1, <2>2, Zenon
  <1> QED
    BY <1>1, <1>2

LEMMA ParseCaseIs ==
  ASSUME NEW w \in Seq(WrittenCases), NEW k \in 1..Len(w)
  PROVE  /\ ParseCase(w, k) \in Seq(CaseRecords)
         /\ Len(ParseCase(w, k)) = Len(w[k].alternatives)
         /\ \A j \in 1..Len(w[k].alternatives) :
              ParseCase(w, k)[j] = [pattern |-> w[k].alternatives[j], guard |-> w[k].guard, written |-> k,
                                    remainingAlternatives |-> Len(w[k].alternatives) - j]
  <1>1. PICK n \in Nat : n = Len(w[k].alternatives)
    BY WrittenParts
  <1>2. /\ DOMAIN w[k].alternatives = 1..n /\ w[k].guard \in {"none", "true", "false"} /\ k \in Nat
        /\ \A j \in 1..n : w[k].alternatives[j] \in AllPatterns
    BY <1>1, WrittenParts
  <1>3. ParseCase(w, k) =
          [j \in 1..n |-> [pattern |-> w[k].alternatives[j], guard |-> w[k].guard, written |-> k,
                           remainingAlternatives |-> n - j]]
    BY <1>1, <1>2, Zenon DEF ParseCase
  <1>4. \A j \in 1..n : ParseCase(w, k)[j] \in CaseRecords
    BY <1>2, <1>3 DEF CaseRecords
  <1>5. ParseCase(w, k) \in [1..n -> CaseRecords]
    BY <1>3, <1>4
  <1>6. ParseCase(w, k) \in Seq(CaseRecords) /\ Len(ParseCase(w, k)) = n
    BY <1>5
  <1> QED
    BY <1>1, <1>3, <1>6

\* In cs, the alternatives of the first m cases of w follow one another; those
\* of case k come after place base[k].
LaidOut(w, base, cs, m) ==
  /\ cs \in Seq(CaseRecords) /\ Len(cs) = base[m + 1]
  /\ \A k \in 1..m : \A j \in 1..Len(w[k].alternatives) :
       /\ base[k] + j \in 1..Len(cs)
       /\ cs[base[k] + j] = [pattern |-> w[k].alternatives[j], guard |-> w[k].guard, written |-> k,
                             remainingAlternatives |-> Len(w[k].alternatives) - j]
  /\ \A i \in 1..Len(cs) : \E k \in 1..m : \E j \in 1..Len(w[k].alternatives) : i = base[k] + j

Based(w, base) ==
  /\ base \in [1..Len(w) + 1 -> Nat] /\ base[1] = 0
  /\ \A k \in 1..Len(w) : base[k + 1] = base[k] + Len(w[k].alternatives)

LEMMA LaidOutNext ==
  ASSUME NEW w \in Seq(WrittenCases), NEW base, Based(w, base), NEW m \in Nat, m + 1 \in 1..Len(w),
         NEW cs, LaidOut(w, base, cs, m)
  PROVE  LaidOut(w, base, cs \o ParseCase(w, m + 1), m + 1)
  <1>1. PICK n \in Nat : n = Len(w)
    BY WrittenParts
  <1>2. PICK e \in Seq(CaseRecords) : e = ParseCase(w, m + 1)
    BY ParseCaseIs
  <1>3. PICK a : a = [k \in 1..n |-> Len(w[k].alternatives)]
    OBVIOUS
  <1>4. a \in [1..n -> Nat] /\ \A k \in 1..n : a[k] = Len(w[k].alternatives)
    BY <1>1, <1>3, WrittenParts
  <1>5. /\ base \in [1..n + 1 -> Nat] /\ base[1] = 0
        /\ \A k \in 1..n : base[k + 1] = base[k] + a[k]
    BY <1>1, <1>4 DEF Based
  <1>6. PICK entry : entry = [k \in 1..n |-> [j \in 1..a[k] |->
          [pattern |-> w[k].alternatives[j], guard |-> w[k].guard, written |-> k,
           remainingAlternatives |-> Len(w[k].alternatives) - j]]]
    OBVIOUS
  <1>7. \A k \in 1..n : \A j \in 1..a[k] : entry[k][j] =
          [pattern |-> w[k].alternatives[j], guard |-> w[k].guard, written |-> k,
           remainingAlternatives |-> Len(w[k].alternatives) - j]
    BY <1>6, Zenon
  <1>8. Len(e) = a[m + 1] /\ \A j \in 1..a[m + 1] : e[j] = entry[m + 1][j]
    <2>1. m + 1 \in 1..n
      BY <1>1
    <2>2. /\ Len(ParseCase(w, m + 1)) = Len(w[m + 1].alternatives)
          /\ \A j \in 1..Len(w[m + 1].alternatives) : ParseCase(w, m + 1)[j] =
               [pattern |-> w[m + 1].alternatives[j], guard |-> w[m + 1].guard, written |-> m + 1,
                remainingAlternatives |-> Len(w[m + 1].alternatives) - j]
      BY ParseCaseIs
    <2>3. a[m + 1] = Len(w[m + 1].alternatives)
      BY <1>4, <2>1
    <2> QED
      BY <1>2, <1>7, <2>1, <2>2, <2>3, Zenon
  <1>9. /\ cs \in Seq(CaseRecords) /\ Len(cs) = base[m + 1]
        /\ \A k \in 1..m : \A j \in 1..a[k] : base[k] + j \in 1..Len(cs) /\ cs[base[k] + j] = entry[k][j]
        /\ \A i \in 1..Len(cs) : \E k \in 1..m : \E j \in 1..a[k] : i = base[k] + j
    <2>1. \A k \in 1..m : k \in 1..n
      BY <1>1
    <2>2. cs \in Seq(CaseRecords) /\ Len(cs) = base[m + 1]
      BY DEF LaidOut
    <2>3. \A k \in 1..m : \A j \in 1..a[k] : base[k] + j \in 1..Len(cs) /\ cs[base[k] + j] = entry[k][j]
      <3> SUFFICES ASSUME NEW k \in 1..m, NEW j \in 1..a[k]
                   PROVE  base[k] + j \in 1..Len(cs) /\ cs[base[k] + j] = entry[k][j]
        OBVIOUS
      <3>1. k \in 1..n /\ a[k] = Len(w[k].alternatives)
        BY <1>4, <2>1, Zenon
      <3>2. j \in 1..Len(w[k].alternatives)
        BY <3>1
      <3>3. /\ base[k] + j \in 1..Len(cs)
            /\ cs[base[k] + j] = [pattern |-> w[k].alternatives[j], guard |-> w[k].guard, written |-> k,
                                  remainingAlternatives |-> Len(w[k].alternatives) - j]
        BY <3>2, Zenon DEF LaidOut
      <3> QED
        BY <1>7, <3>1, <3>3, Zenon
    <2>4. \A i \in 1..Len(cs) : \E k \in 1..m : \E j \in 1..a[k] : i = base[k] + j
      <3> SUFFICES ASSUME NEW i \in 1..Len(cs)
                   PROVE  \E k \in 1..m : \E j \in 1..a[k] : i = base[k] + j
        OBVIOUS
      <3>1. \E k \in 1..m : \E j \in 1..Len(w[k].alternatives) : i = base[k] + j
        BY DEF LaidOut
      <3>2. PICK k \in 1..m : \E j \in 1..Len(w[k].alternatives) : i = base[k] + j
        BY <3>1
      <3>3. PICK j \in 1..Len(w[k].alternatives) : i = base[k] + j
        BY <3>2
      <3>4. a[k] = Len(w[k].alternatives)
        BY <1>4, <2>1
      <3> QED
        BY <3>3, <3>4
    <2> QED
      BY <2>2, <2>3, <2>4
  <1>10. PICK t : t = cs \o e
    OBVIOUS
  <1>11. /\ t \in Seq(CaseRecords) /\ Len(t) = base[m + 1] + a[m + 1]
         /\ \A i \in 1..base[m + 1] : t[i] = cs[i]
         /\ \A i \in 1..a[m + 1] : t[base[m + 1] + i] = e[i]
    <2>1. /\ cs \o e \in Seq(CaseRecords) /\ Len(cs \o e) = Len(cs) + Len(e)
          /\ \A i \in 1..Len(cs) : (cs \o e)[i] = cs[i]
          /\ \A i \in 1..Len(e) : (cs \o e)[Len(cs) + i] = e[i]
      <3>1. cs \in Seq(CaseRecords) /\ e \in Seq(CaseRecords)
        BY <1>9
      <3> QED
        BY <3>1, Joined
    <2>2. Len(cs) = base[m + 1] /\ Len(e) = a[m + 1]
      BY <1>8, <1>9
    <2> QED
      BY <1>10, <2>1, <2>2, Zenon
  <1>12. m + 1 \in 1..n /\ base[m + 1] \in Nat /\ a[m + 1] \in Nat /\ base[(m + 1) + 1] = base[m + 1] + a[m + 1]
    <2>1. m + 1 \in 1..n /\ m + 1 \in 1..n + 1
      BY <1>1
    <2> QED
      BY <1>4, <1>5, <2>1
  <1>13. ASSUME NEW k \in 1..m + 1, NEW j \in 1..a[k]
         PROVE  base[k] + j \in 1..Len(t) /\ t[base[k] + j] = entry[k][j]
    <2>1. CASE k = m + 1
      BY <1>8, <1>11, <1>12, <2>1
    <2>2. CASE k # m + 1
      <3>1. k \in 1..m
        BY <2>2
      <3>2. base[k] + j \in 1..Len(cs) /\ cs[base[k] + j] = entry[k][j] /\ Len(cs) = base[m + 1]
        BY <1>9, <3>1
      <3>3. t[base[k] + j] = cs[base[k] + j]
        BY <1>11, <3>2
      <3>4. base[k] + j \in 1..Len(t)
        BY <1>11, <1>12, <3>2
      <3> QED
        BY <3>2, <3>3, <3>4
    <2> QED
      BY <2>1, <2>2
  <1>14. ASSUME NEW i \in 1..Len(t) PROVE \E k \in 1..m + 1 : \E j \in 1..a[k] : i = base[k] + j
    <2>1. CASE i \in 1..base[m + 1]
      BY <1>9, <2>1
    <2>2. CASE i \notin 1..base[m + 1]
      <3>1. i - base[m + 1] \in 1..a[m + 1] /\ i = base[m + 1] + (i - base[m + 1])
        BY <1>11, <1>12, <2>2
      <3> QED
        BY <3>1
    <2> QED
      BY <2>1, <2>2
  <1>15. \A k \in 1..m + 1 : k \in 1..n
    BY <1>12
  <1>16. \A k \in 1..m + 1 : \A j \in 1..Len(w[k].alternatives) :
           /\ base[k] + j \in 1..Len(t)
           /\ t[base[k] + j] = [pattern |-> w[k].alternatives[j], guard |-> w[k].guard, written |-> k,
                                remainingAlternatives |-> Len(w[k].alternatives) - j]
    BY <1>4, <1>7, <1>13, <1>15, Zenon
  <1>17. \A i \in 1..Len(t) : \E k \in 1..m + 1 : \E j \in 1..Len(w[k].alternatives) : i = base[k] + j
    BY <1>4, <1>14, <1>15, Zenon
  <1>18. Len(t) = base[(m + 1) + 1]
    BY <1>11, <1>12
  <1> QED
    BY <1>2, <1>10, <1>11, <1>16, <1>17, <1>18 DEF LaidOut


LEMMA LaidOutNone ==
  ASSUME NEW w, NEW base, base[1] = 0
  PROVE  LaidOut(w, base, << >>, 0)
  <1>1. << >> \in Seq(CaseRecords) /\ Len(<< >>) = 0
    OBVIOUS
  <1>2. 1..0 = {} /\ 0 + 1 = 1
    OBVIOUS
  <1>3. 1..Len(<< >>) = {}
    BY <1>1, <1>2
  <1> QED
    BY <1>1, <1>2, <1>3, Zenon DEF LaidOut

LEMMA ParseLaidOut ==
  ASSUME NEW w \in Seq(WrittenCases)
  PROVE  \E base : Based(w, base) /\ LaidOut(w, base, ParseMatch(w), Len(w))
  <1>1. PICK n \in Nat : n = Len(w)
    BY WrittenParts
  <1>2. DOMAIN w = 1..n
    BY <1>1, WrittenParts
  <1>3. PICK s : s = [k \in 1..n |-> ParseCase(w, k)]
    OBVIOUS
  <1>4. ParseMatch(w) = FlattenSeq(s)
    BY <1>2, <1>3, Zenon DEF ParseMatch
  <1>5. CASE n = 0
    <2>1. PICK base : base = [k \in 1..1 |-> 0]
      OBVIOUS
    <2>2. base \in [1..1 -> Nat] /\ base[1] = 0
      BY <2>1
    <2>3. 1..n = {} /\ n + 1 = 1
      BY <1>5
    <2>4. Based(w, base)
      BY <1>1, <2>2, <2>3 DEF Based
    <2>5. s = << >>
      BY <1>3, <2>3
    <2>6. FlattenSeq(s) = << >>
      BY <2>5 DEF FlattenSeq
    <2>7. LaidOut(w, base, << >>, 0)
      BY <2>2, LaidOutNone
    <2> QED
      BY <1>1, <1>4, <1>5, <2>4, <2>6, <2>7, Zenon
  <1>6. CASE n # 0
    <2>1. \A k \in 1..n : s[k] \in Seq(CaseRecords) /\ Len(s[k]) = Len(w[k].alternatives)
      <3>1. \A k \in 1..n : /\ ParseCase(w, k) \in Seq(CaseRecords)
                            /\ Len(ParseCase(w, k)) = Len(w[k].alternatives)
        BY <1>1, ParseCaseIs
      <3> QED
        BY <1>3, <3>1, Zenon
    <2>2. s \in [1..n -> Seq(CaseRecords)]
      BY <1>3, <2>1
    <2>3. Len(s) = n
      BY <2>2
    <2>4. PICK f : Flattens(f, s, n) /\ FlattenSeq(s) = f[n]
      <3>1. Len(s) \in Nat \ {0}
        BY <1>6, <2>3
      <3>2. \E g : Flattens(g, s, Len(s)) /\ FlattenSeq(s) = g[Len(s)]
        BY <3>1, FlattenIs
      <3> QED
        BY <2>3, <3>2
    <2>5. \A k \in 1..n : f[k] = IF k = 1 THEN s[k] ELSE f[k - 1] \o s[k]
      BY <2>4, FlattensAt
    <2>6. f[1] = s[1]
      BY <1>6, <2>5
    <2>7. ASSUME NEW k \in Nat, k # 0, k + 1 \in 1..n PROVE f[k + 1] = f[k] \o s[k + 1]
      <3>1. k + 1 # 1 /\ (k + 1) - 1 = k
        BY <2>7
      <3>2. f[k + 1] = IF k + 1 = 1 THEN s[k + 1] ELSE f[(k + 1) - 1] \o s[k + 1]
        BY <2>5, <2>7
      <3> QED
        BY <3>1, <3>2
    <2>8. \A k \in 1..n : f[k] \in Seq(CaseRecords)
      <3>1. PICK T : T = {k \in Nat : k \in 1..n => f[k] \in Seq(CaseRecords)}
        OBVIOUS
      <3>2. 0 \in T
        BY <3>1
      <3>3. ASSUME NEW k \in Nat, k \in T PROVE k + 1 \in T
        <4> SUFFICES ASSUME k + 1 \in 1..n PROVE f[k + 1] \in Seq(CaseRecords)
          BY <3>1
        <4>1. s[k + 1] \in Seq(CaseRecords)
          BY <2>1
        <4>2. CASE k = 0
          BY <2>6, <4>1, <4>2
        <4>3. CASE k # 0
          <5>1. f[k] \in Seq(CaseRecords)
            BY <3>1, <3>3, <4>3
          <5>2. f[k] \o s[k + 1] \in Seq(CaseRecords)
            BY <4>1, <5>1, Joined
          <5> QED
            BY <2>7, <4>3, <5>2
        <4> QED
          BY <4>2, <4>3
      <3>4. Nat \subseteq T
        BY <3>2, <3>3, NatInduct
      <3> QED
        BY <3>1, <3>4
    <2>9. PICK base : base = [k \in 1..n + 1 |-> IF k = 1 THEN 0 ELSE Len(f[k - 1])]
      OBVIOUS
    <2>10. base[1] = 0 /\ \A k \in 1..n : base[k + 1] = Len(f[k])
      <3>1. \A k \in 1..n + 1 : base[k] = IF k = 1 THEN 0 ELSE Len(f[k - 1])
        BY <2>9, Zenon
      <3>2. 1 \in 1..n + 1 /\ \A k \in 1..n : k + 1 \in 1..n + 1 /\ k + 1 # 1 /\ (k + 1) - 1 = k
        OBVIOUS
      <3> QED
        BY <3>1, <3>2
    <2>11. \A k \in 1..n : Len(f[k]) \in Nat
      BY <2>8
    <2>12. base \in [1..n + 1 -> Nat]
      <3>1. ASSUME NEW k \in 1..n + 1 PROVE (IF k = 1 THEN 0 ELSE Len(f[k - 1])) \in Nat
        <4>1. k # 1 => k - 1 \in 1..n
          OBVIOUS
        <4> QED
          BY <2>11, <4>1
      <3> QED
        BY <2>9, <3>1
    <2>13. ASSUME NEW k \in 1..n PROVE base[k + 1] = base[k] + Len(w[k].alternatives)
      <3>1. CASE k = 1
        BY <2>1, <2>6, <2>10, <3>1
      <3>2. CASE k # 1
        <4>1. PICK m \in 1..n : k = m + 1
          BY <3>2
        <4>2. f[k] = f[m] \o s[k]
          <5>1. m \in Nat /\ m # 0 /\ m + 1 \in 1..n
            BY <4>1
          <5>2. f[m + 1] = f[m] \o s[m + 1]
            BY <2>7, <5>1
          <5> QED
            BY <4>1, <5>2
        <4>3. f[m] \in Seq(CaseRecords) /\ s[k] \in Seq(CaseRecords)
          BY <2>1, <2>8
        <4>4. Len(f[k]) = Len(f[m]) + Len(s[k])
          BY <4>2, <4>3, Joined
        <4>5. base[k] = Len(f[m]) /\ base[k + 1] = Len(f[k])
          BY <2>10, <4>1
        <4> QED
          BY <2>1, <4>4, <4>5
      <3> QED
        BY <3>1, <3>2
    <2>14. Based(w, base)
      BY <1>1, <2>10, <2>12, <2>13 DEF Based
    <2>15. PICK T : T = {m \in Nat : m \in 1..n => LaidOut(w, base, f[m], m)}
      OBVIOUS
    <2>16. 0 \in T
      BY <2>15
    <2>17. ASSUME NEW m \in Nat, m \in T PROVE m + 1 \in T
      <3> SUFFICES ASSUME m + 1 \in 1..n PROVE LaidOut(w, base, f[m + 1], m + 1)
        BY <2>15
      <3>1. s[m + 1] = ParseCase(w, m + 1) /\ s[m + 1] \in Seq(CaseRecords) /\ m + 1 \in 1..Len(w)
        BY <1>1, <1>3, <2>1
      <3>2. CASE m = 0
        <4>1. LaidOut(w, base, << >>, m)
          BY <2>10, <3>2, LaidOutNone
        <4>2. LaidOut(w, base, << >> \o ParseCase(w, m + 1), m + 1)
          BY <2>14, <3>1, <4>1, LaidOutNext
        <4>3. << >> \o s[m + 1] = s[m + 1]
          BY <3>1
        <4>4. f[m + 1] = s[m + 1]
          BY <2>6, <3>2
        <4> QED
          BY <3>1, <4>2, <4>3, <4>4
      <3>3. CASE m # 0
        <4>1. LaidOut(w, base, f[m], m)
          BY <2>15, <2>17, <3>3
        <4>2. LaidOut(w, base, f[m] \o ParseCase(w, m + 1), m + 1)
          BY <2>14, <3>1, <4>1, LaidOutNext
        <4> QED
          BY <2>7, <3>1, <3>3, <4>2
      <3> QED
        BY <3>2, <3>3
    <2>18. n \in T
      BY <2>16, <2>17, NatInduct
    <2>19. LaidOut(w, base, f[n], n)
      BY <1>6, <2>15, <2>18
    <2> QED
      BY <1>1, <1>4, <2>4, <2>14, <2>19
  <1> QED
    BY <1>5, <1>6


-----------------------------------------------------------------------------
(* The inductive invariant: where a match stands, and what it has tried. *)

\* Of case k of w, the alternatives that match v; and whether every case before
\* case k left it to its successors.
MatchingIn(v, w, k) == {i \in DOMAIN w[k].alternatives : SourceMatches(w[k].alternatives[i], v)}

ReachedIn(v, w, k) == \A j \in 1..(k - 1) : MatchingIn(v, w, j) = {} \/ w[j].guard = "false"

AcceptedIn(T, w) ==
  /\ \A i \in DOMAIN ParseMatch(w) : BindPattern(ParseMatch(w)[i].pattern, T)
  /\ CheckMatchExhaustiveness(T, ParseMatch(w))

\* The case at place c is alternative j of case k, which the match has reached
\* past the alternatives before it; or c is past the cases, and k as well.
Standing(v, w, base, c, k, j) ==
  /\ k \in 1..Len(w) + 1 /\ j \in Nat \ {0} /\ c = base[k] + j
  /\ ReachedIn(v, w, k)
  /\ k <= Len(w) =>
       j \in 1..Len(w[k].alternatives) /\ \A i \in 1..(j - 1) : ~SourceMatches(w[k].alternatives[i], v)
  /\ k = Len(w) + 1 => j = 1

AskedRight(v, w, a) ==
  /\ a \in [1..Len(w) -> {0, 1}]
  /\ \A m \in 1..Len(w) : a[m] = 1 => MatchingIn(v, w, m) # {} /\ ReachedIn(v, w, m)

\* What the outcome o says of the case where the match stands.
Decided(v, w, a, k, j, o) ==
  /\ o \in {"running", "refused", "taken", "unmatched", "error"}
  /\ o = "running" => \A m \in k..Len(w) : a[m] = 0
  /\ o = "taken" => k <= Len(w) /\ SourceMatches(w[k].alternatives[j], v) /\ w[k].guard # "false"
  /\ o = "unmatched" => k = Len(w) + 1
  /\ o = "error" => k <= Len(w) /\ LowerPatternPlan(w[k].alternatives[j], v) = "error"

InputOf(T, v, w) == T \in Scrutinees /\ v \in ValuesOf[T] /\ w \in WrittenOf[T]

Matched(T, v, w) ==
  /\ InputOf(T, v, w)
  /\ subject = [type |-> T, value |-> v, written |-> w]
  /\ AskedRight(v, w, asked)
  /\ outcome \notin {"running", "refused"} => AcceptedIn(T, w)
  /\ \E base : /\ Based(w, base) /\ LaidOut(w, base, ParseMatch(w), Len(w))
               /\ \E k, j \in Nat : Standing(v, w, base, case, k, j) /\ Decided(v, w, asked, k, j, outcome)

LetOf(T, s, p) == T \in Scrutinees /\ s \in SourcesOf[T] /\ p \in LetsOf[T]

Bound(T, s, p) ==
  /\ LetOf(T, s, p)
  /\ subject = [type |-> T, source |-> s, pattern |-> p]
  /\ asked = << >> /\ case = 1 /\ outcome \in {"running", "refused", "bound"}
  /\ outcome = "bound" => SourceMatches(p, s.denotes)

PatternsInv == (\E T, v, w : Matched(T, v, w)) \/ (\E T, s, p : Bound(T, s, p))


LEMMA InputParts ==
  ASSUME NEW T, NEW v, NEW w, InputOf(T, v, w)
  PROVE  T \in Types /\ v \in AllValues /\ OfType(v, T) /\ w \in Seq(WrittenCases)
  <1>1. T \in Types
    BY InputAssumption DEF InputOf
  <1>2. v \in AllValues /\ OfType(v, T)
    BY InputAssumption, Zenon DEF InputOf
  <1>3. w \in Seq([alternatives : Seq(AllPatterns) \ {<< >>}, guard : {"none", "true", "false"}])
    BY InputAssumption, Zenon DEF InputOf
  <1> QED
    BY <1>1, <1>2, <1>3, Zenon DEF WrittenCases

LEMMA LetParts ==
  ASSUME NEW T, NEW s, NEW p, LetOf(T, s, p)
  PROVE  T \in Types /\ s \in AllSources /\ OfType(s.denotes, T) /\ p \in AllPatterns
  <1>1. T \in Types
    BY InputAssumption DEF LetOf
  <1>2. s \in AllSources /\ OfType(s.denotes, T)
    BY InputAssumption, Zenon DEF LetOf
  <1>3. p \in AllPatterns
    BY InputAssumption DEF LetOf
  <1> QED
    BY <1>1, <1>2, <1>3

\* The case where a match stands is the alternative that the invariant names.
LEMMA StandsAt ==
  ASSUME NEW v, NEW w \in Seq(WrittenCases), NEW base, Based(w, base),
         NEW cs, LaidOut(w, base, cs, Len(w)),
         NEW c, NEW k \in Nat, NEW j \in Nat, Standing(v, w, base, c, k, j)
  PROVE  /\ Len(cs) \in Nat /\ DOMAIN cs = 1..Len(cs)
         /\ k <= Len(w) => /\ c \in 1..Len(cs) /\ k \in 1..Len(w) /\ j \in 1..Len(w[k].alternatives)
                           /\ cs[c] = [pattern |-> w[k].alternatives[j], guard |-> w[k].guard, written |-> k,
                                       remainingAlternatives |-> Len(w[k].alternatives) - j]
         /\ ~(k <= Len(w)) => k = Len(w) + 1 /\ c = Len(cs) + 1
  <1>1. cs \in Seq(CaseRecords) /\ Len(cs) = base[Len(w) + 1]
    BY DEF LaidOut
  <1>2. Len(cs) \in Nat /\ DOMAIN cs = 1..Len(cs)
    BY <1>1
  <1>3. Len(w) \in Nat
    BY WrittenParts
  <1>4. k \in 1..Len(w) + 1 /\ c = base[k] + j
    BY DEF Standing
  <1>5. ASSUME k <= Len(w)
        PROVE  /\ c \in 1..Len(cs) /\ k \in 1..Len(w) /\ j \in 1..Len(w[k].alternatives)
               /\ cs[c] = [pattern |-> w[k].alternatives[j], guard |-> w[k].guard, written |-> k,
                           remainingAlternatives |-> Len(w[k].alternatives) - j]
    <2>1. k \in 1..Len(w)
      BY <1>3, <1>4, <1>5
    <2>2. j \in 1..Len(w[k].alternatives)
      BY <1>5, Zenon DEF Standing
    <2> QED
      BY <1>4, <2>1, <2>2, Zenon DEF LaidOut
  <1>6. ASSUME ~(k <= Len(w)) PROVE k = Len(w) + 1 /\ c = Len(cs) + 1
    <2>1. k = Len(w) + 1
      BY <1>3, <1>4, <1>6
    <2>2. j = 1
      BY <2>1 DEF Standing
    <2> QED
      BY <1>1, <1>4, <2>1, <2>2
  <1> QED
    BY <1>2, <1>5, <1>6

\* Past the last alternative of a case that is left to its successors stands
\* the first of the next case.
LEMMA StandsNext ==
  ASSUME NEW v, NEW w \in Seq(WrittenCases), NEW base, Based(w, base),
         NEW c, NEW k \in Nat, NEW j \in Nat, Standing(v, w, base, c, k, j), k <= Len(w),
         MatchingIn(v, w, k) = {} \/ w[k].guard = "false"
  PROVE  Standing(v, w, base, c + (Len(w[k].alternatives) - j) + 1, k + 1, 1)
  <1>1. Len(w) \in Nat /\ k \in 1..Len(w) + 1 /\ c = base[k] + j /\ j \in 1..Len(w[k].alternatives)
    BY WrittenParts DEF Standing
  <1>2. k \in 1..Len(w) /\ k \in 1..Len(w) + 1 /\ k + 1 \in 1..Len(w) + 1 /\ k + 1 \in Nat /\ (k + 1) - 1 = k
    BY <1>1
  <1>3. base[k] \in Nat /\ base[k + 1] = base[k] + Len(w[k].alternatives) /\ Len(w[k].alternatives) \in Nat
    <2>1. base[k] \in Nat /\ base[k + 1] = base[k] + Len(w[k].alternatives)
      BY <1>2 DEF Based
    <2>2. Len(w[k].alternatives) \in Nat
      BY <1>2, WrittenParts
    <2> QED
      BY <2>1, <2>2
  <1>4. c + (Len(w[k].alternatives) - j) + 1 = base[k + 1] + 1
    <2>1. PICK n \in Nat, b \in Nat : n = Len(w[k].alternatives) /\ b = base[k]
      BY <1>3
    <2>2. c = b + j /\ base[k + 1] = b + n /\ j \in Nat
      BY <1>1, <1>3, <2>1
    <2>3. \A x, y, z \in Nat : (x + y) + (z - y) + 1 = (x + z) + 1
      OBVIOUS
    <2>4. (b + j) + (n - j) + 1 = (b + n) + 1
      BY <2>3
    <2> QED
      BY <2>1, <2>2, <2>4
  <1>5. ReachedIn(v, w, k + 1)
    <2>1. \A m \in 1..(k - 1) : MatchingIn(v, w, m) = {} \/ w[m].guard = "false"
      BY DEF Standing, ReachedIn
    <2>2. \A m \in 1..k : m = k \/ m \in 1..(k - 1)
      BY <1>2
    <2>3. \A m \in 1..k : MatchingIn(v, w, m) = {} \/ w[m].guard = "false"
      BY <2>1, <2>2
    <2> QED
      BY <1>2, <2>3 DEF ReachedIn
  <1>6. ASSUME k + 1 <= Len(w) PROVE 1 \in 1..Len(w[k + 1].alternatives)
    <2>1. k + 1 \in 1..Len(w)
      BY <1>1, <1>2, <1>6
    <2>2. Len(w[k + 1].alternatives) \in Nat \ {0}
      BY <2>1, WrittenParts
    <2> QED
      BY <2>2
  <1>7. 1..(1 - 1) = {}
    OBVIOUS
  <1> QED
    BY <1>2, <1>4, <1>5, <1>6, <1>7 DEF Standing

\* An alternative that does not match leaves the match at the next one, or at
\* the next case.
LEMMA StandsOn ==
  ASSUME NEW v, NEW w \in Seq(WrittenCases), NEW base, Based(w, base),
         NEW c, NEW k \in Nat, NEW j \in Nat, Standing(v, w, base, c, k, j), k <= Len(w),
         ~SourceMatches(w[k].alternatives[j], v)
  PROVE  \E l, i \in Nat : Standing(v, w, base, c + 1, l, i) /\ l >= k
  <1>1. /\ Len(w) \in Nat /\ k \in 1..Len(w) + 1 /\ c = base[k] + j /\ j \in 1..Len(w[k].alternatives)
        /\ \A i \in 1..(j - 1) : ~SourceMatches(w[k].alternatives[i], v)
    BY WrittenParts DEF Standing
  <1>2. k \in 1..Len(w)
    BY <1>1
  <1>3. Len(w[k].alternatives) \in Nat /\ DOMAIN w[k].alternatives = 1..Len(w[k].alternatives) /\ base[k] \in Nat
    <2>1. k \in 1..Len(w) + 1
      BY <1>1
    <2> QED
      BY <1>2, <2>1, WrittenParts DEF Based
  <1>4. \A i \in 1..j : i = j \/ i \in 1..(j - 1)
    BY <1>1, <1>3
  <1>5. \A i \in 1..j : ~SourceMatches(w[k].alternatives[i], v)
    BY <1>1, <1>4
  <1>6. CASE j = Len(w[k].alternatives)
    <2>1. MatchingIn(v, w, k) = {}
      BY <1>3, <1>5, <1>6 DEF MatchingIn
    <2>2. Standing(v, w, base, c + (Len(w[k].alternatives) - j) + 1, k + 1, 1)
      BY <2>1, StandsNext
    <2>3. c + (Len(w[k].alternatives) - j) + 1 = c + 1 /\ k + 1 \in Nat /\ k + 1 >= k
      BY <1>1, <1>3, <1>6
    <2> QED
      BY <2>2, <2>3
  <1>7. CASE j # Len(w[k].alternatives)
    <2>1. /\ j + 1 \in Nat \ {0} /\ j + 1 \in 1..Len(w[k].alternatives) /\ (j + 1) - 1 = j
          /\ c + 1 = base[k] + (j + 1) /\ k # Len(w) + 1 /\ k >= k
      BY <1>1, <1>2, <1>3, <1>7
    <2>2. ReachedIn(v, w, k)
      BY DEF Standing
    <2>3. Standing(v, w, base, c + 1, k, j + 1)
      BY <1>1, <1>5, <2>1, <2>2, Zenon DEF Standing
    <2> QED
      BY <2>1, <2>3
  <1> QED
    BY <1>6, <1>7


-----------------------------------------------------------------------------
(* Every step keeps the invariant. *)

LEMMA MatchedMeans ==
  ASSUME NEW T, NEW v, NEW w, Matched(T, v, w)
  PROVE  /\ IsMatch /\ subject.type = T /\ subject.value = v /\ subject.written = w
         /\ Cases = ParseMatch(w) /\ (Accepted <=> AcceptedIn(T, w))
         /\ \A k \in Nat : Matching(k) = MatchingIn(v, w, k) /\ (Reached(k) <=> ReachedIn(v, w, k))
  <1>1. subject = [type |-> T, value |-> v, written |-> w]
    BY DEF Matched
  <1>2. subject.type = T /\ subject.value = v /\ subject.written = w /\ "written" \in DOMAIN subject
    BY <1>1
  <1>3. Cases = ParseMatch(w)
    BY <1>2, Zenon DEF Cases
  <1>4. Accepted <=> AcceptedIn(T, w)
    BY <1>2, <1>3, Zenon DEF Accepted, AcceptedIn
  <1>5. \A k : Matching(k) = MatchingIn(v, w, k)
    BY <1>2, Zenon DEF Matching, MatchingIn
  <1>6. \A k : Reached(k) <=> ReachedIn(v, w, k)
    BY <1>2, <1>5, Zenon DEF Reached, ReachedIn
  <1> QED
    BY <1>2, <1>3, <1>4, <1>5, <1>6, Zenon DEF IsMatch

\* The case whose block runs is the alternative that the invariant names, an
\* accepted pattern of the type matched on.
LEMMA RunningAt ==
  ASSUME NEW T, NEW v, NEW w, Matched(T, v, w), NEW base, Based(w, base), LaidOut(w, base, ParseMatch(w), Len(w)),
         NEW k \in Nat, NEW j \in Nat, Standing(v, w, base, case, k, j), case <= Len(Cases)
  PROVE  /\ k <= Len(w) /\ k \in 1..Len(w) /\ j \in 1..Len(w[k].alternatives)
         /\ case \in DOMAIN Cases
         /\ Cases[case].pattern = w[k].alternatives[j] /\ Cases[case].guard = w[k].guard /\ Cases[case].written = k
         /\ Cases[case].remainingAlternatives = Len(w[k].alternatives) - j
         /\ w[k].alternatives[j] \in AllPatterns
  <1>1. PICK cs : cs = ParseMatch(w)
    OBVIOUS
  <1>2. Cases = cs
    BY <1>1, MatchedMeans
  <1>3. w \in Seq(WrittenCases)
    BY InputParts DEF Matched
  <1>4. /\ Len(cs) \in Nat /\ DOMAIN cs = 1..Len(cs)
        /\ k <= Len(w) => /\ case \in 1..Len(cs) /\ k \in 1..Len(w) /\ j \in 1..Len(w[k].alternatives)
                          /\ cs[case] = [pattern |-> w[k].alternatives[j], guard |-> w[k].guard, written |-> k,
                                         remainingAlternatives |-> Len(w[k].alternatives) - j]
        /\ ~(k <= Len(w)) => k = Len(w) + 1 /\ case = Len(cs) + 1
    <2>1. LaidOut(w, base, cs, Len(w))
      BY <1>1
    <2> QED
      BY <1>3, <2>1, StandsAt
  <1>5. k <= Len(w)
    BY <1>2, <1>4
  <1>6. w[k].alternatives[j] \in AllPatterns
    BY <1>3, <1>4, <1>5, WrittenParts
  <1> QED
    BY <1>2, <1>4, <1>5, <1>6

LEMMA MatchedStep ==
  ASSUME NEW T, NEW v, NEW w, Matched(T, v, w), [PatternsNext]_patternVars
  PROVE  Matched(T, v, w)'
  <1>1. PICK base : Based(w, base) /\ LaidOut(w, base, ParseMatch(w), Len(w))
                    /\ \E k, j \in Nat : Standing(v, w, base, case, k, j) /\ Decided(v, w, asked, k, j, outcome)
    BY Zenon DEF Matched
  <1>2. PICK k \in Nat, j \in Nat : Standing(v, w, base, case, k, j) /\ Decided(v, w, asked, k, j, outcome)
    BY <1>1
  <1>3. InputOf(T, v, w) /\ T \in Types /\ v \in AllValues /\ OfType(v, T) /\ w \in Seq(WrittenCases)
    BY InputParts DEF Matched
  <1>4. /\ subject = [type |-> T, value |-> v, written |-> w] /\ AskedRight(v, w, asked)
        /\ outcome \notin {"running", "refused"} => AcceptedIn(T, w)
    BY DEF Matched
  <1>5. IsMatch /\ subject.value = v /\ (Accepted <=> AcceptedIn(T, w)) /\ Cases = ParseMatch(w)
    BY MatchedMeans
  <1>6. Len(w) \in Nat
    BY <1>3, WrittenParts
  <1>7. ASSUME Running
        PROVE  /\ outcome = "running" /\ AcceptedIn(T, w)
               /\ k <= Len(w) /\ k \in 1..Len(w) /\ j \in 1..Len(w[k].alternatives)
               /\ Cases[case].guard = w[k].guard /\ Cases[case].written = k
               /\ Cases[case].remainingAlternatives = Len(w[k].alternatives) - j
               /\ Tested = LowerPatternPlan(w[k].alternatives[j], v)
               /\ w[k].alternatives[j] \in AllPatterns /\ BindPattern(w[k].alternatives[j], T)
    <2>1. outcome = "running" /\ Accepted /\ case <= Len(Cases)
      BY <1>7 DEF Running, InMatch
    <2>2. /\ k <= Len(w) /\ k \in 1..Len(w) /\ j \in 1..Len(w[k].alternatives) /\ case \in DOMAIN Cases
          /\ Cases[case].pattern = w[k].alternatives[j] /\ Cases[case].guard = w[k].guard /\ Cases[case].written = k
          /\ Cases[case].remainingAlternatives = Len(w[k].alternatives) - j
          /\ w[k].alternatives[j] \in AllPatterns
      <3>1. /\ Based(w, base) /\ LaidOut(w, base, ParseMatch(w), Len(w))
            /\ Standing(v, w, base, case, k, j) /\ case <= Len(Cases)
        BY <1>1, <1>2, <2>1, Zenon
      <3> QED
        BY <3>1, RunningAt
    <2>3. BindPattern(Cases[case].pattern, T)
      BY <1>5, <2>1, <2>2, Zenon DEF AcceptedIn
    <2>4. Tested = LowerPatternPlan(w[k].alternatives[j], v)
      BY <1>5, <2>2, Zenon DEF Tested
    <2> QED
      BY <1>5, <2>1, <2>2, <2>3, <2>4
  <1>8. ASSUME UNCHANGED <<subject, asked>>, outcome' \notin {"running", "refused"} => AcceptedIn(T, w),
               NEW l \in Nat, NEW i \in Nat, Standing(v, w, base, case', l, i), Decided(v, w, asked, l, i, outcome')
        PROVE  Matched(T, v, w)'
    BY <1>1, <1>3, <1>4, <1>8 DEF Matched
  <1>9. CASE RefuseMatch
    <2>1. outcome = "running" /\ UNCHANGED <<subject, case, asked>> /\ outcome' = "refused"
      BY <1>9 DEF RefuseMatch
    <2>2. Decided(v, w, asked, k, j, outcome')
      BY <2>1 DEF Decided
    <2> QED
      BY <1>2, <1>8, <2>1, <2>2
  <1>10. CASE PatternFails
    <2>1. Running /\ Tested = "no" /\ case' = case + 1 /\ UNCHANGED <<subject, asked, outcome>>
      BY <1>10 DEF PatternFails
    <2>2. ~SourceMatches(w[k].alternatives[j], v)
      <3>1. LowerPatternPlan(w[k].alternatives[j], v) # "yes"
        BY <1>7, <2>1
      <3> QED
        BY <1>3, <1>7, <2>1, <3>1, MatchedPlans
    <2>3. PICK l \in Nat, i \in Nat : Standing(v, w, base, case + 1, l, i) /\ l >= k
      BY <1>1, <1>2, <1>3, <1>7, <2>1, <2>2, StandsOn
    <2>4. Decided(v, w, asked, l, i, "running")
      <3>1. \A m \in k..Len(w) : asked[m] = 0
        BY <1>2, <1>7, <2>1 DEF Decided
      <3>2. \A m \in l..Len(w) : m \in k..Len(w)
        BY <1>6, <2>3
      <3> QED
        BY <3>1, <3>2 DEF Decided
    <2> QED
      BY <1>7, <1>8, <2>1, <2>3, <2>4
  <1>11. CASE TestFails
    <2>1. Running /\ Tested = "error" /\ outcome' = "error" /\ UNCHANGED <<subject, case, asked>>
      BY <1>11 DEF TestFails
    <2>2. Decided(v, w, asked, k, j, "error")
      BY <1>7, <2>1 DEF Decided
    <2> QED
      BY <1>2, <1>7, <1>8, <2>1, <2>2
  <1>12. ASSUME Running, Tested = "yes" PROVE SourceMatches(w[k].alternatives[j], v)
    <2>1. LowerPatternPlan(w[k].alternatives[j], v) = "yes"
      BY <1>7, <1>12
    <2> QED
      BY <1>3, <1>7, <1>12, <2>1, PlannedMatches
  <1>13. CASE TakeCase
    <2>1. /\ Running /\ Tested = "yes" /\ Cases[case].guard = "none" /\ outcome' = "taken"
          /\ UNCHANGED <<subject, case, asked>>
      BY <1>13 DEF TakeCase
    <2>2. Decided(v, w, asked, k, j, "taken")
      BY <1>7, <1>12, <2>1 DEF Decided
    <2> QED
      BY <1>2, <1>7, <1>8, <2>1, <2>2
  <1>14. ASSUME Running, Tested = "yes", asked' = Asked(Cases[case].written)
         PROVE  /\ AskedRight(v, w, asked')
                /\ \A m \in k + 1..Len(w) : asked'[m] = 0
    <2>1. asked \in [1..Len(w) -> {0, 1}] /\ k \in 1..Len(w) /\ asked[k] = 0
          /\ \A m \in k..Len(w) : asked[m] = 0
      <3>1. \A m \in k..Len(w) : asked[m] = 0
        BY <1>2, <1>7, <1>14 DEF Decided
      <3>2. k \in k..Len(w)
        BY <1>6, <1>7, <1>14
      <3> QED
        BY <1>4, <1>7, <1>14, <3>1, <3>2 DEF AskedRight
    <2>2. asked' = [asked EXCEPT ![k] = 1]
      <3>1. Asked(k) = [asked EXCEPT ![k] = asked[k] + 1]
        BY Zenon DEF Asked
      <3>2. asked' = Asked(k) /\ asked[k] + 1 = 1
        BY <1>7, <1>14, <2>1
      <3> QED
        BY <3>1, <3>2
    <2>3. asked' \in [1..Len(w) -> {0, 1}] /\ \A m \in 1..Len(w) : m # k => asked'[m] = asked[m]
      BY <2>1, <2>2
    <2>4. MatchingIn(v, w, k) # {} /\ ReachedIn(v, w, k)
      <3>1. j \in DOMAIN w[k].alternatives
        BY <1>3, <1>7, <1>14, WrittenParts
      <3>2. j \in MatchingIn(v, w, k)
        BY <1>12, <1>14, <3>1 DEF MatchingIn
      <3> QED
        BY <1>2, <3>2 DEF Standing
    <2>5. \A m \in 1..Len(w) : asked'[m] = 1 => MatchingIn(v, w, m) # {} /\ ReachedIn(v, w, m)
      BY <1>4, <2>3, <2>4 DEF AskedRight
    <2>6. \A m \in k + 1..Len(w) : m # k /\ m \in 1..Len(w) /\ m \in k..Len(w)
      BY <1>6, <2>1
    <2> QED
      BY <2>1, <2>3, <2>5, <2>6 DEF AskedRight
  <1>15. CASE GuardHolds
    <2>1. /\ Running /\ Tested = "yes" /\ Cases[case].guard = "true" /\ asked' = Asked(Cases[case].written)
          /\ outcome' = "taken" /\ UNCHANGED <<subject, case>>
      BY <1>15 DEF GuardHolds
    <2>2. Decided(v, w, asked', k, j, outcome')
      BY <1>7, <1>12, <2>1 DEF Decided
    <2>3. AskedRight(v, w, asked') /\ Standing(v, w, base, case', k, j) /\ AcceptedIn(T, w)
      BY <1>2, <1>7, <1>14, <2>1
    <2> QED
      BY <1>1, <1>3, <1>4, <2>1, <2>2, <2>3 DEF Matched
  <1>16. CASE GuardFails
    <2>1. /\ Running /\ Tested = "yes" /\ Cases[case].guard = "false" /\ asked' = Asked(Cases[case].written)
          /\ case' = GuardFailIndex(case) /\ UNCHANGED <<subject, outcome>>
      BY <1>16 DEF GuardFails
    <2>2. case' = case + (Len(w[k].alternatives) - j) + 1
      BY <1>7, <2>1 DEF GuardFailIndex
    <2>3. Standing(v, w, base, case + (Len(w[k].alternatives) - j) + 1, k + 1, 1)
      BY <1>1, <1>2, <1>3, <1>7, <2>1, StandsNext
    <2>4. AskedRight(v, w, asked') /\ \A m \in k + 1..Len(w) : asked'[m] = 0
      BY <1>14, <2>1
    <2>5. Decided(v, w, asked', k + 1, 1, outcome')
      BY <1>7, <2>1, <2>4 DEF Decided
    <2>6. k + 1 \in Nat /\ 1 \in Nat /\ outcome' = "running"
      BY <1>7, <2>1
    <2>7. Standing(v, w, base, case', k + 1, 1)
      BY <2>2, <2>3
    <2> QED
      BY <1>1, <1>3, <1>4, <2>1, <2>4, <2>5, <2>6, <2>7 DEF Matched
  <1>17. CASE Unmatched
    <2>1. outcome = "running" /\ Accepted /\ case = Len(Cases) + 1 /\ outcome' = "unmatched"
          /\ UNCHANGED <<subject, case, asked>>
      BY <1>17 DEF Unmatched, InMatch
    <2>2. k = Len(w) + 1
      <3>1. PICK cs : cs = ParseMatch(w)
        OBVIOUS
      <3>2. LaidOut(w, base, cs, Len(w)) /\ case = Len(cs) + 1
        BY <1>1, <1>5, <2>1, <3>1
      <3>3. Len(cs) \in Nat /\ (k <= Len(w) => case \in 1..Len(cs)) /\ (~(k <= Len(w)) => k = Len(w) + 1)
        BY <1>1, <1>2, <1>3, <3>2, StandsAt
      <3> QED
        BY <3>2, <3>3
    <2>3. Decided(v, w, asked, k, j, "unmatched")
      BY <2>2 DEF Decided
    <2> QED
      BY <1>2, <1>5, <1>8, <2>1, <2>3
  <1>18. CASE RefuseLet
    BY <1>5, <1>18 DEF RefuseLet
  <1>19. CASE Bind
    BY <1>5, <1>19 DEF Bind
  <1>20. CASE UNCHANGED patternVars
    <2>1. UNCHANGED <<subject, case, asked, outcome>>
      BY <1>20 DEF patternVars
    <2> QED
      BY <1>2, <1>4, <1>8, <2>1
  <1> QED
    BY <1>9, <1>10, <1>11, <1>13, <1>15, <1>16, <1>17, <1>18, <1>19, <1>20 DEF PatternsNext


\* Before its first test a match stands at its first alternative, having asked
\* nothing.
LEMMA MatchedInit ==
  ASSUME NEW T, NEW v, NEW w, InputOf(T, v, w), subject = [type |-> T, value |-> v, written |-> w],
         asked = [k \in DOMAIN w |-> 0], case = 1, outcome = "running"
  PROVE  Matched(T, v, w)
  <1>1. w \in Seq(WrittenCases)
    BY InputParts
  <1>2. Len(w) \in Nat /\ DOMAIN w = 1..Len(w)
    BY <1>1, WrittenParts
  <1>3. PICK base : Based(w, base) /\ LaidOut(w, base, ParseMatch(w), Len(w))
    BY <1>1, ParseLaidOut
  <1>4. base[1] = 0
    BY <1>3 DEF Based
  <1>5. asked \in [1..Len(w) -> {0, 1}] /\ \A m \in 1..Len(w) : asked[m] = 0
    BY <1>2
  <1>6. AskedRight(v, w, asked)
    BY <1>5 DEF AskedRight
  <1>7. Decided(v, w, asked, 1, 1, outcome)
    BY <1>5 DEF Decided
  <1>8. Standing(v, w, base, case, 1, 1)
    <2>1. 1 \in 1..Len(w) + 1 /\ 1 \in Nat \ {0} /\ case = base[1] + 1 /\ 1..(1 - 1) = {}
      BY <1>2, <1>4
    <2>2. 1 <= Len(w) => 1 \in 1..Len(w[1].alternatives)
      <3> SUFFICES ASSUME 1 <= Len(w) PROVE 1 \in 1..Len(w[1].alternatives)
        OBVIOUS
      <3>1. 1 \in 1..Len(w)
        BY <1>2
      <3>2. Len(w[1].alternatives) \in Nat \ {0}
        BY <1>1, <3>1, WrittenParts
      <3> QED
        BY <3>2
    <2>3. ReachedIn(v, w, 1)
      BY <2>1 DEF ReachedIn
    <2> QED
      BY <2>1, <2>2, <2>3, Zenon DEF Standing
  <1>9. 1 \in Nat /\ outcome \in {"running", "refused"}
    OBVIOUS
  <1> QED
    BY <1>3, <1>6, <1>7, <1>8, <1>9, Zenon DEF Matched

\* A plain `let` binds a pattern that matches, or is refused.
LEMMA BoundStep ==
  ASSUME NEW T, NEW s, NEW p, Bound(T, s, p), [PatternsNext]_patternVars
  PROVE  Bound(T, s, p)'
  <1>1. /\ LetOf(T, s, p) /\ subject = [type |-> T, source |-> s, pattern |-> p]
        /\ asked = << >> /\ case = 1 /\ outcome \in {"running", "refused", "bound"}
        /\ outcome = "bound" => SourceMatches(p, s.denotes)
    BY DEF Bound
  <1>2. ~IsMatch
    BY <1>1 DEF IsMatch
  <1>3. CASE RefuseLet
    BY <1>1, <1>3 DEF RefuseLet, Bound
  <1>4. CASE Bind
    <2>1. T \in Types /\ s \in AllSources /\ OfType(s.denotes, T) /\ p \in AllPatterns /\ s.denotes \in AllValues
      BY <1>1, LetParts, SourceParts
    <2>2. subject.pattern = p /\ subject.type = T /\ subject.source = s
      BY <1>1
    <2>3. PatternIsIrrefutable(p, T) \/ SourceExprProvesPatternMatch(p, s)
      BY <1>4, <2>2, Zenon DEF Bind, LetAccepted, RequireSafeLetPattern
    <2>4. SourceMatches(p, s.denotes)
      BY <2>1, <2>3, IrrefutableMatches, ProvedMatches
    <2>5. LowerPatternPlan(p, s.denotes) = "yes"
      BY <2>1, <2>4, MatchedPlans
    <2>6. outcome' = "bound" /\ UNCHANGED <<subject, case, asked>>
      BY <1>4, <2>2, <2>5 DEF Bind
    <2> QED
      BY <1>1, <2>4, <2>6 DEF Bound
  <1>5. CASE RefuseMatch \/ PatternFails \/ TestFails \/ TakeCase \/ GuardHolds \/ GuardFails \/ Unmatched
    BY <1>2, <1>5 DEF RefuseMatch, PatternFails, TestFails, TakeCase, GuardHolds, GuardFails, Unmatched, Running, InMatch
  <1>6. CASE UNCHANGED patternVars
    <2>1. UNCHANGED <<subject, case, asked, outcome>>
      BY <1>6 DEF patternVars
    <2> QED
      BY <1>1, <2>1 DEF Bound
  <1> QED
    BY <1>3, <1>4, <1>5, <1>6 DEF PatternsNext

LEMMA PatternsInvInit == PatternsInit => PatternsInv
  <1> SUFFICES ASSUME PatternsInit PROVE PatternsInv
    OBVIOUS
  <1>1. PICK T \in Scrutinees :
          \/ \E v \in ValuesOf[T], w \in WrittenOf[T] :
               /\ subject = [type |-> T, value |-> v, written |-> w]
               /\ asked = [k \in DOMAIN w |-> 0]
          \/ \E s \in SourcesOf[T], p \in LetsOf[T] :
               /\ subject = [type |-> T, source |-> s, pattern |-> p]
               /\ asked = << >>
    BY DEF PatternsInit
  <1>2. case = 1 /\ outcome = "running"
    BY DEF PatternsInit
  <1>3. ASSUME NEW v \in ValuesOf[T], NEW w \in WrittenOf[T],
               subject = [type |-> T, value |-> v, written |-> w], asked = [k \in DOMAIN w |-> 0]
        PROVE  PatternsInv
    <2>1. Matched(T, v, w)
      BY <1>2, <1>3, MatchedInit DEF InputOf
    <2> QED
      BY <2>1 DEF PatternsInv
  <1>4. ASSUME NEW s \in SourcesOf[T], NEW p \in LetsOf[T],
               subject = [type |-> T, source |-> s, pattern |-> p], asked = << >>
        PROVE  PatternsInv
    <2>1. Bound(T, s, p)
      BY <1>2, <1>4 DEF Bound, LetOf
    <2> QED
      BY <2>1 DEF PatternsInv
  <1> QED
    BY <1>1, <1>3, <1>4

LEMMA PatternsInvNext == PatternsInv /\ [PatternsNext]_patternVars => PatternsInv'
  <1> SUFFICES ASSUME PatternsInv, [PatternsNext]_patternVars PROVE PatternsInv'
    OBVIOUS
  <1>1. ASSUME NEW T, NEW v, NEW w, Matched(T, v, w) PROVE PatternsInv'
    <2>1. Matched(T, v, w)'
      BY <1>1, MatchedStep
    <2> QED
      BY <2>1, Zenon DEF PatternsInv
  <1>2. ASSUME NEW T, NEW s, NEW p, Bound(T, s, p) PROVE PatternsInv'
    <2>1. Bound(T, s, p)'
      BY <1>2, BoundStep
    <2> QED
      BY <2>1, Zenon DEF PatternsInv
  <1> QED
    BY <1>1, <1>2, Zenon DEF PatternsInv

LEMMA PatternsInvAlways == PatternsSpec => []PatternsInv
  <1> QED
    BY PatternsInvInit, PatternsInvNext, PTL DEF PatternsSpec

-----------------------------------------------------------------------------
(* What the invariant says of matches and of bindings. *)

LEMMA BoundMeans ==
  ASSUME NEW T, NEW s, NEW p, Bound(T, s, p)
  PROVE  /\ ~IsMatch /\ T \in Scrutinees /\ subject.type = T /\ subject.pattern = p /\ subject.source = s
         /\ case = 1 /\ outcome \in {"running", "refused", "bound"}
         /\ outcome = "bound" => SourceMatches(p, s.denotes)
  BY DEF Bound, LetOf, IsMatch

\* Where a match stands, and what its outcome says, in terms of the state.
LEMMA MatchedAt ==
  ASSUME NEW T, NEW v, NEW w, Matched(T, v, w)
  PROVE  \E base : \E k, j \in Nat :
           /\ Based(w, base) /\ LaidOut(w, base, ParseMatch(w), Len(w))
           /\ Standing(v, w, base, case, k, j) /\ Decided(v, w, asked, k, j, outcome)
           /\ case \in 1..Len(Cases) + 1
           /\ k <= Len(w) => case <= Len(Cases)
  <1>1. PICK base : Based(w, base) /\ LaidOut(w, base, ParseMatch(w), Len(w))
                    /\ \E k, j \in Nat : Standing(v, w, base, case, k, j) /\ Decided(v, w, asked, k, j, outcome)
    BY Zenon DEF Matched
  <1>2. PICK k \in Nat, j \in Nat : Standing(v, w, base, case, k, j) /\ Decided(v, w, asked, k, j, outcome)
    BY <1>1
  <1>3. w \in Seq(WrittenCases)
    BY InputParts DEF Matched
  <1>4. PICK cs : cs = ParseMatch(w)
    OBVIOUS
  <1>5. Based(w, base) /\ LaidOut(w, base, cs, Len(w)) /\ Standing(v, w, base, case, k, j)
    BY <1>1, <1>2, <1>4
  <1>6. /\ Len(cs) \in Nat /\ (k <= Len(w) => case \in 1..Len(cs)) /\ (~(k <= Len(w)) => case = Len(cs) + 1)
    BY <1>3, <1>5, StandsAt
  <1>7. Cases = cs
    BY <1>4, MatchedMeans
  <1>8. case \in 1..Len(Cases) + 1 /\ (k <= Len(w) => case <= Len(Cases))
    BY <1>6, <1>7
  <1> QED
    BY <1>1, <1>2, <1>8

LEMMA TypeFromInv == PatternsInv => PatternsTypeOK
  <1>1. ASSUME NEW T, NEW v, NEW w, Matched(T, v, w) PROVE PatternsTypeOK
    <2>1. PICK base : \E k, j \in Nat : Decided(v, w, asked, k, j, outcome) /\ case \in 1..Len(Cases) + 1
      BY <1>1, MatchedAt
    <2>2. outcome \in {"idle", "running", "refused", "taken", "unmatched", "bound", "error"}
      BY <2>1 DEF Decided
    <2>3. IsMatch /\ subject.type \in Scrutinees
      BY <1>1, MatchedMeans DEF Matched, InputOf
    <2> QED
      BY <2>1, <2>2, <2>3 DEF PatternsTypeOK
  <1>2. ASSUME NEW T, NEW s, NEW p, Bound(T, s, p) PROVE PatternsTypeOK
    <2>1. /\ ~IsMatch /\ subject.type \in Scrutinees /\ case = 1
          /\ outcome \in {"idle", "running", "refused", "taken", "unmatched", "bound", "error"}
      BY <1>2, BoundMeans
    <2> QED
      BY <2>1 DEF PatternsTypeOK
  <1> QED
    BY <1>1, <1>2, Zenon DEF PatternsInv

LEMMA FailuresFromInv == PatternsInv => MatchingPatternsNeverFail
  <1>1. ASSUME NEW T, NEW v, NEW w, Matched(T, v, w) PROVE MatchingPatternsNeverFail
    <2>1. PICK base : \E k, j \in Nat :
            /\ Based(w, base) /\ LaidOut(w, base, ParseMatch(w), Len(w))
            /\ Standing(v, w, base, case, k, j) /\ Decided(v, w, asked, k, j, outcome)
            /\ k <= Len(w) => case <= Len(Cases)
      BY <1>1, MatchedAt
    <2>2. PICK k \in Nat, j \in Nat :
            /\ Based(w, base) /\ LaidOut(w, base, ParseMatch(w), Len(w))
            /\ Standing(v, w, base, case, k, j) /\ Decided(v, w, asked, k, j, outcome)
            /\ k <= Len(w) => case <= Len(Cases)
      BY <2>1
    <2>3. IsMatch /\ subject.value = v /\ outcome # "bound"
      BY <1>1, <2>2, MatchedMeans DEF Decided
    <2>4. ASSUME outcome = "error" PROVE ~SourceMatches(Cases[case].pattern, subject.value)
      <3>1. k <= Len(w) /\ LowerPatternPlan(w[k].alternatives[j], v) = "error"
        BY <2>2, <2>4 DEF Decided
      <3>2. Cases[case].pattern = w[k].alternatives[j] /\ w[k].alternatives[j] \in AllPatterns
        BY <1>1, <2>2, <3>1, RunningAt
      <3>3. v \in AllValues
        BY <1>1, InputParts DEF Matched
      <3>4. ~SourceMatches(w[k].alternatives[j], v)
        <4>1. LowerPatternPlan(w[k].alternatives[j], v) # "yes"
          BY <3>1
        <4> QED
          BY <3>2, <3>3, <4>1, MatchedPlans
      <3> QED
        BY <2>3, <3>2, <3>4
    <2> QED
      BY <2>3, <2>4, Zenon DEF MatchingPatternsNeverFail
  <1>2. ASSUME NEW T, NEW s, NEW p, Bound(T, s, p) PROVE MatchingPatternsNeverFail
    <2>1. /\ ~IsMatch /\ outcome # "error" /\ subject.pattern = p /\ subject.source = s
          /\ outcome = "bound" => SourceMatches(p, s.denotes)
      BY <1>2, BoundMeans
    <2> QED
      BY <2>1, Zenon DEF MatchingPatternsNeverFail
  <1> QED
    BY <1>1, <1>2, Zenon DEF PatternsInv


LEMMA SelectsFromInv == PatternsInv => SelectsAsWritten
  <1>1. ASSUME NEW T, NEW v, NEW w, Matched(T, v, w) PROVE SelectsAsWritten
    <2>1. PICK base : \E k, j \in Nat :
            /\ Based(w, base) /\ LaidOut(w, base, ParseMatch(w), Len(w))
            /\ Standing(v, w, base, case, k, j) /\ Decided(v, w, asked, k, j, outcome)
            /\ k <= Len(w) => case <= Len(Cases)
      BY <1>1, MatchedAt
    <2>2. PICK k \in Nat, j \in Nat :
            /\ Based(w, base) /\ LaidOut(w, base, ParseMatch(w), Len(w))
            /\ Standing(v, w, base, case, k, j) /\ Decided(v, w, asked, k, j, outcome)
            /\ k <= Len(w) => case <= Len(Cases)
      BY <2>1
    <2>3. /\ subject.written = w
          /\ \A m \in Nat : Matching(m) = MatchingIn(v, w, m) /\ (Reached(m) <=> ReachedIn(v, w, m))
      BY <1>1, MatchedMeans
    <2>4. w \in Seq(WrittenCases) /\ Len(w) \in Nat
      BY <1>1, InputParts, WrittenParts DEF Matched
    <2>5. ReachedIn(v, w, k) /\ Reached(k)
      BY <2>2, <2>3 DEF Standing
    <2>6. ASSUME outcome = "taken"
          PROVE  LET c == Cases[case].written IN
                 /\ Reached(c) /\ subject.written[c].guard # "false"
                 /\ Len(subject.written[c].alternatives) - Cases[case].remainingAlternatives
                      = CHOOSE i \in Matching(c) : \A m \in Matching(c) : i <= m
      <3>1. k <= Len(w) /\ SourceMatches(w[k].alternatives[j], v) /\ w[k].guard # "false"
        BY <2>2, <2>6 DEF Decided
      <3>2. /\ k \in 1..Len(w) /\ j \in 1..Len(w[k].alternatives)
            /\ Cases[case].written = k /\ Cases[case].remainingAlternatives = Len(w[k].alternatives) - j
        BY <1>1, <2>2, <3>1, RunningAt
      <3>3. /\ Len(w[k].alternatives) \in Nat
            /\ DOMAIN w[k].alternatives = 1..Len(w[k].alternatives)
        BY <2>4, <3>2, WrittenParts
      <3>4. PICK M : M = MatchingIn(v, w, k)
        OBVIOUS
      <3>5. j \in M
        BY <3>1, <3>2, <3>3, <3>4 DEF MatchingIn
      <3>6. ASSUME NEW m \in M PROVE m \in Nat /\ j <= m
        <4>1. m \in 1..Len(w[k].alternatives) /\ SourceMatches(w[k].alternatives[m], v)
          BY <3>3, <3>4 DEF MatchingIn
        <4>2. \A i \in 1..(j - 1) : ~SourceMatches(w[k].alternatives[i], v)
          BY <2>2, <3>1 DEF Standing
        <4>3. m \notin 1..(j - 1)
          BY <4>1, <4>2
        <4> QED
          BY <3>3, <4>1, <4>3
      <3>7. (CHOOSE i \in M : \A m \in M : i <= m) = j
        <4>1. \A i \in M : (\A m \in M : i <= m) => i = j
          BY <3>5, <3>6
        <4> QED
          BY <3>5, <3>6, <4>1
      <3>8. Len(w[k].alternatives) - Cases[case].remainingAlternatives = j
        BY <3>2, <3>3
      <3>9. Matching(k) = M
        BY <2>3, <3>4
      <3> QED
        BY <2>3, <2>5, <3>1, <3>2, <3>7, <3>8, <3>9, Zenon
    <2>7. outcome = "unmatched" => Reached(Len(subject.written) + 1)
      BY <2>2, <2>3, <2>5 DEF Decided
    <2>8. ASSUME NEW m \in DOMAIN asked
          PROVE  asked[m] <= 1 /\ (asked[m] = 1 => Matching(m) # {} /\ Reached(m))
      <3>1. AskedRight(v, w, asked)
        BY <1>1 DEF Matched
      <3>2. m \in 1..Len(w) /\ asked[m] \in {0, 1} /\ m \in Nat
        BY <2>4, <3>1 DEF AskedRight
      <3>3. asked[m] = 1 => MatchingIn(v, w, m) # {} /\ ReachedIn(v, w, m)
        BY <3>1, <3>2 DEF AskedRight
      <3>4. asked[m] <= 1
        BY <3>2
      <3> QED
        BY <2>3, <3>2, <3>3, <3>4
    <2> QED
      BY <2>6, <2>7, <2>8, Zenon DEF SelectsAsWritten
  <1>2. ASSUME NEW T, NEW s, NEW p, Bound(T, s, p) PROVE SelectsAsWritten
    <2>1. ~IsMatch /\ outcome # "taken" /\ outcome # "unmatched"
      BY <1>2, BoundMeans
    <2> QED
      BY <2>1, Zenon DEF SelectsAsWritten
  <1> QED
    BY <1>1, <1>2, Zenon DEF PatternsInv

\* A pattern that asks nothing of the payload matches every value of the case
\* it names.
LEMMA AsksNothingMatches ==
  ASSUME NEW p \in AllPatterns, NEW v \in AllValues, NEW T \in Types, v.of \in DOMAIN Fields,
         NEW r \in AllPatterns, r = PatternWithoutAlias(p), BindPattern(r, T),
         r.form = "record", r.path = v.of,
         \A f \in DOMAIN r.fields : PatternIsIrrefutable(r.fields[f], FieldTypes(r, T)[f])
  PROVE  SourceMatches(p, v)
  <1>1. v.of # ""
    BY KindsApart
  <1>2. FieldTypes(r, T) = Fields[v.of]
    BY <1>1 DEF FieldTypes, TargetOf
  <1>3. DOMAIN r.fields \subseteq DOMAIN Fields[v.of]
    BY <1>2, BoundParts
  <1>4. ASSUME NEW f \in DOMAIN r.fields PROVE f \in DOMAIN v.fields /\ SourceMatches(r.fields[f], v.fields[f])
    <2>1. f \in DOMAIN v.fields /\ v.fields[f] \in AllValues /\ OfType(v.fields[f], Fields[v.of][f])
      BY <1>3, ValueParts
    <2>2. Fields[v.of][f] \in Types /\ r.fields[f] \in AllPatterns
      BY <1>3, TypeParts, PartsBelow
    <2>3. PatternIsIrrefutable(r.fields[f], Fields[v.of][f])
      BY <1>2
    <2> QED
      BY <2>1, <2>2, <2>3, IrrefutableMatches
  <1>5. HasFields(v) /\ r.path \in {"", v.of}
    BY DEF HasFields
  <1>6. SourceMatches(r, v)
    BY <1>4, <1>5, MatchesIs, Zenon
  <1> QED
    BY <1>6, Unaliased

LEMMA FlatFromInv == PatternsInv => FlatMatchesTakeACase
  <1>1. ASSUME NEW T, NEW v, NEW w, Matched(T, v, w), IsUnion(subject.type), outcome = "unmatched",
               \A i \in DOMAIN Cases : Cases[i].guard = "none" => AsksNothing(Cases[i].pattern, subject.type)
        PROVE  FALSE
    <2>1. PICK base : \E k, j \in Nat :
            /\ LaidOut(w, base, ParseMatch(w), Len(w))
            /\ Standing(v, w, base, case, k, j) /\ Decided(v, w, asked, k, j, outcome)
      BY <1>1, MatchedAt
    <2>2. PICK k \in Nat, j \in Nat :
            /\ LaidOut(w, base, ParseMatch(w), Len(w))
            /\ Standing(v, w, base, case, k, j) /\ Decided(v, w, asked, k, j, outcome)
      BY <2>1
    <2>3. ReachedIn(v, w, Len(w) + 1)
      BY <1>1, <2>2 DEF Decided, Standing
    <2>4. T \in Types /\ v \in AllValues /\ OfType(v, T) /\ w \in Seq(WrittenCases) /\ Len(w) \in Nat
      BY <1>1, InputParts, WrittenParts DEF Matched
    <2>5. AcceptedIn(T, w)
      BY <1>1 DEF Matched
    <2>6. subject.type = T /\ Cases = ParseMatch(w)
      BY <1>1, MatchedMeans
    <2>7. PICK cs : cs = ParseMatch(w)
      OBVIOUS
    <2>8. Cases = cs /\ LaidOut(w, base, cs, Len(w))
      BY <2>2, <2>6, <2>7
    <2>9. /\ \A i \in DOMAIN cs : BindPattern(cs[i].pattern, T)
          /\ CheckMatchExhaustiveness(T, cs)
      BY <2>5, <2>7, Zenon DEF AcceptedIn
    <2>10. ASSUME NEW i \in DOMAIN cs, cs[i].guard = "none"
           PROVE  cs[i].pattern \in AllPatterns /\ ~SourceMatches(cs[i].pattern, v)
      <3>1. cs \in Seq(CaseRecords)
        BY <2>8 DEF LaidOut
      <3>2. DOMAIN cs = 1..Len(cs) /\ cs[i] \in CaseRecords
        BY <3>1
      <3>3. PICK m \in 1..Len(w) : \E n \in 1..Len(w[m].alternatives) : i = base[m] + n
        BY <2>8, <3>2 DEF LaidOut
      <3>4. PICK n \in 1..Len(w[m].alternatives) : i = base[m] + n
        BY <3>3
      <3>5. cs[i] = [pattern |-> w[m].alternatives[n], guard |-> w[m].guard, written |-> m,
                     remainingAlternatives |-> Len(w[m].alternatives) - n]
        BY <2>8, <3>4, Zenon DEF LaidOut
      <3>6. w[m].guard = "none" /\ cs[i].pattern = w[m].alternatives[n]
        BY <2>10, <3>5
      <3>7. (Len(w) + 1) - 1 = Len(w)
        BY <2>4
      <3>8. MatchingIn(v, w, m) = {}
        BY <2>3, <3>6, <3>7 DEF ReachedIn
      <3>9. n \in DOMAIN w[m].alternatives
        BY <2>4, WrittenParts
      <3>10. ~SourceMatches(w[m].alternatives[n], v)
        BY <3>8, <3>9 DEF MatchingIn
      <3> QED
        BY <3>2, <3>6, <3>10 DEF CaseRecords
    <2>11. T \in DOMAIN Unions /\ v.of \in Unions[T] /\ v.of \in DOMAIN Fields
      <3>1. T \in DOMAIN Unions
        BY <1>1, <2>6 DEF IsUnion
      <3>2. v.of \in {"Unit", "Bool"} \cup DOMAIN Tuples \cup DOMAIN Vectors \cup DOMAIN Fields
        BY <2>4, ValueAssumption, Zenon
      <3>3. v.of # T /\ T \notin DOMAIN Interfaces
        BY <3>1, <3>2, KindsApart
      <3>4. v.of \in Unions[T]
        BY <2>4, <3>3 DEF OfType
      <3> QED
        BY <3>1, <3>4, TypeAssumption
    <2>12. PICK unguarded : unguarded = {cs[i].pattern : i \in {n \in DOMAIN cs : cs[n].guard = "none"}}
      OBVIOUS
    <2>13. PICK covered : covered = {PatternWithoutAlias(p).path :
                                       p \in {q \in unguarded : PatternWithoutAlias(q).form = "record"}}
      OBVIOUS
    <2>14. (\E p \in unguarded : PatternIsIrrefutable(p, T)) \/ Unions[T] \subseteq covered
      <3>1. IsUnion(T)
        BY <1>1, <2>6
      <3> QED
        BY <2>9, <2>12, <2>13, <3>1, Zenon DEF CheckMatchExhaustiveness
    <2>15. ASSUME NEW p \in unguarded
           PROVE  /\ p \in AllPatterns /\ ~SourceMatches(p, v) /\ BindPattern(p, T) /\ AsksNothing(p, T)
      <3>1. PICK i \in DOMAIN cs : cs[i].guard = "none" /\ p = cs[i].pattern
        BY <2>12
      <3> QED
        BY <1>1, <2>6, <2>8, <2>9, <2>10, <3>1
    <2>16. ~\E p \in unguarded : PatternIsIrrefutable(p, T)
      <3> SUFFICES ASSUME NEW p \in unguarded, PatternIsIrrefutable(p, T) PROVE FALSE
        OBVIOUS
      <3> QED
        BY <2>4, <2>15, IrrefutableMatches
    <2>17. PICK p \in unguarded : PatternWithoutAlias(p).form = "record" /\ PatternWithoutAlias(p).path = v.of
      BY <2>11, <2>13, <2>14, <2>16
    <2>18. PICK r \in AllPatterns : r = PatternWithoutAlias(p)
      BY <2>15, Unaliased
    <2>19. p \in AllPatterns /\ ~SourceMatches(p, v) /\ ~PatternIsIrrefutable(p, T) /\ BindPattern(r, T)
      BY <2>4, <2>15, <2>16, <2>18, Unaliased
    <2>20. \A f \in DOMAIN r.fields : PatternIsIrrefutable(r.fields[f], FieldTypes(r, T)[f])
      BY <2>15, <2>18, <2>19, Zenon DEF AsksNothing
    <2> QED
      BY <2>4, <2>11, <2>17, <2>18, <2>19, <2>20, AsksNothingMatches
  <1>2. ASSUME NEW T, NEW s, NEW p, Bound(T, s, p) PROVE ~IsMatch
    BY <1>2, BoundMeans
  <1> QED
    BY <1>1, <1>2, Zenon DEF PatternsInv, FlatMatchesTakeACase

-----------------------------------------------------------------------------
(* The theorems. *)

\* A match stands at one of its cases or just past them, and decides on one of
\* the outcomes there are.
THEOREM PatternsTypes == PatternsSpec => []PatternsTypeOK
  BY PatternsInvAlways, TypeFromInv, PTL

\* Whatever the patterns, the guards and the value are, the case taken is the
\* first written case that matches and whose guard does not refuse, through
\* its first matching alternative; a match that takes none has none; and the
\* guard that alternatives share is evaluated at most once, and only when the
\* match has reached it and one of the alternatives matches.
THEOREM SelectsInOrder == PatternsSpec => []SelectsAsWritten
  BY PatternsInvAlways, SelectsFromInv, PTL

\* A match over a union that the checker accepts, and whose unguarded patterns
\* ask nothing of the payloads, takes a case.
THEOREM FlatMatchesTake == PatternsSpec => []FlatMatchesTakeACase
  BY PatternsInvAlways, FlatFromInv, PTL

\* A pattern that the checker lets a `let` bind without a test matches what the
\* source denotes, and its parts are there; the tests of a pattern of a match
\* fail only where the pattern does not match.
THEOREM MatchingPatternsHold == PatternsSpec => []MatchingPatternsNeverFail
  BY PatternsInvAlways, FailuresFromInv, PTL

=============================================================================
