------------------------------ MODULE Patterns ------------------------------
(***************************************************************************)
(* Pattern matching, from the parser to the interpreter: which patterns    *)
(* the type checker calls irrefutable (rust/crates/lume/src/typecheck.rs), *)
(* which matches it accepts as exhaustive, the tests the lowering emits    *)
(* for a pattern (lower.rs) and what the interpreter makes of them, for    *)
(* `match` with alternatives and guards and for patterns bound by `let`.   *)
(*                                                                         *)
(* A type is "Bool" or the name of a tuple, vector, union, class or        *)
(* interface that the constants declare; a value carries the type or the   *)
(* case it was made from; a source expression is a literal whose parts may *)
(* be opaque to the checker.                                               *)
(***************************************************************************)
EXTENDS Naturals, FiniteSets, Sequences, SequencesExt

CONSTANTS
  Tuples,       \* tuple type -> the types of its elements
  Vectors,      \* vector type -> the type of its elements
  Unions,       \* union -> its cases
  Fields,       \* class or case -> field -> type
  Interfaces,   \* interface -> the classes that implement it
  AllPatterns,  \* patterns and all that they consist of
  AllValues,    \* values and all that they consist of
  AllSources,   \* source expressions and all that they consist of
  Scrutinees,   \* the types matched on, and for each of them
  ValuesOf,     \* its values,
  WrittenOf,    \* the written cases of the matches on it: sequences of
                \* [alternatives, guard], the guard "none", "true" or "false",
  SourcesOf,    \* its source expressions, and
  LetsOf        \* the patterns `let` binds to it

VARIABLES
  subject,   \* the match or the binding under way
  case,      \* the flattened case whose block runs, 1..Len+1
  asked,     \* how often the guard of each written case was evaluated
  outcome    \* "idle", "running", "refused", "taken", "unmatched", "bound" or "error"

patternVars == <<subject, case, asked, outcome>>

----------------------------------------------------------------------------
(* Types, patterns and values *)

CaseNames == UNION {Unions[U] : U \in DOMAIN Unions}
Classes == DOMAIN Fields \ CaseNames
Kinds == <<{"Bool"}, {"Unit"}, {""}, DOMAIN Tuples, DOMAIN Vectors, DOMAIN Unions, DOMAIN Interfaces, DOMAIN Fields>>
Types == {"Bool"} \cup DOMAIN Tuples \cup DOMAIN Vectors \cup DOMAIN Unions \cup DOMAIN Interfaces \cup Classes

(* A name means one thing, and what types are made of are types. *)
ASSUME TypeAssumption ==
  /\ \A i, j \in DOMAIN Kinds : i # j => Kinds[i] \cap Kinds[j] = {}
  /\ \A T \in DOMAIN Tuples : Tuples[T] \in Seq(Types)
  /\ \A T \in DOMAIN Vectors : Vectors[T] \in Types
  /\ \A T \in DOMAIN Unions : Unions[T] \subseteq DOMAIN Fields
  /\ \A T \in DOMAIN Interfaces : Interfaces[T] \subseteq Classes
  /\ \A name \in DOMAIN Fields : \A f \in DOMAIN Fields[name] : Fields[name][f] \in Types

Parts(p) ==
  CASE p.form = "alias" -> {p.inner}
    [] p.form \in {"tuple", "list"} -> Range(p.elements)
    [] p.form = "record" -> Range(p.fields)
    [] OTHER -> {}

ASSUME PatternAssumption ==
  \A p \in AllPatterns :
    /\ p.form \in {"wildcard", "binding", "alias", "literal", "type", "tuple", "list", "record"}
    /\ p.form \in {"tuple", "list"} => p.elements \in Seq(AllPatterns)
    /\ p.depth \in Nat
    /\ \A part \in Parts(p) : part \in AllPatterns /\ part.depth < p.depth

(* A value is [of, value] for a Bool, [of, items] for a tuple or a vector, and
   [of, fields] for an instance of a class or of a case. *)
Unit == [of |-> "Unit"]
Flag(b) == [of |-> "Bool", value |-> b]

OfType(v, T) ==
  \/ v.of = T
  \/ T \in DOMAIN Unions /\ v.of \in Unions[T]
  \/ T \in DOMAIN Interfaces /\ v.of \in Interfaces[T]

HasFields(v) == v.of \in DOMAIN Fields

(* What a value consists of has the types declared. *)
ASSUME ValueAssumption ==
  /\ Unit \in AllValues
  /\ \A v \in AllValues :
       /\ v.of \in {"Unit", "Bool"} \cup DOMAIN Tuples \cup DOMAIN Vectors \cup DOMAIN Fields
       /\ v.of = "Bool" => v = Flag(v.value)
       /\ v.of \in DOMAIN Tuples \cup DOMAIN Vectors => v.items \in Seq(AllValues)
       /\ v.of \in DOMAIN Tuples =>
            /\ Len(v.items) = Len(Tuples[v.of])
            /\ \A i \in DOMAIN v.items : OfType(v.items[i], Tuples[v.of][i])
       /\ v.of \in DOMAIN Vectors => \A i \in DOMAIN v.items : OfType(v.items[i], Vectors[v.of])
       /\ HasFields(v) =>
            /\ DOMAIN v.fields = DOMAIN Fields[v.of]
            /\ \A f \in DOMAIN v.fields : v.fields[f] \in AllValues /\ OfType(v.fields[f], Fields[v.of][f])

(* What a source expression denotes, literal forms made of what their parts
   denote. *)
ASSUME SourceAssumption ==
  \A s \in AllSources :
    /\ s.denotes \in AllValues
    /\ s.expr = "literal" => s.denotes = Flag(s.value)
    /\ s.expr \in {"tuple", "list"} =>
         /\ s.denotes.of \in IF s.expr = "tuple" THEN DOMAIN Tuples ELSE DOMAIN Vectors
         /\ s.items \in Seq(AllSources) /\ Len(s.denotes.items) = Len(s.items)
         /\ \A i \in DOMAIN s.items : s.denotes.items[i] = s.items[i].denotes
    /\ s.expr = "construct" =>
         /\ s.denotes.of = s.path /\ s.path \in DOMAIN Fields
         /\ DOMAIN s.denotes.fields = DOMAIN s.fields
         /\ \A f \in DOMAIN s.fields : s.fields[f] \in AllSources /\ s.denotes.fields[f] = s.fields[f].denotes

ASSUME InputAssumption ==
  /\ Scrutinees \subseteq Types
  /\ \A T \in Scrutinees :
       /\ \A v \in ValuesOf[T] : v \in AllValues /\ OfType(v, T)
       /\ \A w \in WrittenOf[T] :
            w \in Seq([alternatives : Seq(AllPatterns) \ {<< >>}, guard : {"none", "true", "false"}])
       /\ \A s \in SourcesOf[T] : s \in AllSources /\ OfType(s.denotes, T)
       /\ LetsOf[T] \subseteq AllPatterns

----------------------------------------------------------------------------
(* The type checker *)

IsUnion(T) == T \in DOMAIN Unions

Assignable(S, T) ==
  \/ S = T
  \/ T \in DOMAIN Interfaces /\ S \in Interfaces[T]

(* The fields a record pattern may select: of the case or class it names, or,
   with no name, of the scrutinee's type; the case may be another union's. *)
TargetOf(p, T) == IF p.path = "" THEN T ELSE p.path
HasTarget(p, T) == TargetOf(p, T) \in IF p.path = "" THEN Classes ELSE DOMAIN Fields
IsCase(p) == p.path \in CaseNames
FieldTypes(p, T) == Fields[TargetOf(p, T)]

PatternChecks ==
  LET binds[q \in AllPatterns \X Types] ==
        LET p == q[1] T == q[2] IN
        IF p.form = "alias" THEN binds[<<p.inner, T>>]
        ELSE IF p.form = "literal" THEN Assignable("Bool", T)
        ELSE IF p.form = "tuple"
        THEN /\ T \in DOMAIN Tuples
             /\ \A i \in DOMAIN p.elements \cap DOMAIN Tuples[T] : binds[<<p.elements[i], Tuples[T][i]>>]
        ELSE IF p.form = "list"
        THEN T \in DOMAIN Vectors /\ \A i \in DOMAIN p.elements : binds[<<p.elements[i], Vectors[T]>>]
        ELSE IF p.form = "record"
        THEN /\ HasTarget(p, T)
             /\ DOMAIN p.fields \subseteq DOMAIN FieldTypes(p, T)
             /\ DOMAIN p.fields = {} => IsCase(p) /\ DOMAIN FieldTypes(p, T) = {}
             /\ p.shorthand => T = "Option"
             /\ \A f \in DOMAIN p.fields : binds[<<p.fields[f], FieldTypes(p, T)[f]>>]
        ELSE TRUE
  IN binds

(* What the checker has nothing to say against: it does not count the elements
   of a tuple pattern. *)
BindPattern(p, T) == PatternChecks[<<p, T>>]

IrrefutablePatterns ==
  LET irrefutable[q \in AllPatterns \X Types] ==
        LET p == q[1] T == q[2] IN
        IF p.form \in {"wildcard", "binding"} THEN TRUE
        ELSE IF p.form = "alias" THEN irrefutable[<<p.inner, T>>]
        ELSE IF p.form = "type" THEN Assignable(T, p.target)
        ELSE IF p.form = "tuple"
        THEN /\ T \in DOMAIN Tuples
             /\ Len(Tuples[T]) = Len(p.elements)
             /\ \A i \in DOMAIN p.elements : irrefutable[<<p.elements[i], Tuples[T][i]>>]
        ELSE IF p.form = "list" THEN p.elements = << >> /\ p.rest /\ T \in DOMAIN Vectors
        ELSE IF p.form = "record"
        THEN /\ HasTarget(p, T) /\ ~IsCase(p)
             /\ Assignable(T, TargetOf(p, T))
             /\ \A f \in DOMAIN p.fields :
                  f \in DOMAIN FieldTypes(p, T) /\ irrefutable[<<p.fields[f], FieldTypes(p, T)[f]>>]
        ELSE FALSE
  IN irrefutable

PatternIsIrrefutable(p, T) == IrrefutablePatterns[<<p, T>>]

UnaliasedPatterns ==
  LET without[p \in AllPatterns] == IF p.form = "alias" THEN without[p.inner] ELSE p
  IN without

PatternWithoutAlias(p) == UnaliasedPatterns[p]

(* The parser writes one case per alternative; the alternatives share the
   guard and remember how many of them follow. *)
\* Mutant: only the last alternative keeps the guard.
ParseCaseGuardingLast(written, k) ==
  LET alternatives == written[k].alternatives IN
  [i \in DOMAIN alternatives |->
     [pattern |-> alternatives[i],
      guard |-> IF i = Len(alternatives) THEN written[k].guard ELSE "none",
      written |-> k, remainingAlternatives |-> Len(alternatives) - i]]

ParseCase(written, k) ==
  LET alternatives == written[k].alternatives IN
  [i \in DOMAIN alternatives |->
     [pattern |-> alternatives[i], guard |-> written[k].guard, written |-> k,
      remainingAlternatives |-> Len(alternatives) - i]]

ParseMatch(written) == FlattenSeq([k \in DOMAIN written |-> ParseCase(written, k)])

(* A match over a union must name every case, in a case without guard;
   whether the payload patterns can fail is not asked.  A match over another
   type is not examined. *)
\* Mutant: a guarded case covers its union case too.
CheckMatchCountingGuarded(T, cases) ==
  LET all == {cases[i].pattern : i \in DOMAIN cases}
      covered == {PatternWithoutAlias(p).path :
                    p \in {q \in all : PatternWithoutAlias(q).form = "record"}}
  IN IsUnion(T) =>
       \/ \E p \in all : PatternIsIrrefutable(p, T)
       \/ Unions[T] \subseteq covered

CheckMatchExhaustiveness(T, cases) ==
  LET unguarded == {cases[i].pattern : i \in {j \in DOMAIN cases : cases[j].guard = "none"}}
      covered == {PatternWithoutAlias(p).path :
                    p \in {q \in unguarded : PatternWithoutAlias(q).form = "record"}}
  IN IsUnion(T) =>
       \/ \E p \in unguarded : PatternIsIrrefutable(p, T)
       \/ Unions[T] \subseteq covered

(* A plain `let` needs an irrefutable pattern, or a source whose literal
   form shows that the pattern matches. *)
PatternProofs ==
  LET proved[q \in AllPatterns \X AllSources] ==
        LET p == q[1] source == q[2] IN
        IF p.form \in {"wildcard", "binding"} THEN TRUE
        ELSE IF p.form = "alias" THEN proved[<<p.inner, source>>]
        ELSE IF p.form = "tuple"
        THEN /\ source.expr = "tuple" /\ Len(source.items) = Len(p.elements)
             /\ \A i \in DOMAIN p.elements : proved[<<p.elements[i], source.items[i]>>]
        ELSE IF p.form = "list"
        THEN /\ source.expr = "list"
             /\ p.rest \/ Len(source.items) = Len(p.elements)
             /\ Len(source.items) >= Len(p.elements)
             /\ \A i \in DOMAIN p.elements : proved[<<p.elements[i], source.items[i]>>]
        ELSE IF p.form = "literal" THEN source.expr = "literal" /\ source.value = p.value
        ELSE IF p.form = "record"
        THEN \* `None` and the shorthand `^p` of `Some { value: p }` are constructor
             \* patterns; a record pattern with a field list is never proved
             /\ source.expr = "construct" /\ source.path = p.path
             /\ DOMAIN source.fields = DOMAIN p.fields
             /\ DOMAIN p.fields = {} \/ p.shorthand
             /\ \A f \in DOMAIN p.fields : proved[<<p.fields[f], source.fields[f]>>]
        ELSE FALSE
  IN proved

SourceExprProvesPatternMatch(p, source) == PatternProofs[<<p, source>>]

RequireSafeLetPattern(p, T, source) ==
  PatternIsIrrefutable(p, T) \/ SourceExprProvesPatternMatch(p, source)

----------------------------------------------------------------------------
(* The lowered tests, as the interpreter evaluates them. *)

\* Mutant: the payload of a case is not found.
PatternFieldOfClass(v, f) ==
  IF HasFields(v) /\ v.of \in Classes /\ f \in DOMAIN v.fields THEN v.fields[f] ELSE Unit

PatternField(v, f) == IF HasFields(v) /\ f \in DOMAIN v.fields THEN v.fields[f] ELSE Unit

(* VariantIs for a case, TypeTest for a type. *)
ValueMatchesType(v, T) == OfType(v, T)

(* A test is "yes", "no", or "error" when the interpreter reports a run-time
   error while it computes the test. *)
CombineConditions(tests) ==
  IF "error" \in tests THEN "error" ELSE IF "no" \in tests THEN "no" ELSE "yes"

Holds(b) == IF b THEN "yes" ELSE "no"

(* Patterns whose value the plan never computes before the condition holds; in
   a list pattern an alias of one as well. *)
Deferred(p) == p.form \in {"wildcard", "binding"}
DeferredListItem(p) == Deferred(PatternWithoutAlias(p))

LoweredPlans ==
  LET plan[q \in AllPatterns \X AllValues] ==
        LET p == q[1]
            v == q[2]
            item(i) == IF DeferredListItem(p.elements[i]) THEN "yes"
                       ELSE IF i > Len(v.items) THEN "error"
                       ELSE plan[<<p.elements[i], v.items[i]>>]
            longEnough == IF p.rest THEN Len(v.items) >= Len(p.elements) ELSE Len(v.items) = Len(p.elements)
        IN
        IF p.form = "alias" THEN plan[<<p.inner, v>>]
        ELSE IF p.form = "literal" THEN Holds(v.of = "Bool" /\ v.value = p.value)
        ELSE IF p.form = "type" THEN Holds(ValueMatchesType(v, p.target))
        ELSE IF p.form = "tuple"
        THEN IF v.of \notin DOMAIN Tuples \/ Len(p.elements) > Len(v.items) THEN "error"
             ELSE CombineConditions({plan[<<p.elements[i], v.items[i]>>] : i \in DOMAIN p.elements})
        ELSE IF p.form = "list"
        THEN IF v.of \notin DOMAIN Vectors THEN "error"
             ELSE CombineConditions({Holds(longEnough)} \cup {item(i) : i \in DOMAIN p.elements})
        ELSE IF p.form = "record"
        THEN CombineConditions(
               {Holds(p.path = "" \/ ValueMatchesType(v, p.path))} \cup
               {plan[<<p.fields[f], PatternField(v, f)>>] : f \in {g \in DOMAIN p.fields : ~Deferred(p.fields[g])}})
        ELSE "yes"
  IN plan

LowerPatternPlan(p, v) == LoweredPlans[<<p, v>>]

----------------------------------------------------------------------------
(* A match: one block of tests per flattened case, and the unmatched block. *)

IsMatch == "written" \in DOMAIN subject

Cases == ParseMatch(subject.written)

Accepted ==
  /\ \A i \in DOMAIN Cases : BindPattern(Cases[i].pattern, subject.type)
  /\ CheckMatchExhaustiveness(subject.type, Cases)

\* Mutant: a false guard jumps one case too far.
GuardFailIndexPast(i) == i + Cases[i].remainingAlternatives + 2

GuardFailIndex(i) == i + Cases[i].remainingAlternatives + 1

Asked(k) == [asked EXCEPT ![k] = @ + 1]

NoSubject == [type |-> "none"]

PatternsIdle == subject = NoSubject /\ case = 1 /\ asked = << >> /\ outcome = "idle"

PatternsInit ==
  /\ \E T \in Scrutinees :
       \/ \E v \in ValuesOf[T], w \in WrittenOf[T] :
            /\ subject = [type |-> T, value |-> v, written |-> w]
            /\ asked = [k \in DOMAIN w |-> 0]
       \/ \E s \in SourcesOf[T], p \in LetsOf[T] :
            /\ subject = [type |-> T, source |-> s, pattern |-> p]
            /\ asked = << >>
  /\ case = 1
  /\ outcome = "running"

InMatch == outcome = "running" /\ IsMatch /\ Accepted
Running == InMatch /\ case <= Len(Cases)

(* The checker refuses a pattern that does not go with the type, and a match
   that leaves out a case of its union. *)
RefuseMatch ==
  /\ outcome = "running" /\ IsMatch /\ ~Accepted
  /\ outcome' = "refused"
  /\ UNCHANGED <<subject, case, asked>>

Tested == LowerPatternPlan(Cases[case].pattern, subject.value)

PatternFails ==
  /\ Running /\ Tested = "no"
  /\ case' = case + 1
  /\ UNCHANGED <<subject, asked, outcome>>

TestFails ==
  /\ Running /\ Tested = "error"
  /\ outcome' = "error"
  /\ UNCHANGED <<subject, case, asked>>

TakeCase ==
  /\ Running /\ Tested = "yes"
  /\ Cases[case].guard = "none"
  /\ outcome' = "taken"
  /\ UNCHANGED <<subject, case, asked>>

GuardHolds ==
  /\ Running /\ Tested = "yes"
  /\ Cases[case].guard = "true"
  /\ asked' = Asked(Cases[case].written)
  /\ outcome' = "taken"
  /\ UNCHANGED <<subject, case>>

GuardFails ==
  /\ Running /\ Tested = "yes"
  /\ Cases[case].guard = "false"
  /\ asked' = Asked(Cases[case].written)
  /\ case' = GuardFailIndex(case)
  /\ UNCHANGED <<subject, outcome>>

(* The statement goes on after the match; the expression yields Unit. *)
Unmatched ==
  /\ InMatch /\ case = Len(Cases) + 1
  /\ outcome' = "unmatched"
  /\ UNCHANGED <<subject, case, asked>>

----------------------------------------------------------------------------
(* A plain `let`: the test is computed and ignored, the bindings applied.   *)

LetAccepted ==
  /\ RequireSafeLetPattern(subject.pattern, subject.type, subject.source)
  /\ BindPattern(subject.pattern, subject.type)

RefuseLet ==
  /\ ~IsMatch /\ outcome = "running" /\ ~LetAccepted
  /\ outcome' = "refused"
  /\ UNCHANGED <<subject, case, asked>>

Bind ==
  /\ ~IsMatch /\ outcome = "running" /\ LetAccepted
  /\ outcome' = IF LowerPatternPlan(subject.pattern, subject.source.denotes) = "error"
                THEN "error" ELSE "bound"
  /\ UNCHANGED <<subject, case, asked>>

PatternsNext ==
  \/ RefuseMatch \/ PatternFails \/ TestFails
  \/ TakeCase \/ GuardHolds \/ GuardFails \/ Unmatched
  \/ RefuseLet \/ Bind

PatternsSpec == PatternsInit /\ [][PatternsNext]_patternVars

----------------------------------------------------------------------------
(* What the language says of patterns *)

(* Whether the pattern matches the value, part by part.  A tuple pattern of
   fewer elements than the tuple has, which syntax.md:5548 forbids and nothing
   refuses, is taken by the elements it has. *)
PatternMatches ==
  LET matches[q \in AllPatterns \X AllValues] ==
        LET p == q[1] v == q[2] IN
        IF p.form = "alias" THEN matches[<<p.inner, v>>]
        ELSE IF p.form = "literal" THEN v = Flag(p.value)
        ELSE IF p.form = "type" THEN OfType(v, p.target)
        ELSE IF p.form \in {"tuple", "list"}
        THEN /\ v.of \in IF p.form = "tuple" THEN DOMAIN Tuples ELSE DOMAIN Vectors
             /\ Len(v.items) >= Len(p.elements)
             /\ p.form = "tuple" \/ p.rest \/ Len(v.items) = Len(p.elements)
             /\ \A i \in DOMAIN p.elements : matches[<<p.elements[i], v.items[i]>>]
        ELSE IF p.form = "record"
        THEN /\ HasFields(v) /\ p.path \in {"", v.of}
             /\ \A f \in DOMAIN p.fields : f \in DOMAIN v.fields /\ matches[<<p.fields[f], v.fields[f]>>]
        ELSE TRUE
  IN matches

SourceMatches(p, v) == PatternMatches[<<p, v>>]

Matching(k) == {i \in DOMAIN subject.written[k].alternatives :
                  SourceMatches(subject.written[k].alternatives[i], subject.value)}

Reached(k) ==
  \A j \in 1..(k - 1) : Matching(j) = {} \/ subject.written[j].guard = "false"

PatternsTypeOK ==
  /\ subject = NoSubject \/ subject.type \in Scrutinees
  /\ outcome \in {"idle", "running", "refused", "taken", "unmatched", "bound", "error"}
  /\ case \in 1..(IF IsMatch THEN Len(Cases) + 1 ELSE 1)

(* syntax.md:5170 alternatives are tried from left to right, and a false
   guard goes on to the next written case: the case taken is the first
   written case that matches and whose guard does not refuse, through its
   first matching alternative; a match that takes none has none.  Once one
   alternative matches, the shared guard is evaluated exactly once: never a
   second time for another alternative, and never for a case that an earlier
   case kept the match from reaching. *)
SelectsAsWritten ==
  /\ outcome = "taken" =>
       LET k == Cases[case].written IN
       /\ Reached(k) /\ subject.written[k].guard # "false"
       /\ Len(subject.written[k].alternatives) - Cases[case].remainingAlternatives
            = CHOOSE i \in Matching(k) : \A j \in Matching(k) : i <= j
  /\ outcome = "unmatched" => Reached(Len(subject.written) + 1)
  /\ IsMatch => \A k \in DOMAIN asked :
       /\ asked[k] <= 1
       /\ asked[k] = 1 => Matching(k) # {} /\ Reached(k)

(* An accepted match over a union whose unguarded patterns ask nothing of
   the payloads takes a case, whatever guards and alternatives it has. *)
AsksNothing(p, T) ==
  \/ PatternIsIrrefutable(p, T)
  \/ /\ PatternWithoutAlias(p).form = "record"
     /\ \A f \in DOMAIN PatternWithoutAlias(p).fields :
          PatternIsIrrefutable(PatternWithoutAlias(p).fields[f],
                               FieldTypes(PatternWithoutAlias(p), T)[f])

FlatMatchesTakeACase ==
  IsMatch /\ IsUnion(subject.type)
  /\ (\A i \in DOMAIN Cases : Cases[i].guard = "none" => AsksNothing(Cases[i].pattern, subject.type))
  => outcome # "unmatched"

(* The checker's irrefutability and its literal proof are what lets a plain
   `let` skip its test: a pattern bound without a test matches the value, and
   reading its parts does not fail.  In a match, the tests of a pattern are
   computed before any of them is looked at; what that reads too early is
   never part of a pattern that matches. *)
MatchingPatternsNeverFail ==
  /\ ~IsMatch => outcome # "error"
  /\ outcome = "bound" => SourceMatches(subject.pattern, subject.source.denotes)
  /\ IsMatch /\ outcome = "error" => ~SourceMatches(Cases[case].pattern, subject.value)

(* syntax.md:5170 alternatives are tried from left to right until one
   matches: trying one that does not match is not an error. *)
TriedPatternsNeverFail == outcome # "error"
=============================================================================
