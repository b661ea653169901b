----------------------------- MODULE MCPatterns -----------------------------
(* Small types, patterns, matches and bindings for Patterns. *)
EXTENDS Patterns, TLC

MCTuples == [Pair |-> <<"Bool", "Bool">>, Triple |-> <<"Bool", "Bool", "Bool">>]
MCVectors == [Flags |-> "Bool", Pairs |-> "Pair"]
MCUnions == [Option |-> {"None", "Some"}, Maybe |-> {"Nothing", "Just"}, Either |-> {"Left", "Right"}]
MCFields == [None |-> << >>, Some |-> [value |-> "Bool"],
             Nothing |-> << >>, Just |-> [value |-> "Pair"],
             Left |-> [value |-> "Bool"], Right |-> [value |-> "Pair"],
             Dog |-> [tag |-> "Bool"], Box |-> [pair |-> "Pair"]]
MCInterfaces == [Animal |-> {"Dog", "Box"}]

Tuple(T, s) == [of |-> T, items |-> s]
Both(v, w) == Tuple("Pair", <<v, w>>)
Make(name, f) == [of |-> name, fields |-> f]
Empty(name) == Make(name, << >>)
T1 == Flag(TRUE)
F1 == Flag(FALSE)

MCScrutinees == {"Bool", "Pair", "Triple", "Flags", "Pairs", "Option", "Maybe", "Either", "Animal", "Dog", "Box"}

MCValuesOf == [T \in MCScrutinees |->
  CASE T = "Bool" -> {T1, F1}
    [] T = "Pair" -> {Both(T1, T1), Both(T1, F1), Both(F1, T1)}
    [] T = "Triple" -> {Tuple(T, <<F1, T1, T1>>)}
    [] T = "Flags" -> {Tuple(T, << >>), Tuple(T, <<T1>>), Tuple(T, <<F1>>), Tuple(T, <<T1, F1>>)}
    [] T = "Pairs" -> {Tuple(T, << >>), Tuple(T, <<Both(T1, F1)>>)}
    [] T = "Option" -> {Empty("None"), Make("Some", [value |-> T1]), Make("Some", [value |-> F1])}
    [] T = "Maybe" -> {Empty("Nothing"), Make("Just", [value |-> Both(T1, F1)])}
    [] T = "Either" -> {Make("Left", [value |-> T1]), Make("Right", [value |-> Both(F1, T1)])}
    [] T = "Animal" -> {Make("Dog", [tag |-> F1]), Make("Box", [pair |-> Both(T1, T1)])}
    [] T = "Dog" -> {Make("Dog", [tag |-> T1]), Make("Dog", [tag |-> F1])}
    [] T = "Box" -> {Make("Box", [pair |-> Both(T1, F1)])}]

DepthOver(parts) == 1 + Max({0} \cup {p.depth : p \in parts})
Wild == [form |-> "wildcard", depth |-> 0]
X == [form |-> "binding", depth |-> 0]
As(p) == [form |-> "alias", inner |-> p, depth |-> DepthOver({p})]
Lit(b) == [form |-> "literal", value |-> b, depth |-> 0]
Tup(s) == [form |-> "tuple", elements |-> s, depth |-> DepthOver(Range(s))]
Lst(s, rest) == [form |-> "list", elements |-> s, rest |-> rest, depth |-> DepthOver(Range(s))]
Is(T) == [form |-> "type", target |-> T, depth |-> 0]
Rec(path, f) ==
  [form |-> "record", path |-> path, fields |-> f, shorthand |-> FALSE, depth |-> DepthOver(Range(f))]
Short(f) == [Rec("Some", f) EXCEPT !.shorthand = TRUE]
Bare(path) == Rec(path, << >>)

\* A pattern for which the type is wrong, or another union's, is in most of them.
PatternsOf(T) ==
  CASE T = "Bool" -> {Wild, Lit(TRUE), Lit(FALSE), As(Lit(TRUE))}
    [] T = "Pair" -> {Tup(<<X, Wild>>), Tup(<<Lit(TRUE), X>>), Tup(<<Wild, Lit(TRUE)>>), Wild}
    [] T = "Triple" -> {Tup(<<Lit(TRUE), X>>), Tup(<<X, Lit(TRUE)>>), Lit(TRUE)}
    [] T = "Flags" -> {Lst(<< >>, FALSE), Lst(<<Lit(TRUE), X>>, FALSE), Lst(<<As(X)>>, TRUE), Lst(<< >>, TRUE)}
    [] T = "Pairs" -> {Lst(<< >>, FALSE), Lst(<<Tup(<<X, X>>)>>, TRUE), Wild, Tup(<<X, X>>)}
    [] T = "Option" -> {Bare("None"), Rec("Some", [value |-> X]), As(Rec("Some", [value |-> Lit(TRUE)])), As(Wild)}
    [] T = "Maybe" -> {Bare("Nothing"), Rec("Just", [value |-> Tup(<<X, X>>)]), Short([value |-> Wild]),
                       Rec("Just", [value |-> Tup(<<Lit(FALSE), X>>)])}
    [] T = "Either" -> {Rec("Left", [value |-> Wild]), Rec("Left", [value |-> Lit(TRUE)]), Rec("Right", [value |-> X]),
                        Rec("Right", [value |-> As(Wild)])}
    [] T = "Animal" -> {Is("Dog"), Is("Animal"), Rec("Dog", [tag |-> X]), Rec("Box", [pair |-> Tup(<<X, Wild>>)])}
    [] T = "Dog" -> {Rec("", [tag |-> X]), Rec("Dog", [tag |-> Lit(TRUE)]), Is("Animal"), Rec("Some", [value |-> Wild])}
    [] T = "Box" -> {Rec("", [pair |-> Tup(<<X, Wild>>)]), Rec("Box", [pair |-> Tup(<<Lit(FALSE), X>>)]),
                     Rec("Box", [tag |-> Wild])}

CONSTANT MaxCases   \* flattened cases of a match

(* The ways to cut up to n alternatives into written cases with guards. *)
RECURSIVE Cuts(_)
Cuts(n) ==
  IF n = 0 THEN {<< >>}
  ELSE {<< >>} \cup UNION {{<<<<k, g>>>> \o rest : g \in {"none", "true", "false"}, rest \in Cuts(n - k)} : k \in 1..n}

RECURSIVE Written(_, _)
Written(s, cut) ==
  IF cut = << >> THEN << >>
  ELSE LET k == Head(cut)[1] IN
       <<[alternatives |-> SubSeq(s, 1, k), guard |-> Head(cut)[2]]>> \o Written(SubSeq(s, k + 1, Len(s)), Tail(cut))

\* How cases follow each other is the same for all types.
LongMatches == {"Bool", "Flags", "Option", "Animal"}
CasesOver(T) == IF T \in LongMatches THEN MaxCases ELSE Min({MaxCases, 2})

MCWrittenOf == [T \in MCScrutinees |->
  {Written(s, cut) : s \in [1..CasesOver(T) -> PatternsOf(T)], cut \in Cuts(CasesOver(T)) \ {<< >>}}]

Opaque(v) == [expr |-> "opaque", denotes |-> v]
LitSource(b) == [expr |-> "literal", value |-> b, denotes |-> Flag(b)]
LiteralSource(form, T, s) ==
  [expr |-> form, items |-> s, denotes |-> Tuple(T, [i \in DOMAIN s |-> s[i].denotes])]
ConstructSource(name, f) ==
  [expr |-> "construct", path |-> name, fields |-> f, denotes |-> Make(name, [n \in DOMAIN f |-> f[n].denotes])]
Bools == {LitSource(TRUE), LitSource(FALSE), Opaque(F1)}

MCSourcesOf == [T \in MCScrutinees |->
  {Opaque(v) : v \in MCValuesOf[T]} \cup
  (CASE T = "Bool" -> Bools
     [] T = "Pair" -> {LiteralSource("tuple", T, <<b, c>>) : b, c \in Bools}
     [] T = "Flags" -> {LiteralSource("list", T, s) : s \in UNION {[1..n -> Bools] : n \in 0..2}}
     [] T = "Option" -> {ConstructSource("None", << >>)} \cup {ConstructSource("Some", [value |-> b]) : b \in Bools}
     [] OTHER -> {})]

MCLetsOf == [T \in MCScrutinees |->
  PatternsOf(T) \cup
  (CASE T = "Option" -> {Short([value |-> X]), Short([value |-> Lit(TRUE)]), Is("Option"), Is("Maybe")}
     [] T = "Flags" -> {Lst(<<X>>, FALSE), Lst(<<X>>, TRUE), Lst(<<X, Wild>>, FALSE)}
     [] OTHER -> {})]

(* With all that they consist of. *)
WithParts(S) == S \cup UNION {Parts(p) : p \in S}
MCAllPatterns == WithParts(WithParts(WithParts(UNION {MCLetsOf[T] : T \in MCScrutinees})))
MCAllSources == Bools \cup UNION {MCSourcesOf[T] : T \in MCScrutinees}
SourceValues == {s.denotes : s \in MCAllSources}
MCAllValues ==
  {Unit} \cup SourceValues
  \cup UNION {Range(v.items) : v \in {w \in SourceValues : "items" \in DOMAIN w}}
  \cup UNION {Range(v.fields) : v \in {w \in SourceValues : "fields" \in DOMAIN w}}

PatternsStop == outcome # "running" /\ UNCHANGED patternVars

MCPatternsSpec == PatternsInit /\ [][PatternsNext \/ PatternsStop]_patternVars
=============================================================================
