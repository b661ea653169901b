----------------------------- MODULE Overloads ------------------------------
(***************************************************************************)
(* A call of an overloaded method, whose target is worked out three times: *)
(* the type checker ranks the overloads by the static types of the         *)
(* arguments (rust/crates/lume/src/typecheck.rs), the lowering lays the     *)
(* arguments out for the overload it ranks first by counting them          *)
(* (lower.rs), and the interpreter, which is handed the operands and not   *)
(* the overload, ranks them once more by the values (interpreter.rs).      *)
(*                                                                         *)
(* A signature is a sequence of parameters [name, type, default, variadic] *)
(* and a call a sequence of arguments [name, type, value]; a name or a     *)
(* default that is not there is "".  Arguments spread from shapes, generic *)
(* parameters and a variadic parameter given by name are left out.         *)
(***************************************************************************)
EXTENDS Naturals, FiniteSets, FiniteSetsExt, Sequences, SequencesExt

CONSTANTS
  Methods,        \* the overloads of a method: sequences of signatures
  Calls,          \* the arguments of a call
  TypeOf          \* value -> its type, "Int" or "Str"

VARIABLES
  overloads, args,  \* the method and the call
  stage,      \* "idle", "written", "refused", "checked", "lowered", "ran" or "stuck"
  chosen,     \* the overload the checker selected, 0 before
  operands,   \* what the lowered call passes
  ran,        \* the overload that runs, 0 before
  bound       \* parameter -> the values it holds when the body starts

overloadVars == <<overloads, args, stage, chosen, operands, ran, bound>>

IsVariadic(sig) == sig # << >> /\ Last(sig).variadic
HasDefault(param) == param.default # ""
Fixed(sig) == IF IsVariadic(sig) THEN Len(sig) - 1 ELSE Len(sig)

ArgAssignable(S, T) == S = T \/ T = "Any"

(* Only the last parameter is variadic, no two have the same name, and a
   default has the type of its parameter. *)
ASSUME SignatureAssumption ==
  \A sigs \in Methods :
    /\ sigs \in Seq(Seq([name : STRING, type : STRING, default : STRING, variadic : BOOLEAN]))
    /\ \A j \in DOMAIN sigs : \A k \in DOMAIN sigs[j] :
         LET param == sigs[j][k] IN
         /\ param.variadic => k = Len(sigs[j])
         /\ param.name # "" /\ \A i \in DOMAIN sigs[j] : sigs[j][i].name = param.name => i = k
         /\ HasDefault(param) => ArgAssignable(TypeOf[param.default], param.type)

(* The static type of an argument is the type of its value, or Any. *)
ASSUME CallAssumption ==
  \A call \in Calls :
    /\ call \in Seq([name : STRING, type : STRING, value : DOMAIN TypeOf])
    /\ \A i \in DOMAIN call : call[i].type \in {"Any", TypeOf[call[i].value]}

----------------------------------------------------------------------------
(* Which parameter takes which argument.  The walks of the checker and of
   the lowering are the same on these calls: a named argument takes the
   parameter of its name, a positional one the next that is free, the last
   parameter collects when it is variadic. *)

ParamNamed(sig, name) == {k \in DOMAIN sig : sig[k].name = name}

NextFree(sig, slots, from) ==
  Min({k \in from .. Len(sig) + 1 :
         k = Len(sig) + 1 \/ (k <= Len(sig) /\ (sig[k].variadic \/ slots[k] = << >>))})

PlaceArg(sig, call, walk, i) ==
  LET arg == call[i]
      free == NextFree(sig, walk.slots, walk.next)
      take(k) == [walk EXCEPT !.slots[k] = Append(@, i)]
      tooMany == [walk EXCEPT !.overflow = @ + 1]
  IN IF arg.name # ""
     THEN IF \E k \in ParamNamed(sig, arg.name) : walk.slots[k] = << >>
          THEN take(CHOOSE k \in ParamNamed(sig, arg.name) : walk.slots[k] = << >>)
          ELSE tooMany
     ELSE IF IsVariadic(sig) /\ free >= Len(sig)
          THEN [take(Len(sig)) EXCEPT !.next = free]
          ELSE IF free <= Len(sig)
               THEN [take(free) EXCEPT !.next = free + 1]
               ELSE tooMany

(* The arrangement of the first i arguments, for every i. *)
Arrangements(sig, call) ==
  LET walk[i \in 0 .. Len(call)] ==
        IF i = 0 THEN [slots |-> [k \in DOMAIN sig |-> << >>], next |-> 1, overflow |-> 0]
        ELSE PlaceArg(sig, call, walk[i - 1], i)
  IN walk

ArrangeParamArgs(sig, call) == Arrangements(sig, call)[Len(call)]

Slots(sig, call) == ArrangeParamArgs(sig, call).slots

Arranges(sig, call) ==
  /\ ArrangeParamArgs(sig, call).overflow = 0
  /\ \A k \in DOMAIN sig : Slots(sig, call)[k] # << >> \/ sig[k].variadic \/ HasDefault(sig[k])

(* The overloads with the highest score, of those that have one (<< >> is none). *)
Best(score) ==
  LET ranked == {k \in DOMAIN score : score[k] # << >>}
  IN {k \in ranked : \A j \in ranked : Head(score[j]) <= Head(score[k])}

----------------------------------------------------------------------------
(* The checker *)

(* What the checker gives an overload: two for every argument, one more when
   its type is the parameter's, when it is named, and for an overload without
   a variadic parameter. *)
CheckScore(sig, call) ==
  LET placed == {p \in (DOMAIN call) \X (DOMAIN sig) : p[1] \in Range(Slots(sig, call)[p[2]])}
      exact == {p \in placed : call[p[1]].type = sig[p[2]].type}
      named == {p \in placed : call[p[1]].name = sig[p[2]].name}
  IN IF Arranges(sig, call) /\ \A p \in placed : ArgAssignable(call[p[1]].type, sig[p[2]].type)
     THEN <<2 * Cardinality(placed) + Cardinality(exact) + Cardinality(named)
            + (IF IsVariadic(sig) THEN 0 ELSE 1)>>
     ELSE << >>

BestOverloadCandidates(sigs, call) == Best([k \in DOMAIN sigs |-> CheckScore(sigs[k], call)])

(* No candidate is an error, several are ambiguous. *)
SelectOverload ==
  /\ stage = "written"
  /\ IF Cardinality(BestOverloadCandidates(overloads, args)) = 1
     THEN /\ stage' = "checked"
          /\ chosen' = CHOOSE k \in BestOverloadCandidates(overloads, args) : TRUE
     ELSE stage' = "refused" /\ UNCHANGED chosen
  /\ UNCHANGED <<overloads, args, operands, ran, bound>>

----------------------------------------------------------------------------
(* The lowering *)

(* Counts only: every parameter given, then defaults left out, then variadic
   parameters with and without arguments. *)
MethodCallArityScore(sig, call) ==
  LET omitted == Cardinality({k \in DOMAIN sig : Slots(sig, call)[k] = << >>}) IN
  IF ~Arranges(sig, call) THEN << >>
  ELSE IF ~IsVariadic(sig) THEN <<IF omitted = 0 THEN 400 + Len(sig) ELSE 300 - omitted>>
  ELSE IF Slots(sig, call)[Len(sig)] # << >> THEN <<200 + Len(call)>> ELSE <<100 - omitted>>

ArityCandidates(sigs, call) == Best([k \in DOMAIN sigs |-> MethodCallArityScore(sigs[k], call)])

(* The first overload of the highest rank. *)
FindExpectedArgTarget == Min(ArityCandidates(overloads, args))

(* The operands in the order of the parameters, a default for each that has no
   argument; what a variadic parameter takes is spread at the end. *)
LowerCallArgs(sig, call) ==
  LET slots == Slots(sig, call)
      operand(k) == IF slots[k] = << >> THEN sig[k].default ELSE call[Head(slots[k])].value
      spread == IF IsVariadic(sig)
                THEN [n \in DOMAIN slots[Len(sig)] |-> call[slots[Len(sig)][n]].value]
                ELSE << >>
  IN [k \in 1 .. Fixed(sig) |-> operand(k)] \o spread

LowerCall ==
  /\ stage = "checked"
  /\ operands' = LowerCallArgs(overloads[FindExpectedArgTarget], args)
  /\ stage' = "lowered"
  /\ UNCHANGED <<overloads, args, chosen, ran, bound>>

----------------------------------------------------------------------------
(* The interpreter *)

(* Whether a value is one of a type.  The lowering leaves Any a name like others,
   and the interpreter has no value of that name. *)
ArgMatchesType(v, T) == TypeOf[v] = T

DefaultsFrom(sig, from) == \A k \in from .. Fixed(sig) : HasDefault(sig[k])

(* A variadic overload must match every value, which excludes it when a value
   is for a parameter of type Any, and ranks by their number.  Any other needs
   the right number of operands and ranks higher for every value that matches,
   but a value that does not match does not exclude it. *)
RuntimeScore(sig, ops) ==
  LET n == Len(ops)
      typeAt(i) == sig[Min({i, Len(sig)})].type
      matches == {i \in DOMAIN ops : i <= Len(sig) /\ ArgMatchesType(ops[i], typeAt(i))}
  IN IF IsVariadic(sig)
     THEN IF DefaultsFrom(sig, n + 1) /\ \A i \in DOMAIN ops : ArgMatchesType(ops[i], typeAt(i))
          THEN <<9 + 3 * n>>
          ELSE << >>
     ELSE IF n = Len(sig) THEN <<10 + 2 * Cardinality(matches)>>
     ELSE IF n < Len(sig) /\ DefaultsFrom(sig, n + 1) THEN <<8 + 2 * Cardinality(matches)>>
     ELSE << >>

RuntimeCandidates(sigs, ops) == Best([k \in DOMAIN sigs |-> RuntimeScore(sigs[k], ops)])

\* Mutant: a variadic parameter misses the first operand left for it.
CollectsTooLate(sig, ops) ==
  [k \in DOMAIN sig |->
     IF sig[k].variadic THEN SubSeq(ops, k + 1, Len(ops))
     ELSE IF k <= Len(ops) THEN <<ops[k]>> ELSE <<sig[k].default>>]

(* Missing operands are filled with defaults; a variadic parameter holds the
   operands that are left. *)
NormalizeCallArgs(sig, ops) ==
  [k \in DOMAIN sig |->
     IF sig[k].variadic THEN SubSeq(ops, k, Len(ops))
     ELSE IF k <= Len(ops) THEN <<ops[k]>> ELSE <<sig[k].default>>]

(* The first overload of the highest rank runs; without one the method is
   not available. *)
InvokeMethod ==
  /\ stage = "lowered"
  /\ LET candidates == RuntimeCandidates(overloads, operands) IN
     IF candidates = {}
     THEN stage' = "stuck" /\ UNCHANGED <<ran, bound>>
     ELSE /\ ran' = Min(candidates)
          /\ bound' = NormalizeCallArgs(overloads[ran'], operands)
          /\ stage' = "ran"
  /\ UNCHANGED <<overloads, args, chosen, operands>>

----------------------------------------------------------------------------

OverloadsIdle ==
  /\ overloads = << >> /\ args = << >> /\ stage = "idle"
  /\ chosen = 0 /\ operands = << >> /\ ran = 0 /\ bound = << >>

OverloadsInit ==
  /\ overloads \in Methods /\ args \in Calls /\ stage = "written"
  /\ \A k \in DOMAIN overloads, i \in DOMAIN args :
       IsVariadic(overloads[k]) => args[i].name # Last(overloads[k]).name
  /\ chosen = 0 /\ operands = << >> /\ ran = 0 /\ bound = << >>

OverloadsNext == SelectOverload \/ LowerCall \/ InvokeMethod

OverloadsSpec == OverloadsInit /\ [][OverloadsNext]_overloadVars

----------------------------------------------------------------------------

OverloadsTypeOK ==
  /\ stage \in {"idle", "written", "refused", "checked", "lowered", "ran", "stuck"}
  /\ chosen \in 0 .. Len(overloads) /\ ran \in 0 .. Len(overloads)
  /\ stage \in {"checked", "lowered", "ran", "stuck"} <=> chosen # 0
  /\ stage = "ran" <=> ran # 0

(* The values of the arguments that the parameters take, or their defaults. *)
PromisedBy(sig, call) ==
  [k \in DOMAIN sig |->
     IF Slots(sig, call)[k] = << >>
     THEN IF sig[k].variadic THEN << >> ELSE <<sig[k].default>>
     ELSE [n \in DOMAIN Slots(sig, call)[k] |-> call[Slots(sig, call)[k][n]].value]]

(* What the checker promises of the overload it selected. *)
Promised == PromisedBy(overloads[chosen], args)

(* Overloads without defaults, variadic parameters and Any, called by position. *)
PlainCall ==
  /\ \A k \in DOMAIN overloads : \A p \in Range(overloads[k]) :
       ~p.variadic /\ ~HasDefault(p) /\ p.type # "Any"
  /\ \A i \in DOMAIN args : args[i].name = "" /\ args[i].type # "Any"

(* One of the operands laid out for the overload is for a parameter of type Any. *)
TakesAny(sig, call) ==
  \E k \in DOMAIN sig : sig[k].type = "Any" /\ (sig[k].variadic => Slots(sig, call)[k] # << >>)

(* A call that passed the checker runs an overload, unless its operands were
   laid out for a variadic overload that is not the one the checker selected,
   or that takes one of them as Any; a plain call runs the one the checker
   selected.  When checker, lowering and interpreter all select the same one,
   its parameters hold the arguments and defaults that the checker's
   arrangement promised them, whatever was named, left out or collected. *)
AcceptedCallsRun ==
  /\ stage = "stuck" =>
       LET target == FindExpectedArgTarget IN
       /\ IsVariadic(overloads[target])
       /\ target # chosen \/ TakesAny(overloads[target], args)
  /\ stage = "ran" /\ PlainCall => ran = chosen /\ bound = Promised
  /\ stage = "ran" /\ ran = chosen /\ FindExpectedArgTarget = chosen => bound = Promised

(* syntax.md:3228 calls resolve overloads from the semantic types of their
   arguments, and declaration order never selects one silently: the overload
   that runs, and one does, is the one that the checker selected by types. *)
SelectedOverloadRuns == stage \in {"ran", "stuck"} => ran = chosen
=====
