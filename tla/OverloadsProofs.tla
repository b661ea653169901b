-------------------------- MODULE OverloadsProofs ---------------------------
(* Every call that the checker accepts runs what it should, whatever the
   overloads, their parameters and the arguments. *)
EXTENDS Overloads, FiniteSetTheorems, TLAPS

-----------------------------------------------------------------------------
(* Least elements, induction over the natural numbers, and the best of a
   number of scores. *)

LEMMA NatMin ==
  ASSUME NEW T, T \subseteq Nat, T # {}
  PROVE  \E x \in T : \A y \in T : x <= y
  <1>1. PICK R : R = {p \in Nat \X Nat : p[1] < p[2]}
    OBVIOUS
  <1>2. OpToRel(<, Nat) = {p \in Nat \X Nat : p[1] < p[2]}
    BY Zenon DEF OpToRel
  <1>3. IsWellFoundedOn(R, Nat)
    BY <1>1, <1>2, NatLessThanWellFounded, Zenon
  <1>4. PICK x \in T : \A y \in T : ~(<<y, x>> \in R)
    BY <1>3, WFMin, Zenon
  <1>5. ASSUME NEW y \in T PROVE x <= y
    <2>1. <<y, x>> \in Nat \X Nat
      OBVIOUS
    <2>2. ~(y < x)
      BY <1>1, <1>4, <2>1
    <2> QED
      BY <2>2
  <1> QED
    BY <1>5

LEMMA NatInduct ==
  ASSUME NEW T, 0 \in T, \A n \in Nat : n \in T => n + 1 \in T
  PROVE  Nat \subseteq T
  <1> SUFFICES ASSUME Nat \ T # {} PROVE FALSE
    OBVIOUS
  <1>1. PICK m \in Nat \ T : \A y \in Nat \ T : m <= y
    BY NatMin
  <1>2. m # 0 /\ m - 1 \in Nat
    BY <1>1
  <1>3. m - 1 \in T
    BY <1>1, <1>2
  <1> QED
    BY <1>1, <1>2, <1>3
LEMMA MinOf ==
  ASSUME NEW S, S \subseteq Nat, S # {}
  PROVE  Min(S) \in S /\ \A y \in S : Min(S) <= y
  BY NatMin DEF Min

Scores(score, n) == \A k \in 1 .. n : score[k] = << >> \/ \E x \in Int : score[k] = <<x>>

LEMMA HighestScore ==
  ASSUME NEW n \in Nat, NEW score, Scores(score, n)
  PROVE  \A m \in 0 .. n :
           (\E k \in 1 .. m : score[k] # << >>) =>
           \E k \in 1 .. m :
             /\ score[k] # << >>
             /\ \A j \in 1 .. m : score[j] # << >> => Head(score[j]) <= Head(score[k])
  <1> DEFINE Highest(m, k) ==
               /\ score[k] # << >>
               /\ \A j \in 1 .. m : score[j] # << >> => Head(score[j]) <= Head(score[k])
             T == {m \in Nat : m <= n /\ (\E k \in 1 .. m : score[k] # << >>) =>
                                \E k \in 1 .. m : Highest(m, k)}
  <1>0. \A k \in 1 .. n : score[k] # << >> => Head(score[k]) \in Int
    BY DEF Scores
  <1>1. 0 \in T
    OBVIOUS
  <1>2. ASSUME NEW m \in Nat, m \in T PROVE m + 1 \in T
    <2> SUFFICES ASSUME m + 1 <= n, \E k \in 1 .. m + 1 : score[k] # << >>
                 PROVE  \E k \in 1 .. m + 1 : Highest(m + 1, k)
      OBVIOUS
    <2>0. PICK l : l = m + 1
      OBVIOUS
    <2>1. l \in 1 .. n /\ l \in 1 .. l /\ \A k \in 1 .. l : k \in 1 .. m \/ k = l
      BY <2>0
    <2>2. CASE \A k \in 1 .. m : score[k] = << >>
      <3>1. score[l] # << >>
        BY <2>0, <2>1, <2>2
      <3>2. Highest(l, l)
        BY <1>0, <2>1, <2>2, <3>1
      <3> QED
        BY <2>0, <2>1, <3>2
    <2>3. CASE \E k \in 1 .. m : score[k] # << >>
      <3>1. PICK k \in 1 .. m : Highest(m, k)
        BY <1>2, <2>3
      <3>2. Head(score[k]) \in Int /\ k \in 1 .. l /\ score[k] # << >>
        BY <1>0, <2>0, <3>1
      <3>3. CASE score[l] = << >> \/ Head(score[l]) <= Head(score[k])
        <4>1. Highest(l, k)
          BY <2>1, <3>1, <3>3
        <4> QED
          BY <2>0, <3>2, <4>1
      <3>4. CASE score[l] # << >> /\ ~(Head(score[l]) <= Head(score[k]))
        <4>1. Head(score[l]) \in Int
          BY <1>0, <2>1, <3>4
        <4>2. ASSUME NEW j \in 1 .. l, score[j] # << >> PROVE Head(score[j]) <= Head(score[l])
          <5>1. Head(score[j]) \in Int
            BY <1>0, <2>0, <4>2
          <5>2. j \in 1 .. m => Head(score[j]) <= Head(score[k])
            BY <3>1, <4>2
          <5> QED
            BY <2>1, <3>2, <3>4, <4>1, <5>1, <5>2
        <4> QED
          BY <2>0, <2>1, <3>4, <4>2
      <3> QED
        BY <3>3, <3>4
    <2> QED
      BY <2>2, <2>3
  <1> HIDE DEF T
  <1>3. Nat \subseteq T
    BY <1>1, <1>2, NatInduct
  <1>4. ASSUME NEW m \in 0 .. n, \E k \in 1 .. m : score[k] # << >>
        PROVE  \E k \in 1 .. m : Highest(m, k)
    <2>1. m \in T /\ m <= n
      BY <1>3
    <2> QED
      BY <1>4, <2>1 DEF T
  <1> QED
    BY <1>4

(* Among scores there is a best one when there is any, and it has one. *)
LEMMA BestOf ==
  ASSUME NEW n \in Nat, NEW score, DOMAIN score = 1 .. n, Scores(score, n)
  PROVE  /\ Best(score) \subseteq {k \in 1 .. n : score[k] # << >>}
         /\ (\E k \in 1 .. n : score[k] # << >>) => Best(score) # {}
  <1>1. n \in 0 .. n
    OBVIOUS
  <1>2. (\E k \in 1 .. n : score[k] # << >>) =>
          \E k \in 1 .. n :
             /\ score[k] # << >>
             /\ \A j \in 1 .. n : score[j] # << >> => Head(score[j]) <= Head(score[k])
    BY <1>1, HighestScore
  <1> QED
    BY <1>2 DEF Best

-----------------------------------------------------------------------------
(* What arranging the arguments of a call comes to. *)

Parameter == [name : STRING, type : STRING, default : STRING, variadic : BOOLEAN]
Argument == [name : STRING, type : STRING, value : DOMAIN TypeOf]

SigOK(sig) ==
  /\ sig \in Seq(Parameter)
  /\ \A k \in DOMAIN sig :
       /\ sig[k].variadic => k = Len(sig)
       /\ sig[k].name # ""
       /\ HasDefault(sig[k]) => ArgAssignable(TypeOf[sig[k].default], sig[k].type)

CallOK(call) ==
  /\ call \in Seq(Argument)
  /\ \A i \in DOMAIN call : call[i].type \in {"Any", TypeOf[call[i].value]}

NothingPlaced(sig) == [slots |-> [k \in DOMAIN sig |-> << >>], next |-> 1, overflow |-> 0]

\* w holds the arrangements of the first arguments, up to the nth.
WalkTo(w, sig, call, n) ==
  w = [i \in 0 .. n |-> IF i = 0 THEN NothingPlaced(sig) ELSE PlaceArg(sig, call, w[i - 1], i)]

LEMMA WalkAt ==
  ASSUME NEW sig, NEW call, NEW n, NEW w, WalkTo(w, sig, call, n), NEW i \in 0 .. n
  PROVE  w[i] = IF i = 0 THEN NothingPlaced(sig) ELSE PlaceArg(sig, call, w[i - 1], i)
  <1>1. w = [j \in 0 .. n |-> IF j = 0 THEN NothingPlaced(sig) ELSE PlaceArg(sig, call, w[j - 1], j)]
    BY DEF WalkTo
  <1>2. PICK h : h = [j \in 0 .. n |-> IF j = 0 THEN NothingPlaced(sig) ELSE PlaceArg(sig, call, w[j - 1], j)]
    OBVIOUS
  <1>3. h[i] = IF i = 0 THEN NothingPlaced(sig) ELSE PlaceArg(sig, call, w[i - 1], i)
    BY <1>2, Zenon
  <1>4. h = w
    BY <1>1, <1>2, Zenon
  <1> QED
    BY <1>3, <1>4

LEMMA WalkExists ==
  ASSUME NEW sig, NEW call, NEW n \in Nat
  PROVE  \E w : WalkTo(w, sig, call, n)
  <1>1. PICK T : T = {k \in Nat : \E w : WalkTo(w, sig, call, k)}
    OBVIOUS
  <1>2. 0 \in T
    <2>1. PICK w : w = [i \in 0 .. 0 |-> NothingPlaced(sig)]
      OBVIOUS
    <2>2. WalkTo(w, sig, call, 0)
      BY <2>1 DEF WalkTo
    <2> QED
      BY <1>1, <2>2
  <1>3. ASSUME NEW k \in Nat, k \in T PROVE k + 1 \in T
    <2>0. PICK l : l = k + 1
      OBVIOUS
    <2>1. PICK f : WalkTo(f, sig, call, k)
      BY <1>1, <1>3
    <2>2. PICK e : e = PlaceArg(sig, call, f[k], l)
      OBVIOUS
    <2>3. PICK g : g = [i \in 0 .. l |-> IF i = l THEN e ELSE f[i]]
      OBVIOUS
    <2>4. ASSUME NEW i \in 0 .. l
          PROVE  g[i] = IF i = 0 THEN NothingPlaced(sig) ELSE PlaceArg(sig, call, g[i - 1], i)
      <3>1. CASE i = l
        <4>1. g[i] = e /\ i # 0 /\ i - 1 = k /\ k \in 0 .. l /\ k # l
          BY <2>0, <2>3, <3>1
        <4>2. g[i - 1] = f[k]
          BY <2>3, <4>1
        <4> QED
          BY <2>2, <3>1, <4>1, <4>2
      <3>2. CASE i # l
        <4>1. i \in 0 .. k /\ (i # 0 => i - 1 \in 0 .. k /\ i - 1 \in 0 .. l /\ i - 1 # l)
          BY <2>0, <3>2
        <4>2. f[i] = IF i = 0 THEN NothingPlaced(sig) ELSE PlaceArg(sig, call, f[i - 1], i)
          BY <2>1, <4>1, WalkAt
        <4>3. g[i] = f[i] /\ (i # 0 => g[i - 1] = f[i - 1])
          BY <2>3, <3>2, <4>1
        <4> QED
          BY <4>2, <4>3
      <3> QED
        BY <3>1, <3>2
    <2>5. WalkTo(g, sig, call, l)
      <3>1. PICK h : h = [i \in 0 .. l |-> IF i = 0 THEN NothingPlaced(sig) ELSE PlaceArg(sig, call, g[i - 1], i)]
        OBVIOUS
      <3>2. \A i \in 0 .. l : h[i] = g[i]
        BY <2>4, <3>1
      <3>3. h = g
        BY <2>3, <3>1, <3>2
      <3> QED
        BY <3>1, <3>3 DEF WalkTo
    <2> QED
      BY <1>1, <2>0, <2>5
  <1> QED
    BY <1>1, <1>2, <1>3, NatInduct

LEMMA ArrangementsWalk ==
  ASSUME NEW sig, NEW call, Len(call) \in Nat
  PROVE  WalkTo(Arrangements(sig, call), sig, call, Len(call))
  <1>1. PICK w : w = CHOOSE f : WalkTo(f, sig, call, Len(call))
    OBVIOUS
  <1>2. WalkTo(w, sig, call, Len(call))
    BY <1>1, WalkExists
  <1>3. Arrangements(sig, call) = w
    BY <1>1, Zenon DEF Arrangements, WalkTo, NothingPlaced
  <1> QED
    BY <1>2, <1>3

\* An arrangement of arguments of the call, in which only a variadic
\* parameter takes several.
WalkOK(sig, call, w) ==
  /\ w \in [slots : [DOMAIN sig -> Seq(DOMAIN call)], next : 1 .. Len(sig) + 1, overflow : Nat]
  /\ \A k \in DOMAIN sig : sig[k].variadic \/ Len(w.slots[k]) <= 1

Takes(sig, w, k, i, v) ==
  /\ w.slots[k] = << >> \/ sig[k].variadic
  /\ v.slots = [w.slots EXCEPT ![k] = Append(w.slots[k], i)]
  /\ v.next \in 1 .. Len(sig) + 1 /\ v.overflow = w.overflow
  /\ v = [slots |-> v.slots, next |-> v.next, overflow |-> v.overflow]

LEMMA SigLen ==
  ASSUME NEW sig, SigOK(sig)
  PROVE  Len(sig) \in Nat /\ DOMAIN sig = 1 .. Len(sig) /\ (sig # << >> => Len(sig) # 0)
  <1>1. PICK S : sig \in Seq(S)
    BY Zenon DEF SigOK
  <1> QED
    BY <1>1

LEMMA CallLen ==
  ASSUME NEW call, CallOK(call)
  PROVE  Len(call) \in Nat /\ DOMAIN call = 1 .. Len(call)
  <1>1. PICK S : call \in Seq(S)
    BY Zenon DEF CallOK
  <1> QED
    BY <1>1

LEMMA NextFreeIs ==
  ASSUME NEW sig, SigOK(sig), NEW slots, NEW from \in 1 .. Len(sig) + 1
  PROVE  LET free == NextFree(sig, slots, from) IN
         /\ free \in from .. Len(sig) + 1
         /\ free = Len(sig) + 1 \/ (free <= Len(sig) /\ (sig[free].variadic \/ slots[free] = << >>))
         /\ \A k \in from .. Len(sig) : sig[k].variadic \/ slots[k] = << >> => free <= k
  <1>0. Len(sig) \in Nat
    BY SigLen
  <1>1. PICK S : S = {k \in from .. Len(sig) + 1 :
                        k = Len(sig) + 1 \/ (k <= Len(sig) /\ (sig[k].variadic \/ slots[k] = << >>))}
    OBVIOUS
  <1>2. S \subseteq Nat /\ Len(sig) + 1 \in S
    BY <1>0, <1>1
  <1>3. Min(S) \in S /\ \A y \in S : Min(S) <= y
    BY <1>2, MinOf
  <1>4. NextFree(sig, slots, from) = Min(S)
    BY <1>1 DEF NextFree
  <1>5. PICK free : free = Min(S)
    OBVIOUS
  <1>6. ASSUME NEW k \in from .. Len(sig), sig[k].variadic \/ slots[k] = << >> PROVE free <= k
    <2>1. k \in S
      BY <1>0, <1>1, <1>6
    <2> QED
      BY <1>3, <1>5, <2>1
  <1>7. free \in S
    BY <1>3, <1>5
  <1> QED
    BY <1>1, <1>4, <1>5, <1>6, <1>7

TakenBy(w, k, i) == [w EXCEPT !.slots[k] = Append(@, i)]

LEMMA TakenByIs ==
  ASSUME NEW sig, NEW call, NEW w, WalkOK(sig, call, w), NEW k \in DOMAIN sig, NEW i,
         w.slots[k] = << >> \/ sig[k].variadic
  PROVE  /\ Takes(sig, w, k, i, TakenBy(w, k, i))
         /\ \A next \in 1 .. Len(sig) + 1 :
              Takes(sig, w, k, i, [TakenBy(w, k, i) EXCEPT !.next = next])
  <1>1. PICK a, b, c : a = w.slots /\ b = w.next /\ c = w.overflow
    OBVIOUS
  <1>2. w = [slots |-> a, next |-> b, overflow |-> c] /\ b \in 1 .. Len(sig) + 1
    BY <1>1 DEF WalkOK
  <1>3. PICK e : e = Append(a[k], i)
    OBVIOUS
  <1>4. TakenBy(w, k, i) = [w EXCEPT !.slots[k] = e]
    BY <1>1, <1>3 DEF TakenBy
  <1>5. PICK s : s = [a EXCEPT ![k] = e]
    OBVIOUS
  <1>6. TakenBy(w, k, i) = [slots |-> s, next |-> b, overflow |-> c]
    BY <1>2, <1>4, <1>5
  <1>7. ASSUME NEW n \in 1 .. Len(sig) + 1, NEW v, v = [slots |-> s, next |-> n, overflow |-> c]
        PROVE  Takes(sig, w, k, i, v)
    BY <1>1, <1>3, <1>5, <1>7 DEF Takes
  <1>8. Takes(sig, w, k, i, TakenBy(w, k, i))
    BY <1>2, <1>6, <1>7
  <1>9. ASSUME NEW n \in 1 .. Len(sig) + 1
        PROVE  Takes(sig, w, k, i, [TakenBy(w, k, i) EXCEPT !.next = n])
    <2>1. [TakenBy(w, k, i) EXCEPT !.next = n] = [slots |-> s, next |-> n, overflow |-> c]
      BY <1>6
    <2> QED
      BY <1>7, <2>1
  <1> QED
    BY <1>8, <1>9

LEMMA Placing ==
  ASSUME NEW sig, SigOK(sig), NEW call, CallOK(call), NEW w, WalkOK(sig, call, w), NEW i \in DOMAIN call
  PROVE  \/ \E k \in DOMAIN sig : Takes(sig, w, k, i, PlaceArg(sig, call, w, i))
         \/ PlaceArg(sig, call, w, i) = [w EXCEPT !.overflow = @ + 1]
  <1>0. PICK from \in 1 .. Len(sig) + 1 : from = w.next
    BY DEF WalkOK
  <1>1. PICK free : free = NextFree(sig, w.slots, from)
    OBVIOUS
  <1>2. /\ free \in from .. Len(sig) + 1
        /\ free = Len(sig) + 1 \/ (free <= Len(sig) /\ (sig[free].variadic \/ w.slots[free] = << >>))
    BY <1>1, NextFreeIs
  <1>2a. free \in from .. Len(sig) + 1
    BY <1>2, Zenon
  <1>3. Len(sig) \in Nat /\ DOMAIN sig = 1 .. Len(sig) /\ (sig # << >> => Len(sig) # 0)
    BY SigLen
  <1>4. PICK v : v = PlaceArg(sig, call, w, i)
    OBVIOUS
  <1>5. CASE call[i].name # "" /\ \E k \in ParamNamed(sig, call[i].name) : w.slots[k] = << >>
    <2>1. PICK k : k = CHOOSE n \in ParamNamed(sig, call[i].name) : w.slots[n] = << >>
      OBVIOUS
    <2>2. k \in ParamNamed(sig, call[i].name) /\ w.slots[k] = << >>
      BY <1>5, <2>1
    <2>3. k \in DOMAIN sig
      BY <2>2 DEF ParamNamed
    <2>4. v = TakenBy(w, k, i)
      BY <1>4, <1>5, <2>1 DEF PlaceArg, TakenBy
    <2>5. Takes(sig, w, k, i, TakenBy(w, k, i))
      BY <2>2, <2>3, TakenByIs
    <2> QED
      BY <1>4, <2>3, <2>4, <2>5
  <1>6. CASE call[i].name # "" /\ ~\E k \in ParamNamed(sig, call[i].name) : w.slots[k] = << >>
    BY <1>6 DEF PlaceArg
  <1>7. CASE call[i].name = "" /\ IsVariadic(sig) /\ free >= Len(sig)
    <2>a. sig # << >> /\ sig[Len(sig)].variadic
      BY <1>7, Zenon DEF IsVariadic, Last
    <2>b. sig # << >>
      BY <2>a, Zenon
    <2>c. Len(sig) \in DOMAIN sig
      BY <1>3, <2>b
    <2>d. free \in 1 .. Len(sig) + 1
      BY <1>2a, <1>3
    <2>1. Len(sig) \in DOMAIN sig /\ sig[Len(sig)].variadic /\ free \in 1 .. Len(sig) + 1
      BY <2>a, <2>c, <2>d, Zenon
    <2>2. v = [TakenBy(w, Len(sig), i) EXCEPT !.next = free]
      BY <1>0, <1>1, <1>4, <1>7 DEF PlaceArg, TakenBy
    <2> QED
      BY <1>4, <2>1, <2>2, TakenByIs
  <1>8. CASE call[i].name = "" /\ ~(IsVariadic(sig) /\ free >= Len(sig)) /\ free <= Len(sig)
    <2>0. free <= Len(sig)
      BY <1>8, Zenon
    <2>1. free \in DOMAIN sig /\ free + 1 \in 1 .. Len(sig) + 1 /\ free # Len(sig) + 1
      BY <1>2a, <1>3, <2>0
    <2>2. w.slots[free] = << >> \/ sig[free].variadic
      BY <1>2, <2>1, Zenon
    <2>3. v = [TakenBy(w, free, i) EXCEPT !.next = free + 1]
      BY <1>0, <1>1, <1>4, <1>8 DEF PlaceArg, TakenBy
    <2> QED
      BY <1>4, <2>1, <2>2, <2>3, TakenByIs
  <1>9. CASE call[i].name = "" /\ ~(IsVariadic(sig) /\ free >= Len(sig)) /\ ~(free <= Len(sig))
    BY <1>0, <1>1, <1>9 DEF PlaceArg
  <1> QED
    BY <1>5, <1>6, <1>7, <1>8, <1>9

LEMMA WalkStaysOK ==
  ASSUME NEW sig, SigOK(sig), NEW call, CallOK(call), NEW w, WalkOK(sig, call, w), NEW i \in DOMAIN call
  PROVE  /\ WalkOK(sig, call, PlaceArg(sig, call, w, i))
         /\ PlaceArg(sig, call, w, i).overflow >= w.overflow
  <1>1. PICK v : v = PlaceArg(sig, call, w, i)
    OBVIOUS
  <1>2. /\ w = [slots |-> w.slots, next |-> w.next, overflow |-> w.overflow]
        /\ w.slots \in [DOMAIN sig -> Seq(DOMAIN call)] /\ w.next \in 1 .. Len(sig) + 1 /\ w.overflow \in Nat
        /\ \A k \in DOMAIN sig : sig[k].variadic \/ Len(w.slots[k]) <= 1
    BY DEF WalkOK
  <1>3. CASE \E k \in DOMAIN sig : Takes(sig, w, k, i, v)
    <2>1. PICK k \in DOMAIN sig : Takes(sig, w, k, i, v)
      BY <1>3
    <2>2. PICK a : a = Append(w.slots[k], i)
      OBVIOUS
    <2>3. a \in Seq(DOMAIN call) /\ (w.slots[k] = << >> => Len(a) = 1)
      BY <1>2, <2>2
    <2>4. v.slots = [w.slots EXCEPT ![k] = a]
      BY <2>1, <2>2 DEF Takes
    <2>5. v.slots \in [DOMAIN sig -> Seq(DOMAIN call)]
      BY <1>2, <2>3, <2>4
    <2>6. \A n \in DOMAIN sig : sig[n].variadic \/ Len(v.slots[n]) <= 1
      BY <1>2, <2>1, <2>3, <2>4 DEF Takes
    <2>7. v.next \in 1 .. Len(sig) + 1 /\ v.overflow = w.overflow
          /\ v = [slots |-> v.slots, next |-> v.next, overflow |-> v.overflow]
      BY <2>1 DEF Takes
    <2> QED
      BY <1>1, <1>2, <2>5, <2>6, <2>7 DEF WalkOK
  <1>4. CASE v = [w EXCEPT !.overflow = @ + 1]
    <2>1. v = [slots |-> w.slots, next |-> w.next, overflow |-> w.overflow + 1]
      BY <1>2, <1>4
    <2> QED
      BY <1>1, <1>2, <2>1 DEF WalkOK
  <1> QED
    BY <1>1, <1>3, <1>4, Placing

LEMMA ArrangementOK ==
  ASSUME NEW sig, SigOK(sig), NEW call, CallOK(call)
  PROVE  WalkOK(sig, call, ArrangeParamArgs(sig, call))
  <1>0. Len(call) \in Nat /\ DOMAIN call = 1 .. Len(call)
    BY CallLen
  <1>1. PICK w : w = Arrangements(sig, call)
    OBVIOUS
  <1>2. WalkTo(w, sig, call, Len(call))
    BY <1>0, <1>1, ArrangementsWalk
  <1> DEFINE T == {m \in Nat : m <= Len(call) => WalkOK(sig, call, w[m])}
  <1>3. 0 \in T
    <2>1. w[0] = NothingPlaced(sig)
      BY <1>0, <1>2, WalkAt
    <2>2. Len(sig) \in Nat
      BY SigLen
    <2>3. PICK s : s = [k \in DOMAIN sig |-> << >>]
      OBVIOUS
    <2>4. s \in [DOMAIN sig -> Seq(DOMAIN call)] /\ \A k \in DOMAIN sig : Len(s[k]) <= 1
      BY <2>3
    <2>5. WalkOK(sig, call, [slots |-> s, next |-> 1, overflow |-> 0])
      BY <2>2, <2>4 DEF WalkOK
    <2> QED
      BY <2>1, <2>3, <2>5 DEF NothingPlaced
  <1>4. ASSUME NEW m \in Nat, m \in T PROVE m + 1 \in T
    <2> SUFFICES ASSUME m + 1 <= Len(call) PROVE WalkOK(sig, call, w[m + 1])
      OBVIOUS
    <2>1. PICK i : i = m + 1
      OBVIOUS
    <2>2. i \in DOMAIN call /\ i \in 0 .. Len(call) /\ i # 0 /\ i - 1 = m /\ m <= Len(call)
      BY <1>0, <2>1
    <2>3. w[i] = PlaceArg(sig, call, w[m], i)
      BY <1>2, <2>2, WalkAt
    <2>4. WalkOK(sig, call, w[m])
      BY <1>4, <2>2
    <2>5. WalkOK(sig, call, PlaceArg(sig, call, w[m], i))
      BY <2>2, <2>4, WalkStaysOK
    <2> QED
      BY <2>1, <2>3, <2>5
  <1> HIDE DEF T
  <1>5. Len(call) \in T
    BY <1>0, <1>3, <1>4, NatInduct
  <1> QED
    BY <1>0, <1>1, <1>5 DEF T, ArrangeParamArgs

LEMMA SlotsOK ==
  ASSUME NEW sig, SigOK(sig), NEW call, CallOK(call)
  PROVE  /\ Slots(sig, call) \in [DOMAIN sig -> Seq(DOMAIN call)]
         /\ \A k \in DOMAIN sig : sig[k].variadic \/ Len(Slots(sig, call)[k]) <= 1
  BY ArrangementOK DEF Slots, WalkOK

-----------------------------------------------------------------------------
(* What the lowering lays out for an overload is what the overload's
   parameters are promised. *)

OperandAt(sig, call, k) ==
  IF Slots(sig, call)[k] = << >> THEN sig[k].default ELSE call[Head(Slots(sig, call)[k])].value

CollectedAt(sig, call, n) == call[Slots(sig, call)[Len(sig)][n]].value

Collects(sig, call) == IF IsVariadic(sig) THEN Len(Slots(sig, call)[Len(sig)]) ELSE 0

LaidOut(sig, call, ops) ==
  /\ Fixed(sig) \in Nat /\ Collects(sig, call) \in Nat
  /\ Len(ops) = Fixed(sig) + Collects(sig, call) /\ DOMAIN ops = 1 .. Len(ops)
  /\ \E S : ops \in Seq(S)
  /\ \A k \in 1 .. Fixed(sig) : ops[k] = OperandAt(sig, call, k)
  /\ \A n \in 1 .. Collects(sig, call) : ops[Fixed(sig) + n] = CollectedAt(sig, call, n)

LEMMA Variadic ==
  ASSUME NEW sig, SigOK(sig)
  PROVE  /\ IsVariadic(sig) => Len(sig) # 0 /\ sig[Len(sig)].variadic /\ Fixed(sig) = Len(sig) - 1
         /\ ~IsVariadic(sig) => Fixed(sig) = Len(sig) /\ \A k \in DOMAIN sig : ~sig[k].variadic
         /\ \A k \in 1 .. Fixed(sig) : k \in DOMAIN sig /\ ~sig[k].variadic
         /\ Fixed(sig) \in Nat
  <1>1. Len(sig) \in Nat /\ DOMAIN sig = 1 .. Len(sig) /\ (sig # << >> => Len(sig) # 0)
    BY SigLen
  <1>2. \A k \in DOMAIN sig : sig[k].variadic => k = Len(sig)
    BY DEF SigOK
  <1>3. CASE IsVariadic(sig)
    <2>1. sig # << >> /\ sig[Len(sig)].variadic
      BY <1>3, Zenon DEF IsVariadic, Last
    <2>2. sig # << >>
      BY <2>1, Zenon
    <2>3. Len(sig) # 0 /\ Fixed(sig) = Len(sig) - 1
      BY <1>1, <1>3, <2>2 DEF Fixed
    <2>a. PICK n, f, d : n = Len(sig) /\ f = Fixed(sig) /\ d = DOMAIN sig
      OBVIOUS
    <2>b. n \in Nat /\ d = 1 .. n /\ f = n - 1
      BY <1>1, <2>3, <2>a, Zenon
    <2>c. \A k \in 1 .. f : k \in d /\ k # n
      BY <2>b
    <2>4. \A k \in 1 .. Fixed(sig) : k \in DOMAIN sig /\ k # Len(sig)
      BY <2>a, <2>c, Zenon
    <2>5. Fixed(sig) \in Nat
      BY <1>1, <2>3
    <2> QED
      BY <1>2, <1>3, <2>1, <2>3, <2>4, <2>5, Zenon
  <1>4. CASE ~IsVariadic(sig)
    <2>1. Fixed(sig) = Len(sig)
      BY <1>4 DEF Fixed
    <2>2. ASSUME NEW k \in DOMAIN sig PROVE ~sig[k].variadic
      <3> SUFFICES ASSUME sig[k].variadic PROVE FALSE
        OBVIOUS
      <3>1. k = Len(sig)
        BY <1>2
      <3>2. sig = << >>
        BY <1>4, <3>1, Zenon DEF IsVariadic, Last
      <3> QED
        BY <3>2
    <2> QED
      BY <1>1, <1>4, <2>1, <2>2
  <1> QED
    BY <1>3, <1>4

LEMMA Joined ==
  ASSUME NEW S, NEW f \in Seq(S), NEW g \in Seq(S)
  PROVE  /\ f \o g \in Seq(S) /\ Len(f \o g) = Len(f) + Len(g)
         /\ \A k \in 1 .. Len(f) : (f \o g)[k] = f[k]
         /\ \A k \in 1 .. Len(g) : (f \o g)[Len(f) + k] = g[k]
  OBVIOUS

LEMMA LayingOut ==
  ASSUME NEW sig, SigOK(sig), NEW call, CallOK(call), NEW ops, ops = LowerCallArgs(sig, call)
  PROVE  LaidOut(sig, call, ops)
  <1>1. PICK slots : slots = Slots(sig, call)
    OBVIOUS
  <1>2. slots \in [DOMAIN sig -> Seq(DOMAIN call)]
    BY <1>1, SlotsOK
  <1>3. PICK n \in Nat : n = Fixed(sig)
    BY Variadic
  <1>4. PICK f : f = [k \in 1 .. n |-> OperandAt(sig, call, k)]
    OBVIOUS
  <1>5. PICK S : S = {f[k] : k \in 1 .. n} \cup {call[i].value : i \in DOMAIN call}
    OBVIOUS
  <1>6. f \in Seq(S) /\ Len(f) = n
    BY <1>4, <1>5
  <1>7. ASSUME IsVariadic(sig) PROVE LaidOut(sig, call, ops)
    <2>1. PICK l : l = slots[Len(sig)]
      OBVIOUS
    <2>2. l \in Seq(DOMAIN call)
      BY <1>2, <1>7, <2>1, Variadic, SigLen
    <2>3. PICK g : g = [j \in 1 .. Len(l) |-> call[l[j]].value]
      OBVIOUS
    <2>4. DOMAIN l = 1 .. Len(l) /\ Len(l) \in Nat /\ \A j \in 1 .. Len(l) : l[j] \in DOMAIN call
      BY <2>2
    <2>5. \A j \in 1 .. Len(l) : g[j] \in S
      BY <1>5, <2>3, <2>4
    <2>6. g \in Seq(S) /\ Len(g) = Len(l)
      BY <2>3, <2>4, <2>5
    <2>a. f = [k \in 1 .. Fixed(sig) |->
                 IF Slots(sig, call)[k] = << >> THEN sig[k].default
                 ELSE call[Head(Slots(sig, call)[k])].value]
      BY <1>3, <1>4, Zenon DEF OperandAt
    <2>b. g = [j \in DOMAIN Slots(sig, call)[Len(sig)] |-> call[Slots(sig, call)[Len(sig)][j]].value]
      BY <1>1, <2>1, <2>3, <2>4, Zenon
    <2>7. ops = f \o g
      <3>1. PICK h : h = IF IsVariadic(sig)
                         THEN [j \in DOMAIN Slots(sig, call)[Len(sig)] |-> call[Slots(sig, call)[Len(sig)][j]].value]
                         ELSE << >>
        OBVIOUS
      <3>2. h = g
        BY <1>7, <2>b, <3>1, Zenon
      <3>3. ops = f \o h
        BY <2>a, <3>1, Zenon DEF LowerCallArgs
      <3> QED
        BY <3>2, <3>3, Zenon
    <2>8. /\ ops \in Seq(S) /\ Len(ops) = n + Len(l)
          /\ \A k \in 1 .. n : ops[k] = f[k]
          /\ \A j \in 1 .. Len(l) : ops[n + j] = g[j]
      <3>1. /\ f \o g \in Seq(S) /\ Len(f \o g) = Len(f) + Len(g)
            /\ \A k \in 1 .. Len(f) : (f \o g)[k] = f[k]
            /\ \A j \in 1 .. Len(g) : (f \o g)[Len(f) + j] = g[j]
        BY <1>6, <2>6, Joined
      <3>2. PICK a, b : a = Len(f) /\ b = Len(g)
        OBVIOUS
      <3>3. a = n /\ b = Len(l)
        BY <1>6, <2>6, <3>2, Zenon
      <3>4. /\ ops \in Seq(S) /\ Len(ops) = a + b
            /\ \A k \in 1 .. a : ops[k] = f[k]
            /\ \A j \in 1 .. b : ops[a + j] = g[j]
        BY <2>7, <3>1, <3>2, Zenon
      <3> QED
        BY <3>3, <3>4, Zenon
    <2>11. Collects(sig, call) = Len(l)
      BY <1>1, <1>7, <2>1 DEF Collects
    <2>12. \A j \in 1 .. Len(l) : g[j] = CollectedAt(sig, call, j)
      BY <1>1, <2>1, <2>3 DEF CollectedAt
    <2>13. DOMAIN ops = 1 .. Len(ops) /\ \E V : ops \in Seq(V)
      BY <2>8
    <2>14. \A k \in 1 .. Fixed(sig) : ops[k] = OperandAt(sig, call, k)
      BY <1>3, <1>4, <2>8
    <2>15. \A j \in 1 .. Collects(sig, call) : ops[Fixed(sig) + j] = CollectedAt(sig, call, j)
      BY <1>3, <2>8, <2>11, <2>12
    <2>16. /\ Fixed(sig) \in Nat /\ Collects(sig, call) \in Nat
           /\ Len(ops) = Fixed(sig) + Collects(sig, call)
      BY <1>3, <2>4, <2>8, <2>11
    <2> QED
      BY <2>13, <2>14, <2>15, <2>16, Zenon DEF LaidOut
  <1>8. ASSUME ~IsVariadic(sig) PROVE LaidOut(sig, call, ops)
    <2>1. ops = f \o << >>
      BY <1>1, <1>3, <1>4, <1>8 DEF LowerCallArgs, OperandAt
    <2>2. ops = f
      BY <1>6, <2>1
    <2>3. Collects(sig, call) = 0
      BY <1>8 DEF Collects
    <2> QED
      BY <1>3, <1>4, <1>6, <2>2, <2>3 DEF LaidOut
  <1> QED
    BY <1>7, <1>8

LEMMA KeepsPromise ==
  ASSUME NEW sig, SigOK(sig), NEW call, CallOK(call), NEW ops, LaidOut(sig, call, ops)
  PROVE  NormalizeCallArgs(sig, ops) = PromisedBy(sig, call)
  <1>1. PICK slots : slots = Slots(sig, call)
    OBVIOUS
  <1>2. slots \in [DOMAIN sig -> Seq(DOMAIN call)] /\ \A k \in DOMAIN sig : sig[k].variadic \/ Len(slots[k]) <= 1
    BY <1>1, SlotsOK
  <1>3. Len(sig) \in Nat /\ DOMAIN sig = 1 .. Len(sig)
    BY SigLen
  <1>4. /\ Fixed(sig) \in Nat /\ Collects(sig, call) \in Nat
        /\ Len(ops) = Fixed(sig) + Collects(sig, call) /\ DOMAIN ops = 1 .. Len(ops)
        /\ \A k \in 1 .. Fixed(sig) : ops[k] = OperandAt(sig, call, k)
        /\ \A n \in 1 .. Collects(sig, call) : ops[Fixed(sig) + n] = CollectedAt(sig, call, n)
    BY DEF LaidOut
  <1>5. ASSUME NEW k \in DOMAIN sig, ~sig[k].variadic
        PROVE  (IF k <= Len(ops) THEN <<ops[k]>> ELSE <<sig[k].default>>)
               = IF slots[k] = << >> THEN <<sig[k].default>>
                 ELSE [n \in DOMAIN slots[k] |-> call[slots[k][n]].value]
    <2>1. k \in 1 .. Fixed(sig)
      <3>1. IsVariadic(sig) => k # Len(sig) /\ Fixed(sig) = Len(sig) - 1
        BY <1>5, Variadic
      <3>2. ~IsVariadic(sig) => Fixed(sig) = Len(sig)
        BY Variadic
      <3>3. PICK m, f : m = Len(sig) /\ f = Fixed(sig)
        OBVIOUS
      <3>4. m \in Nat /\ k \in 1 .. m /\ ((k # m /\ f = m - 1) \/ f = m)
        BY <1>3, <3>1, <3>2, <3>3, Zenon
      <3> QED
        BY <3>3, <3>4
    <2>2. k <= Len(ops) /\ ops[k] = OperandAt(sig, call, k)
      BY <1>4, <2>1
    <2>3. CASE slots[k] = << >>
      BY <1>1, <2>2, <2>3 DEF OperandAt
    <2>4. CASE slots[k] # << >>
      <3>1. PICK l : l = slots[k]
        OBVIOUS
      <3>2. l \in Seq(DOMAIN call) /\ Len(l) <= 1 /\ l # << >>
        BY <1>2, <1>5, <2>4, <3>1
      <3>3. DOMAIN l = 1 .. 1 /\ Head(l) = l[1]
        BY <3>2
      <3>4. ops[k] = call[l[1]].value
        BY <1>1, <2>2, <2>4, <3>1, <3>3 DEF OperandAt
      <3>5. [n \in DOMAIN l |-> call[l[n]].value] = <<call[l[1]].value>>
        BY <3>3
      <3> QED
        BY <2>2, <2>4, <3>1, <3>4, <3>5
    <2> QED
      BY <2>3, <2>4
  <1>6. ASSUME NEW k \in DOMAIN sig, sig[k].variadic
        PROVE  SubSeq(ops, k, Len(ops))
               = IF slots[k] = << >> THEN << >> ELSE [n \in DOMAIN slots[k] |-> call[slots[k][n]].value]
    <2>1. k = Len(sig) /\ IsVariadic(sig) /\ k # 0 /\ Fixed(sig) = k - 1
      <3>1. k = Len(sig)
        BY <1>6 DEF SigOK
      <3>2. IsVariadic(sig)
        BY <1>6, Variadic
      <3> QED
        BY <3>1, <3>2, Variadic
    <2>2. PICK l : l = slots[k]
      OBVIOUS
    <2>3. l \in Seq(DOMAIN call) /\ k \in Nat
      BY <1>2, <1>3, <2>2
    <2>4. Collects(sig, call) = Len(l)
      BY <1>1, <2>1, <2>2 DEF Collects
    <2>5. PICK S : ops \in Seq(S)
      BY DEF LaidOut
    <2>6. PICK m : m = Len(l)
      OBVIOUS
    <2>7. m \in Nat /\ DOMAIN l = 1 .. m /\ Len(ops) = k - 1 + m
      BY <1>4, <2>1, <2>3, <2>4, <2>6
    <2>8. PICK s : s = SubSeq(ops, k, Len(ops))
      OBVIOUS
    <2>9. \A n \in 1 .. m : ops[k - 1 + n] = call[l[n]].value
      BY <1>1, <1>4, <2>1, <2>2, <2>4, <2>6 DEF CollectedAt
    <2>10. /\ DOMAIN s = 1 .. m
           /\ \A n \in 1 .. m : s[n] = ops[k - 1 + n]
           /\ s \in Seq(S)
      BY <2>1, <2>3, <2>5, <2>7, <2>8
    <2>11. CASE l = << >>
      <3>1. m = 0
        BY <2>6, <2>11
      <3>2. s = << >>
        BY <2>10, <3>1
      <3> QED
        BY <2>2, <2>8, <2>11, <3>2
    <2>12. CASE l # << >>
      <3>1. s = [n \in 1 .. m |-> call[l[n]].value]
        BY <2>9, <2>10
      <3> QED
        BY <2>2, <2>7, <2>8, <2>12, <3>1
    <2> QED
      BY <2>11, <2>12
  <1>7. ASSUME NEW k \in DOMAIN sig
        PROVE  (IF sig[k].variadic THEN SubSeq(ops, k, Len(ops))
                ELSE IF k <= Len(ops) THEN <<ops[k]>> ELSE <<sig[k].default>>)
               = IF slots[k] = << >>
                 THEN IF sig[k].variadic THEN << >> ELSE <<sig[k].default>>
                 ELSE [n \in DOMAIN slots[k] |-> call[slots[k][n]].value]
    <2>1. CASE sig[k].variadic
      BY <1>6, <2>1, Zenon
    <2>2. CASE ~sig[k].variadic
      BY <1>5, <2>2, Zenon
    <2> QED
      BY <2>1, <2>2
  <1>8. PICK F : F = [k \in DOMAIN sig |->
                        IF sig[k].variadic THEN SubSeq(ops, k, Len(ops))
                        ELSE IF k <= Len(ops) THEN <<ops[k]>> ELSE <<sig[k].default>>]
    OBVIOUS
  <1>9. PICK G : G = [k \in DOMAIN sig |->
                        IF slots[k] = << >>
                        THEN IF sig[k].variadic THEN << >> ELSE <<sig[k].default>>
                        ELSE [n \in DOMAIN slots[k] |-> call[slots[k][n]].value]]
    OBVIOUS
  <1>10. F = G
    BY <1>7, <1>8, <1>9, Zenon
  <1> QED
    BY <1>1, <1>8, <1>9, <1>10, Zenon DEF NormalizeCallArgs, PromisedBy

-----------------------------------------------------------------------------
(* The overload that the operands were laid out for accepts them when it has
   no variadic parameter, or the checker accepted it and takes none as Any. *)

LEMMA MinOfTwo ==
  ASSUME NEW a \in Nat, NEW b \in Nat
  PROVE  Min({a, b}) = IF a <= b THEN a ELSE b
  <1>1. PICK S : S = {a, b}
    OBVIOUS
  <1>2. Min(S) \in S /\ \A y \in S : Min(S) <= y
    BY <1>1, MinOf
  <1> QED
    BY <1>1, <1>2

LEMMA OperandsMatch ==
  ASSUME NEW sig, SigOK(sig), NEW call, CallOK(call), CheckScore(sig, call) # << >>, ~TakesAny(sig, call),
         NEW ops, LaidOut(sig, call, ops), NEW i \in 1 .. Len(ops), i <= Len(sig) \/ IsVariadic(sig)
  PROVE  ArgMatchesType(ops[i], sig[Min({i, Len(sig)})].type)
  <1>1. PICK slots : slots = Slots(sig, call)
    OBVIOUS
  <1>2. slots \in [DOMAIN sig -> Seq(DOMAIN call)]
    BY <1>1, SlotsOK
  <1>3. Len(sig) \in Nat /\ DOMAIN sig = 1 .. Len(sig)
    BY SigLen
  <1>4. Arranges(sig, call)
        /\ \A p \in {q \in (DOMAIN call) \X (DOMAIN sig) : q[1] \in Range(slots[q[2]])} :
             ArgAssignable(call[p[1]].type, sig[p[2]].type)
    BY <1>1 DEF CheckScore
  <1>5. ASSUME NEW k \in DOMAIN sig, NEW n \in DOMAIN slots[k]
        PROVE  ArgMatchesType(call[slots[k][n]].value, sig[k].type)
    <2>0. sig[k].type # "Any"
      <3>1. PICK l : l = slots[k]
        OBVIOUS
      <3>2. l \in Seq(DOMAIN call) /\ n \in DOMAIN l
        BY <1>2, <3>1
      <3>3. l # << >>
        BY <3>2
      <3> QED
        BY <1>1, <3>1, <3>3 DEF TakesAny
    <2>1. PICK a : a = slots[k][n]
      OBVIOUS
    <2>2. a \in DOMAIN call /\ a \in Range(slots[k])
      BY <1>2, <2>1 DEF Range
    <2>3. ArgAssignable(call[a].type, sig[k].type)
      <3>1. PICK p : p = <<a, k>>
        OBVIOUS
      <3>2. p \in (DOMAIN call) \X (DOMAIN sig) /\ p[1] = a /\ p[2] = k
        BY <2>2, <3>1
      <3> QED
        BY <1>4, <2>2, <3>2
    <2>4. call[a].type \in {"Any", TypeOf[call[a].value]}
      BY <2>2 DEF CallOK
    <2> QED
      BY <2>0, <2>1, <2>3, <2>4 DEF ArgMatchesType, ArgAssignable
  <1>6. /\ Fixed(sig) \in Nat /\ Collects(sig, call) \in Nat
        /\ Len(ops) = Fixed(sig) + Collects(sig, call)
        /\ \A k \in 1 .. Fixed(sig) : ops[k] = OperandAt(sig, call, k)
        /\ \A n \in 1 .. Collects(sig, call) : ops[Fixed(sig) + n] = CollectedAt(sig, call, n)
    BY DEF LaidOut
  <1>7. CASE i <= Fixed(sig)
    <2>1. i \in DOMAIN sig /\ ~sig[i].variadic /\ i <= Len(sig) /\ i \in Nat
      BY <1>3, <1>6, <1>7, Variadic
    <2>2. Min({i, Len(sig)}) = i
      BY <1>3, <2>1, MinOfTwo
    <2>3. ops[i] = OperandAt(sig, call, i)
      BY <1>6, <1>7
    <2>4. CASE slots[i] = << >>
      <3>1. HasDefault(sig[i])
        BY <1>1, <1>4, <2>1, <2>4, Zenon DEF Arranges
      <3>2. ArgAssignable(TypeOf[sig[i].default], sig[i].type)
        BY <2>1, <3>1, Zenon DEF SigOK
      <3>3. sig[i].type # "Any"
        BY <2>1 DEF TakesAny
      <3> QED
        BY <1>1, <2>2, <2>3, <2>4, <3>2, <3>3 DEF OperandAt, ArgMatchesType, ArgAssignable
    <2>5. CASE slots[i] # << >>
      <3>1. PICK l : l = slots[i]
        OBVIOUS
      <3>2. l \in Seq(DOMAIN call) /\ l # << >>
        BY <1>2, <2>1, <2>5, <3>1
      <3>3. 1 \in DOMAIN l /\ Head(l) = l[1]
        BY <3>2
      <3>4. ops[i] = call[l[1]].value
        BY <1>1, <2>3, <2>5, <3>1, <3>3 DEF OperandAt
      <3> QED
        BY <1>5, <2>1, <2>2, <3>1, <3>3, <3>4
    <2> QED
      BY <2>4, <2>5
  <1>8. CASE ~(i <= Fixed(sig))
    <2>1. IsVariadic(sig)
      BY <1>3, <1>8, Variadic
    <2>2. Fixed(sig) = Len(sig) - 1 /\ Len(sig) # 0
      BY <2>1, Variadic
    <2>3. PICK m, n : m = Len(sig) /\ n = i - (m - 1)
      OBVIOUS
    <2>4. m \in Nat /\ m # 0 /\ Fixed(sig) = m - 1 /\ DOMAIN sig = 1 .. m
      BY <1>3, <2>2, <2>3, Zenon
    <2>5. n \in 1 .. Collects(sig, call) /\ i = Fixed(sig) + n /\ m <= i /\ m \in DOMAIN sig
      BY <1>6, <1>8, <2>3, <2>4
    <2>6. PICK l : l = slots[m]
      OBVIOUS
    <2>7. Collects(sig, call) = Len(l)
      BY <1>1, <2>1, <2>3, <2>6 DEF Collects
    <2>8. n \in DOMAIN l
      BY <1>2, <2>5, <2>6, <2>7
    <2>9. ops[i] = call[l[n]].value
      BY <1>1, <1>6, <2>3, <2>5, <2>6 DEF CollectedAt
    <2>10. Min({i, m}) = m
      BY <2>4, <2>5, MinOfTwo
    <2>11. ArgMatchesType(call[l[n]].value, sig[m].type)
      BY <1>5, <2>5, <2>6, <2>8
    <2> QED
      BY <2>3, <2>9, <2>10, <2>11, Zenon
  <1> QED
    BY <1>7, <1>8

-----------------------------------------------------------------------------
(* What can be ranked, and that the ranks have a best one. *)

Score(s) == s = << >> \/ \E x \in Int : s = <<x>>

LEMMA RangeIsFinite ==
  ASSUME NEW n \in Nat
  PROVE  IsFiniteSet(1 .. n) /\ Cardinality(1 .. n) = n
  BY FS_Interval

LEMMA SubsetOfRange ==
  ASSUME NEW n \in Nat, NEW S, S \subseteq 1 .. n
  PROVE  IsFiniteSet(S) /\ Cardinality(S) \in Nat /\ Cardinality(S) <= n
  <1>1. IsFiniteSet(1 .. n) /\ Cardinality(1 .. n) = n
    BY FS_Interval
  <1> QED
    BY <1>1, FS_Subset, FS_CardinalityType

LEMMA ArityScored ==
  ASSUME NEW sig, SigOK(sig), NEW call, CallOK(call)
  PROVE  /\ Score(MethodCallArityScore(sig, call))
         /\ MethodCallArityScore(sig, call) # << >> <=> Arranges(sig, call)
  <1>1. Len(sig) \in Nat /\ DOMAIN sig = 1 .. Len(sig)
    BY SigLen
  <1>2. Len(call) \in Nat
    BY CallLen
  <1>3. PICK omitted : omitted = Cardinality({k \in DOMAIN sig : Slots(sig, call)[k] = << >>})
    OBVIOUS
  <1>4. omitted \in Nat
    BY <1>1, <1>3, SubsetOfRange
  <1>5. PICK s : s = MethodCallArityScore(sig, call)
    OBVIOUS
  <1>6. CASE ~Arranges(sig, call)
    BY <1>6 DEF MethodCallArityScore, Score
  <1>7. CASE Arranges(sig, call)
    <2>1. s \in {<<400 + Len(sig)>>, <<300 - omitted>>, <<200 + Len(call)>>, <<100 - omitted>>}
      <3>1. PICK a : a = IF omitted = 0 THEN 400 + Len(sig) ELSE 300 - omitted
        OBVIOUS
      <3>2. a = 400 + Len(sig) \/ a = 300 - omitted
        BY <3>1, Zenon
      <3>3. s = IF ~IsVariadic(sig) THEN <<a>>
                ELSE IF Slots(sig, call)[Len(sig)] # << >> THEN <<200 + Len(call)>> ELSE <<100 - omitted>>
        BY <1>3, <1>5, <1>7, <3>1, Zenon DEF MethodCallArityScore
      <3>4. s \in {<<a>>, <<200 + Len(call)>>, <<100 - omitted>>}
        BY <3>3, Zenon
      <3> QED
        BY <3>2, <3>4, Zenon
    <2>2. PICK n, m : n = Len(sig) /\ m = Len(call)
      OBVIOUS
    <2>3. s \in {<<400 + n>>, <<300 - omitted>>, <<200 + m>>, <<100 - omitted>>} /\ n \in Nat /\ m \in Nat
      BY <1>1, <1>2, <2>1, <2>2, Zenon
    <2>4. \E x \in Int : s = <<x>>
      BY <1>4, <2>3
    <2>5. s # << >>
      BY <2>4
    <2> QED
      BY <1>5, <1>7, <2>4, <2>5, Zenon DEF Score
  <1> QED
    BY <1>6, <1>7

RuntimeMatches(sig, ops) ==
  {i \in DOMAIN ops : i <= Len(sig) /\ ArgMatchesType(ops[i], sig[Min({i, Len(sig)})].type)}

LEMMA RuntimeScoreVariadic ==
  ASSUME NEW sig, NEW ops, IsVariadic(sig)
  PROVE  RuntimeScore(sig, ops) =
           IF DefaultsFrom(sig, Len(ops) + 1)
              /\ \A i \in DOMAIN ops : ArgMatchesType(ops[i], sig[Min({i, Len(sig)})].type)
           THEN <<9 + 3 * Len(ops)>>
           ELSE << >>
  BY Zenon DEF RuntimeScore

LEMMA RuntimeScoreFixed ==
  ASSUME NEW sig, NEW ops, ~IsVariadic(sig)
  PROVE  RuntimeScore(sig, ops) =
           IF Len(ops) = Len(sig) THEN <<10 + 2 * Cardinality(RuntimeMatches(sig, ops))>>
           ELSE IF Len(ops) < Len(sig) /\ DefaultsFrom(sig, Len(ops) + 1)
                THEN <<8 + 2 * Cardinality(RuntimeMatches(sig, ops))>>
                ELSE << >>
  BY Zenon DEF RuntimeScore, RuntimeMatches

LEMMA RuntimeScored ==
  ASSUME NEW sig, NEW ops, Len(ops) \in Nat, DOMAIN ops = 1 .. Len(ops)
  PROVE  Score(RuntimeScore(sig, ops))
  <1>1. PICK n \in Nat : n = Len(ops) /\ DOMAIN ops = 1 .. n
    OBVIOUS
  <1>3. PICK b : b = Cardinality(RuntimeMatches(sig, ops))
    OBVIOUS
  <1>5. b \in Nat
    <2>1. RuntimeMatches(sig, ops) \subseteq 1 .. n
      BY <1>1 DEF RuntimeMatches
    <2> QED
      BY <1>3, <2>1, SubsetOfRange
  <1>6. PICK s : s = RuntimeScore(sig, ops)
    OBVIOUS
  <1>7. s \in {<< >>, <<9 + 3 * n>>, <<10 + 2 * b>>, <<8 + 2 * b>>}
    <2>1. CASE IsVariadic(sig)
      <3>1. s \in {<< >>, <<9 + 3 * n>>}
        BY <1>1, <1>6, <2>1, RuntimeScoreVariadic, Zenon
      <3> QED
        BY <3>1, Zenon
    <2>2. CASE ~IsVariadic(sig)
      <3>1. s \in {<< >>, <<10 + 2 * b>>, <<8 + 2 * b>>}
        BY <1>3, <1>6, <2>2, RuntimeScoreFixed, Zenon
      <3> QED
        BY <3>1, Zenon
    <2> QED
      BY <2>1, <2>2
  <1>8. s = << >> \/ \E x \in Int : s = <<x>>
    BY <1>5, <1>7
  <1> QED
    BY <1>6, <1>8 DEF Score

LEMMA TargetAccepts ==
  ASSUME NEW sig, SigOK(sig), NEW call, CallOK(call), NEW ops, LaidOut(sig, call, ops),
         ~IsVariadic(sig) \/ (CheckScore(sig, call) # << >> /\ ~TakesAny(sig, call))
  PROVE  RuntimeScore(sig, ops) # << >>
  <1>1. /\ Fixed(sig) \in Nat /\ Collects(sig, call) \in Nat
        /\ Len(ops) = Fixed(sig) + Collects(sig, call) /\ DOMAIN ops = 1 .. Len(ops)
    BY DEF LaidOut
  <1>2. CASE ~IsVariadic(sig)
    <2>1. Len(ops) = Len(sig)
      BY <1>1, <1>2, Variadic DEF Collects
    <2>2. RuntimeScore(sig, ops) = <<10 + 2 * Cardinality(RuntimeMatches(sig, ops))>>
      BY <1>2, <2>1, RuntimeScoreFixed, Zenon
    <2> QED
      BY <2>2
  <1>3. CASE IsVariadic(sig)
    <2>1. DefaultsFrom(sig, Len(ops) + 1)
      <3>1. PICK f, n : f = Fixed(sig) /\ n = Len(ops)
        OBVIOUS
      <3>2. f \in Nat /\ n \in Nat /\ f <= n
        BY <1>1, <3>1
      <3>3. n + 1 .. f = {}
        BY <3>2
      <3> QED
        BY <3>1, <3>3 DEF DefaultsFrom
    <2>2. \A i \in DOMAIN ops : ArgMatchesType(ops[i], sig[Min({i, Len(sig)})].type)
      BY <1>1, <1>3, OperandsMatch
    <2>3. RuntimeScore(sig, ops) = <<9 + 3 * Len(ops)>>
      BY <1>3, <2>1, <2>2, RuntimeScoreVariadic, Zenon
    <2> QED
      BY <2>3
  <1> QED
    BY <1>2, <1>3

SigsOK(sigs) == sigs \in Seq(Seq(Parameter)) /\ \A k \in DOMAIN sigs : SigOK(sigs[k])

LEMMA SigsLen ==
  ASSUME NEW sigs, SigsOK(sigs)
  PROVE  Len(sigs) \in Nat /\ DOMAIN sigs = 1 .. Len(sigs)
  <1>1. PICK S : sigs \in Seq(S)
    BY Zenon DEF SigsOK
  <1> QED
    BY <1>1

LEMMA BestAmong ==
  ASSUME NEW n \in Nat, NEW score, DOMAIN score = 1 .. n, \A k \in 1 .. n : Score(score[k])
  PROVE  /\ Best(score) \subseteq {k \in 1 .. n : score[k] # << >>}
         /\ (\E k \in 1 .. n : score[k] # << >>) => Best(score) # {} /\ Min(Best(score)) \in Best(score)
  <1>1. Scores(score, n)
    BY DEF Scores, Score
  <1>2. /\ Best(score) \subseteq {k \in 1 .. n : score[k] # << >>}
        /\ (\E k \in 1 .. n : score[k] # << >>) => Best(score) # {}
    BY <1>1, BestOf
  <1> QED
    BY <1>2, MinOf

LEMMA TargetArranges ==
  ASSUME NEW sigs, SigsOK(sigs), NEW call, CallOK(call), NEW k \in DOMAIN sigs, Arranges(sigs[k], call),
         NEW target, target = Min(ArityCandidates(sigs, call))
  PROVE  target \in DOMAIN sigs /\ Arranges(sigs[target], call)
  <1>1. PICK n \in Nat : n = Len(sigs) /\ DOMAIN sigs = 1 .. n
    BY SigsLen
  <1>2. PICK score : score = [j \in DOMAIN sigs |-> MethodCallArityScore(sigs[j], call)]
    OBVIOUS
  <1>3. \A j \in DOMAIN sigs : /\ Score(score[j])
                               /\ score[j] # << >> <=> Arranges(sigs[j], call)
    BY <1>2, ArityScored DEF SigsOK
  <1>4. ArityCandidates(sigs, call) = Best(score)
    BY <1>2, Zenon DEF ArityCandidates
  <1>5. DOMAIN score = 1 .. n
    BY <1>1, <1>2
  <1>6. target \in Best(score) /\ Best(score) \subseteq {j \in 1 .. n : score[j] # << >>}
    BY <1>1, <1>3, <1>4, <1>5, BestAmong
  <1> QED
    BY <1>1, <1>3, <1>6

LEMMA SomeRuns ==
  ASSUME NEW sigs, SigsOK(sigs), NEW ops, Len(ops) \in Nat, DOMAIN ops = 1 .. Len(ops),
         NEW k \in DOMAIN sigs, RuntimeScore(sigs[k], ops) # << >>
  PROVE  RuntimeCandidates(sigs, ops) # {}
  <1>1. PICK n \in Nat : n = Len(sigs) /\ DOMAIN sigs = 1 .. n
    BY SigsLen
  <1>2. PICK score : score = [j \in DOMAIN sigs |-> RuntimeScore(sigs[j], ops)]
    OBVIOUS
  <1>3. \A j \in 1 .. n : Score(score[j])
    BY <1>1, <1>2, RuntimeScored
  <1>4. DOMAIN score = 1 .. n /\ score[k] # << >>
    BY <1>1, <1>2
  <1>5. Best(score) # {}
    BY <1>1, <1>3, <1>4, BestAmong
  <1> QED
    BY <1>2, <1>5, Zenon DEF RuntimeCandidates

-----------------------------------------------------------------------------
(* A call by position of overloads without defaults, variadic parameters and
   Any: every parameter takes the argument in its place. *)

PlainSig(sig) ==
  /\ SigOK(sig)
  /\ \A k \in DOMAIN sig : ~sig[k].variadic /\ ~HasDefault(sig[k]) /\ sig[k].type # "Any"

PlainArgs(call) ==
  /\ CallOK(call)
  /\ \A i \in DOMAIN call : call[i].name = "" /\ call[i].type # "Any"

InOrder(sig, w, m) ==
  /\ w.slots = [k \in DOMAIN sig |-> IF k <= m THEN <<k>> ELSE << >>]
  /\ w.next = m + 1 /\ w.overflow = 0

LEMMA PlainNotVariadic ==
  ASSUME NEW sig, PlainSig(sig)
  PROVE  ~IsVariadic(sig)
  <1> SUFFICES ASSUME IsVariadic(sig) PROVE FALSE
    OBVIOUS
  <1>1. SigOK(sig)
    BY DEF PlainSig
  <1>2. Len(sig) # 0 /\ sig[Len(sig)].variadic
    BY <1>1, Variadic
  <1>3. Len(sig) \in DOMAIN sig
    BY <1>1, <1>2, SigLen
  <1> QED
    BY <1>2, <1>3 DEF PlainSig

LEMMA PlacedInOrder ==
  ASSUME NEW sig, PlainSig(sig), NEW call, PlainArgs(call), NEW w, WalkOK(sig, call, w),
         NEW m \in Nat, InOrder(sig, w, m), NEW i \in DOMAIN call, i = m + 1, i <= Len(sig)
  PROVE  InOrder(sig, PlaceArg(sig, call, w, i), i)
  <1>0. SigOK(sig) /\ CallOK(call) /\ call[i].name = ""
    BY DEF PlainSig, PlainArgs
  <1>1. ~IsVariadic(sig)
    BY PlainNotVariadic
  <1>2. PICK n \in Nat : n = Len(sig) /\ DOMAIN sig = 1 .. n
    BY <1>0, SigLen
  <1>3. PICK s : s = w.slots
    OBVIOUS
  <1>4. /\ s = [k \in 1 .. n |-> IF k <= m THEN <<k>> ELSE << >>]
        /\ w.next = i /\ w.overflow = 0 /\ i \in 1 .. n
    BY <1>2, <1>3 DEF InOrder
  <1>5. NextFree(sig, s, i) = i
    <2>1. PICK free : free = NextFree(sig, s, i)
      OBVIOUS
    <2>2. i \in 1 .. Len(sig) + 1 /\ i \in i .. Len(sig) /\ s[i] = << >>
      BY <1>2, <1>4
    <2>3. free \in i .. Len(sig) + 1 /\ free <= i
      BY <1>0, <2>1, <2>2, NextFreeIs
    <2> QED
      BY <2>1, <2>2, <2>3
  <1>6. PICK v : v = PlaceArg(sig, call, w, i)
    OBVIOUS
  <1>7. v = [TakenBy(w, i, i) EXCEPT !.next = i + 1]
    <2>1. i <= Len(sig) /\ NextFree(sig, w.slots, w.next) = i
      BY <1>3, <1>4, <1>5
    <2> QED
      BY <1>0, <1>1, <1>6, <2>1 DEF PlaceArg, TakenBy
  <1>8. i + 1 \in 1 .. Len(sig) + 1 /\ i \in DOMAIN sig /\ s[i] = << >>
    BY <1>2, <1>4
  <1>9. Takes(sig, w, i, i, v)
    BY <1>3, <1>7, <1>8, TakenByIs
  <1>10. v.next = i + 1
    <2>1. PICK u : u = TakenBy(w, i, i) /\ Takes(sig, w, i, i, u)
      BY <1>3, <1>8, TakenByIs
    <2>2. u = [slots |-> u.slots, next |-> u.next, overflow |-> u.overflow]
      BY <2>1 DEF Takes
    <2> QED
      BY <1>7, <2>1, <2>2
  <1>11. v.slots = [s EXCEPT ![i] = Append(s[i], i)] /\ v.overflow = 0
    BY <1>3, <1>4, <1>9 DEF Takes
  <1>12. Append(s[i], i) = <<i>>
    BY <1>8
  <1>13. v.slots = [k \in 1 .. n |-> IF k <= i THEN <<k>> ELSE << >>]
    <2>1. PICK z : z = [k \in 1 .. n |-> IF k <= i THEN <<k>> ELSE << >>]
      OBVIOUS
    <2>2. PICK t, e : t = v.slots /\ e = <<i>>
      OBVIOUS
    <2>3. t = [s EXCEPT ![i] = e]
      BY <1>11, <1>12, <2>2, Zenon
    <2>4. ASSUME NEW k \in 1 .. n PROVE t[k] = z[k]
      <3>1. CASE k = i
        BY <1>4, <2>1, <2>2, <2>3, <3>1
      <3>2. CASE k # i
        <4>1. k <= i <=> k <= m
          BY <1>4, <3>2
        <4>2. t[k] = s[k]
          BY <1>4, <2>3, <3>2
        <4> QED
          BY <1>4, <2>1, <4>1, <4>2
      <3> QED
        BY <3>1, <3>2
    <2>5. t = z
      BY <1>4, <2>1, <2>3, <2>4
    <2> QED
      BY <2>1, <2>2, <2>5
  <1> QED
    BY <1>2, <1>6, <1>10, <1>11, <1>13 DEF InOrder

LEMMA OneTooMany ==
  ASSUME NEW sig, PlainSig(sig), NEW call, PlainArgs(call), NEW w, WalkOK(sig, call, w),
         InOrder(sig, w, Len(sig)), NEW i \in DOMAIN call
  PROVE  PlaceArg(sig, call, w, i).overflow = 1
  <1>0. SigOK(sig) /\ CallOK(call) /\ call[i].name = ""
    BY DEF PlainSig, PlainArgs
  <1>1. ~IsVariadic(sig)
    BY PlainNotVariadic
  <1>2. PICK n \in Nat : n = Len(sig)
    BY <1>0, SigLen
  <1>3. PICK s : s = w.slots
    OBVIOUS
  <1>4. w.next = n + 1 /\ w.overflow = 0
    BY <1>2 DEF InOrder
  <1>5. NextFree(sig, s, n + 1) = n + 1
    <2>1. n + 1 \in 1 .. Len(sig) + 1
      BY <1>2
    <2>2. PICK free, m : free = NextFree(sig, s, m) /\ m = n + 1
      OBVIOUS
    <2>3. free \in m .. Len(sig) + 1
      BY <1>0, <2>1, <2>2, NextFreeIs
    <2> QED
      BY <1>2, <2>2, <2>3
  <1>6. ~(NextFree(sig, w.slots, w.next) <= Len(sig))
    BY <1>2, <1>3, <1>4, <1>5
  <1>7. PlaceArg(sig, call, w, i) = [w EXCEPT !.overflow = @ + 1]
    BY <1>0, <1>1, <1>6 DEF PlaceArg
  <1>8. w = [slots |-> w.slots, next |-> w.next, overflow |-> w.overflow]
    BY DEF WalkOK
  <1> QED
    BY <1>4, <1>7, <1>8

LEMMA PlainPlaces ==
  ASSUME NEW sig, PlainSig(sig), NEW call, PlainArgs(call)
  PROVE  /\ Len(call) <= Len(sig) => InOrder(sig, ArrangeParamArgs(sig, call), Len(call))
         /\ Len(call) > Len(sig) => ArrangeParamArgs(sig, call).overflow > 0
  <1>0. SigOK(sig) /\ CallOK(call)
    BY DEF PlainSig, PlainArgs
  <1>1. PICK n \in Nat : n = Len(sig) /\ DOMAIN sig = 1 .. n
    BY <1>0, SigLen
  <1>2. PICK c \in Nat : c = Len(call) /\ DOMAIN call = 1 .. c
    BY <1>0, CallLen
  <1>3. PICK w : w = Arrangements(sig, call)
    OBVIOUS
  <1>4. WalkTo(w, sig, call, c)
    BY <1>2, <1>3, ArrangementsWalk
  <1> DEFINE Placed(m) == /\ WalkOK(sig, call, w[m])
                          /\ m <= n => InOrder(sig, w[m], m)
                          /\ m > n => w[m].overflow > 0
             T == {m \in Nat : m <= c => Placed(m)}
  <1>5. 0 \in T
    <2>1. PICK v : v = w[0]
      OBVIOUS
    <2>2. v = NothingPlaced(sig)
      BY <1>2, <1>4, <2>1, WalkAt
    <2>3. PICK s : s = [k \in DOMAIN sig |-> << >>]
      OBVIOUS
    <2>4. s \in [DOMAIN sig -> Seq(DOMAIN call)] /\ (\A k \in DOMAIN sig : Len(s[k]) <= 1)
          /\ s = [k \in DOMAIN sig |-> IF k <= 0 THEN <<k>> ELSE << >>]
      BY <1>1, <2>3
    <2>5. v = [slots |-> s, next |-> 1, overflow |-> 0]
      BY <2>2, <2>3, Zenon DEF NothingPlaced
    <2>6. WalkOK(sig, call, v) /\ InOrder(sig, v, 0)
      BY <1>1, <2>4, <2>5 DEF WalkOK, InOrder
    <2> QED
      BY <2>1, <2>6
  <1>6. ASSUME NEW m \in Nat, m \in T PROVE m + 1 \in T
    <2> SUFFICES ASSUME m + 1 <= c PROVE Placed(m + 1)
      OBVIOUS
    <2>1. PICK i : i = m + 1
      OBVIOUS
    <2>2. i \in DOMAIN call /\ i \in 0 .. c /\ i # 0 /\ i - 1 = m /\ m <= c
      BY <1>2, <2>1
    <2>3. PICK u, v : u = w[m] /\ v = w[i]
      OBVIOUS
    <2>4. v = PlaceArg(sig, call, u, i)
      BY <1>4, <2>2, <2>3, WalkAt
    <2>5. WalkOK(sig, call, u) /\ (m <= n => InOrder(sig, u, m)) /\ (m > n => u.overflow > 0)
      BY <1>6, <2>2, <2>3
    <2>6. WalkOK(sig, call, v) /\ v.overflow >= u.overflow
      BY <1>0, <2>2, <2>4, <2>5, WalkStaysOK
    <2>7. ASSUME i <= n PROVE InOrder(sig, v, i)
      BY <1>1, <2>1, <2>2, <2>4, <2>5, <2>7, PlacedInOrder
    <2>8. ASSUME i > n PROVE v.overflow > 0
      <3>1. CASE m > n
        <4>1. u.overflow \in Nat /\ v.overflow \in Nat
          BY <2>5, <2>6 DEF WalkOK
        <4> QED
          BY <2>5, <2>6, <3>1, <4>1
      <3>2. CASE ~(m > n)
        <4>1. m = n /\ InOrder(sig, u, n)
          BY <2>1, <2>5, <2>8, <3>2
        <4> QED
          BY <1>1, <2>2, <2>4, <2>5, <4>1, OneTooMany
      <3> QED
        BY <3>1, <3>2
    <2> QED
      BY <2>1, <2>3, <2>6, <2>7, <2>8
  <1> HIDE DEF T
  <1>7. c \in T
    BY <1>5, <1>6, NatInduct
  <1>8. PICK v : v = ArrangeParamArgs(sig, call)
    OBVIOUS
  <1>9. v = w[c]
    BY <1>2, <1>3, <1>8 DEF ArrangeParamArgs
  <1>10. (c <= n => InOrder(sig, v, c)) /\ (c > n => v.overflow > 0)
    BY <1>7, <1>9 DEF T
  <1> QED
    BY <1>1, <1>2, <1>8, <1>10

LEMMA PlainArranges ==
  ASSUME NEW sig, PlainSig(sig), NEW call, PlainArgs(call)
  PROVE  /\ Arranges(sig, call) <=> Len(call) = Len(sig)
         /\ Len(call) = Len(sig) => Slots(sig, call) = [k \in DOMAIN sig |-> <<k>>]
  <1>0. SigOK(sig) /\ CallOK(call)
    BY DEF PlainSig, PlainArgs
  <1>1. PICK n \in Nat : n = Len(sig) /\ DOMAIN sig = 1 .. n
    BY <1>0, SigLen
  <1>2. PICK c \in Nat : c = Len(call)
    BY <1>0, CallLen
  <1>3. PICK v : v = ArrangeParamArgs(sig, call)
    OBVIOUS
  <1>4. (c <= n => InOrder(sig, v, c)) /\ (c > n => v.overflow > 0)
    BY <1>1, <1>2, <1>3, PlainPlaces
  <1>5. ASSUME Arranges(sig, call) PROVE c = n
    <2>1. v.overflow = 0 /\ \A k \in DOMAIN sig : v.slots[k] # << >>
      BY <1>3, <1>5 DEF Arranges, Slots, PlainSig
    <2>2. c <= n
      BY <1>4, <2>1
    <2>3. v.slots = [k \in 1 .. n |-> IF k <= c THEN <<k>> ELSE << >>]
      BY <1>1, <1>4, <2>2 DEF InOrder
    <2> SUFFICES ASSUME c < n PROVE FALSE
      BY <2>2
    <2>4. n \in 1 .. n /\ ~(n <= c)
      OBVIOUS
    <2>5. v.slots[n] = << >>
      BY <2>3, <2>4
    <2> QED
      BY <1>1, <2>1, <2>4, <2>5
  <1>6. ASSUME c = n PROVE Arranges(sig, call) /\ Slots(sig, call) = [k \in DOMAIN sig |-> <<k>>]
    <2>1. v.slots = [k \in 1 .. n |-> IF k <= c THEN <<k>> ELSE << >>] /\ v.overflow = 0
      BY <1>1, <1>4, <1>6 DEF InOrder
    <2>2. v.slots = [k \in 1 .. n |-> <<k>>]
      BY <1>6, <2>1
    <2>3. \A k \in DOMAIN sig : v.slots[k] # << >>
      BY <1>1, <2>2
    <2> QED
      BY <1>1, <1>3, <2>1, <2>2, <2>3 DEF Arranges, Slots
  <1> QED
    BY <1>1, <1>2, <1>5, <1>6

Suits(sig, call) == Len(call) = Len(sig) /\ \A i \in DOMAIN sig : call[i].type = sig[i].type

Diagonal(n) == {<<k, k>> : k \in 1 .. n}

LEMMA PlainScore ==
  ASSUME NEW sig, PlainSig(sig), NEW call, PlainArgs(call)
  PROVE  CheckScore(sig, call) =
           IF Suits(sig, call)
           THEN <<2 * Cardinality(Diagonal(Len(call))) + Cardinality(Diagonal(Len(call))) + Cardinality({}) + 1>>
           ELSE << >>
  <1>0. SigOK(sig) /\ CallOK(call)
    BY DEF PlainSig, PlainArgs
  <1>1. PICK n \in Nat : n = Len(sig) /\ DOMAIN sig = 1 .. n
    BY <1>0, SigLen
  <1>2. PICK c \in Nat : c = Len(call) /\ DOMAIN call = 1 .. c
    BY <1>0, CallLen
  <1>3. PICK placed : placed = {p \in (DOMAIN call) \X (DOMAIN sig) : p[1] \in Range(Slots(sig, call)[p[2]])}
    OBVIOUS
  <1>4. PICK exact : exact = {p \in placed : call[p[1]].type = sig[p[2]].type}
    OBVIOUS
  <1>5. PICK named : named = {p \in placed : call[p[1]].name = sig[p[2]].name}
    OBVIOUS
  <1>6. CheckScore(sig, call) =
          IF Arranges(sig, call) /\ \A p \in placed : ArgAssignable(call[p[1]].type, sig[p[2]].type)
          THEN <<2 * Cardinality(placed) + Cardinality(exact) + Cardinality(named)
                 + (IF IsVariadic(sig) THEN 0 ELSE 1)>>
          ELSE << >>
    BY <1>3, <1>4, <1>5, Zenon DEF CheckScore
  <1>7. CASE c # n
    BY <1>1, <1>2, <1>6, <1>7, PlainArranges DEF Suits
  <1>8. CASE c = n
    <2>1. Arranges(sig, call)
      BY <1>1, <1>2, <1>8, PlainArranges
    <2>2. PICK slots : slots = Slots(sig, call)
      OBVIOUS
    <2>3. slots = [k \in 1 .. n |-> <<k>>]
      BY <1>1, <1>2, <1>8, <2>2, PlainArranges
    <2>4. \A k \in 1 .. n : Range(slots[k]) = {k}
      BY <2>3 DEF Range
    <2>5. placed = Diagonal(n)
      <3>1. placed = {p \in (1 .. n) \X (1 .. n) : p[1] \in Range(slots[p[2]])}
        BY <1>1, <1>2, <1>3, <1>8, <2>2
      <3>2. \A p \in (1 .. n) \X (1 .. n) : p[1] \in Range(slots[p[2]]) <=> p[1] = p[2]
        BY <2>4
      <3>3. placed = {p \in (1 .. n) \X (1 .. n) : p[1] = p[2]}
        BY <3>1, <3>2
      <3> QED
        BY <3>3 DEF Diagonal
    <2>6. \A p \in placed : p[1] \in 1 .. n /\ p[2] = p[1]
      BY <2>5 DEF Diagonal
    <2>7. \A k \in 1 .. n : <<k, k>> \in placed /\ <<k, k>>[1] = k /\ <<k, k>>[2] = k
      BY <2>5 DEF Diagonal
    <2>8. named = {}
      <3>1. \A k \in 1 .. n : call[k].name = "" /\ sig[k].name # ""
        BY <1>0, <1>1, <1>2, <1>8 DEF PlainArgs, SigOK
      <3> QED
        BY <1>5, <2>6, <3>1
    <2>9. \A k \in 1 .. n : ArgAssignable(call[k].type, sig[k].type) <=> call[k].type = sig[k].type
      BY <1>1 DEF ArgAssignable, PlainSig
    <2>10. (\A p \in placed : ArgAssignable(call[p[1]].type, sig[p[2]].type)) <=> Suits(sig, call)
      <3>1. ASSUME \A p \in placed : ArgAssignable(call[p[1]].type, sig[p[2]].type), NEW k \in 1 .. n
            PROVE  call[k].type = sig[k].type
        <4>1. PICK p : p = <<k, k>>
          OBVIOUS
        <4>2. p \in placed /\ p[1] = k /\ p[2] = k
          BY <2>7, <4>1
        <4> QED
          BY <2>9, <3>1, <4>2
      <3>2. ASSUME \A k \in 1 .. n : call[k].type = sig[k].type, NEW p \in placed
            PROVE  ArgAssignable(call[p[1]].type, sig[p[2]].type)
        <4>1. PICK k \in 1 .. n : p[1] = k /\ p[2] = k
          BY <2>6
        <4> QED
          BY <2>9, <3>2, <4>1
      <3> QED
        BY <1>1, <1>2, <1>8, <3>1, <3>2, Zenon DEF Suits
    <2>11. ASSUME Suits(sig, call) PROVE exact = placed
      <3>1. \A k \in 1 .. n : call[k].type = sig[k].type
        BY <1>1, <2>11 DEF Suits
      <3> QED
        BY <1>4, <2>6, <3>1
    <2>12. ~IsVariadic(sig)
      BY PlainNotVariadic
    <2>13. CASE Suits(sig, call)
      <3>1. CheckScore(sig, call) =
              <<2 * Cardinality(placed) + Cardinality(exact) + Cardinality(named)
                 + (IF IsVariadic(sig) THEN 0 ELSE 1)>>
        BY <1>6, <2>1, <2>10, <2>13, Zenon
      <3>2. (IF IsVariadic(sig) THEN 0 ELSE 1) = 1
        BY <2>12, Zenon
      <3>3. exact = Diagonal(Len(call)) /\ placed = Diagonal(Len(call)) /\ named = {}
        BY <1>2, <1>8, <2>5, <2>8, <2>11, <2>13, Zenon
      <3>4. CheckScore(sig, call) =
              <<2 * Cardinality(Diagonal(Len(call))) + Cardinality(Diagonal(Len(call))) + Cardinality({}) + 1>>
        BY <3>1, <3>2, <3>3, Zenon
      <3> QED
        BY <2>13, <3>4, Zenon
    <2>14. CASE ~Suits(sig, call)
      <3>1. CheckScore(sig, call) = << >>
        BY <1>6, <2>10, <2>14, Zenon
      <3> QED
        BY <2>14, <3>1, Zenon
    <2> QED
      BY <2>13, <2>14
  <1> QED
    BY <1>7, <1>8

LEMMA ChosenAlone ==
  ASSUME NEW sigs, SigsOK(sigs), \A k \in DOMAIN sigs : PlainSig(sigs[k]),
         NEW call, PlainArgs(call), NEW c, BestOverloadCandidates(sigs, call) = {c}
  PROVE  c \in DOMAIN sigs /\ \A k \in DOMAIN sigs : Suits(sigs[k], call) <=> k = c
  <1>1. PICK n \in Nat : n = Len(call)
    BY CallLen DEF PlainArgs
  <1>2. PICK d : d = Cardinality(Diagonal(n))
    OBVIOUS
  <1>3. d \in Nat
    <2>1. IsFiniteSet((1 .. n) \X (1 .. n))
      <3>1. PICK D : D = 1 .. n
        OBVIOUS
      <3>2. IsFiniteSet(D)
        BY <3>1, RangeIsFinite
      <3> QED
        BY <3>1, <3>2, FS_Product
    <2>2. Diagonal(n) \in SUBSET ((1 .. n) \X (1 .. n))
      BY DEF Diagonal
    <2> QED
      BY <1>2, <2>1, <2>2, FS_Subset, FS_CardinalityType
  <1>4. PICK z : z = Cardinality({})
    OBVIOUS
  <1>5. PICK x : x = 2 * d + d + z + 1
    OBVIOUS
  <1>6. z = 0
    BY <1>4, FS_EmptySet
  <1>7. x \in Int
    BY <1>3, <1>5, <1>6
  <1>8. PICK score : score = [k \in DOMAIN sigs |-> CheckScore(sigs[k], call)]
    OBVIOUS
  <1>9. ASSUME NEW k \in DOMAIN sigs PROVE score[k] = IF Suits(sigs[k], call) THEN <<x>> ELSE << >>
    <2>1. CheckScore(sigs[k], call) = IF Suits(sigs[k], call) THEN <<2 * d + d + z + 1>> ELSE << >>
      BY <1>1, <1>2, <1>4, PlainScore, Zenon
    <2>2. score[k] = CheckScore(sigs[k], call)
      BY <1>8, Zenon
    <2> QED
      BY <1>5, <2>1, <2>2, Zenon
  <1>10. Best(score) = {c}
    BY <1>8, Zenon DEF BestOverloadCandidates
  <1>11. DOMAIN score = DOMAIN sigs
    BY <1>8
  <1>12. ASSUME NEW k \in DOMAIN sigs, Suits(sigs[k], call) PROVE k \in Best(score)
    <2>1. \A j \in DOMAIN score : score[j] = << >> \/ score[j] = <<x>>
      BY <1>9, <1>11
    <2>2. score[k] = <<x>>
      BY <1>9, <1>12
    <2> QED
      BY <1>7, <1>11, <2>1, <2>2 DEF Best
  <1>13. c \in DOMAIN sigs /\ score[c] # << >>
    BY <1>10, <1>11 DEF Best
  <1>14. Suits(sigs[c], call)
    BY <1>9, <1>13
  <1> QED
    BY <1>10, <1>12, <1>13, <1>14

LEMMA PlainLaidOut ==
  ASSUME NEW sig, PlainSig(sig), NEW call, PlainArgs(call), Len(call) = Len(sig),
         NEW ops, LaidOut(sig, call, ops)
  PROVE  Len(ops) = Len(call) /\ \A k \in 1 .. Len(call) : ops[k] = call[k].value
  <1>0. SigOK(sig) /\ CallOK(call) /\ ~IsVariadic(sig)
    BY PlainNotVariadic DEF PlainSig, PlainArgs
  <1>1. PICK n \in Nat : n = Len(sig) /\ DOMAIN sig = 1 .. n
    BY <1>0, SigLen
  <1>2. Fixed(sig) = n /\ Collects(sig, call) = 0
    BY <1>0, <1>1 DEF Fixed, Collects
  <1>3. Len(ops) = n /\ \A k \in 1 .. n : ops[k] = OperandAt(sig, call, k)
    BY <1>2 DEF LaidOut
  <1>4. PICK slots : slots = Slots(sig, call)
    OBVIOUS
  <1>5. slots = [k \in 1 .. n |-> <<k>>]
    BY <1>1, <1>4, PlainArranges
  <1>6. \A k \in 1 .. n : slots[k] # << >> /\ Head(slots[k]) = k
    BY <1>5
  <1>7. \A k \in 1 .. n : OperandAt(sig, call, k) = call[k].value
    BY <1>4, <1>6 DEF OperandAt
  <1> QED
    BY <1>1, <1>3, <1>7

(* Every operand of the value's type matches, and the number of matches is
   the number of operands only for an overload that the arguments suit. *)
LEMMA PlainRuntimeScore ==
  ASSUME NEW sig, PlainSig(sig), NEW call, PlainArgs(call),
         NEW ops, Len(ops) = Len(call), DOMAIN ops = 1 .. Len(ops),
         \A k \in 1 .. Len(call) : ops[k] = call[k].value
  PROVE  \/ Len(sig) # Len(call) /\ RuntimeScore(sig, ops) = << >>
         \/ Len(sig) = Len(call) /\ \E m \in Nat :
              /\ RuntimeScore(sig, ops) = <<10 + 2 * m>> /\ m <= Len(call)
              /\ m = Len(call) <=> Suits(sig, call)
  <1>0. SigOK(sig) /\ CallOK(call) /\ ~IsVariadic(sig)
    BY PlainNotVariadic DEF PlainSig, PlainArgs
  <1>1. PICK n \in Nat : n = Len(sig) /\ DOMAIN sig = 1 .. n
    BY <1>0, SigLen
  <1>2. PICK c \in Nat : c = Len(call) /\ DOMAIN call = 1 .. c /\ Len(ops) = c /\ DOMAIN ops = 1 .. c
    BY <1>0, CallLen
  <1>3. PICK m : m = Cardinality(RuntimeMatches(sig, ops))
    OBVIOUS
  <1>4. RuntimeScore(sig, ops) =
          IF c = n THEN <<10 + 2 * m>>
          ELSE IF c < n /\ DefaultsFrom(sig, c + 1) THEN <<8 + 2 * m>> ELSE << >>
    BY <1>0, <1>1, <1>2, <1>3, RuntimeScoreFixed, Zenon
  <1>5. CASE c # n
    <2>1. ASSUME c < n PROVE ~DefaultsFrom(sig, c + 1)
      <3>1. n \in c + 1 .. n /\ n \in 1 .. n
        BY <2>1
      <3>2. ~HasDefault(sig[n])
        BY <1>1, <3>1 DEF PlainSig
      <3>3. Fixed(sig) = n
        BY <1>0, <1>1 DEF Fixed
      <3> QED
        BY <3>1, <3>2, <3>3 DEF DefaultsFrom
    <2>2. RuntimeScore(sig, ops) = << >>
      BY <1>4, <1>5, <2>1, Zenon
    <2> QED
      BY <1>1, <1>2, <1>5, <2>2
  <1>6. CASE c = n
    <2>1. RuntimeScore(sig, ops) = <<10 + 2 * m>>
      BY <1>4, <1>6, Zenon
    <2>2. PICK S : S = RuntimeMatches(sig, ops)
      OBVIOUS
    <2>3. ASSUME NEW i \in 1 .. n
          PROVE  i \in S <=> call[i].type = sig[i].type
      <3>1. Min({i, Len(sig)}) = i /\ i <= Len(sig)
        BY <1>1, MinOfTwo
      <3>2. i \in S <=> ArgMatchesType(ops[i], sig[i].type)
        BY <1>2, <1>6, <2>2, <3>1 DEF RuntimeMatches
      <3>3. ops[i] = call[i].value /\ sig[i].type # "Any" /\ call[i].type = TypeOf[call[i].value]
        BY <1>0, <1>1, <1>2, <1>6 DEF PlainSig, PlainArgs, CallOK
      <3> QED
        BY <3>2, <3>3 DEF ArgMatchesType, ArgAssignable
    <2>4. S \subseteq 1 .. n
      BY <1>2, <1>6, <2>2 DEF RuntimeMatches
    <2>5. m \in Nat /\ m <= n
      BY <1>3, <2>2, <2>4, SubsetOfRange
    <2>6. m = n <=> S = 1 .. n
      <3>1. IsFiniteSet(1 .. n) /\ Cardinality(1 .. n) = n
        BY RangeIsFinite
      <3>2. S \in SUBSET (1 .. n)
        BY <2>4
      <3>3. Cardinality(1 .. n) = Cardinality(S) => 1 .. n = S
        BY <3>1, <3>2, FS_Subset
      <3> QED
        BY <1>3, <2>2, <3>1, <3>3
    <2>7. S = 1 .. n <=> Suits(sig, call)
      <3>1. Suits(sig, call) <=> \A i \in 1 .. n : call[i].type = sig[i].type
        BY <1>1, <1>2, <1>6 DEF Suits
      <3> QED
        BY <2>3, <2>4, <3>1
    <2> QED
      BY <1>1, <1>2, <1>6, <2>1, <2>5, <2>6, <2>7
  <1> QED
    BY <1>5, <1>6

LEMMA PlainRuns ==
  ASSUME NEW sigs, SigsOK(sigs), \A k \in DOMAIN sigs : PlainSig(sigs[k]),
         NEW call, PlainArgs(call), NEW c, BestOverloadCandidates(sigs, call) = {c},
         NEW target, target = Min(ArityCandidates(sigs, call)),
         NEW ops, ops = LowerCallArgs(sigs[target], call)
  PROVE  /\ Min(RuntimeCandidates(sigs, ops)) = c
         /\ NormalizeCallArgs(sigs[c], ops) = PromisedBy(sigs[c], call)
  <1>0. CallOK(call) /\ \A k \in DOMAIN sigs : SigOK(sigs[k])
    BY DEF PlainSig, PlainArgs
  <1>1. c \in DOMAIN sigs /\ \A k \in DOMAIN sigs : Suits(sigs[k], call) <=> k = c
    BY ChosenAlone
  <1>2. Len(call) = Len(sigs[c]) /\ Arranges(sigs[c], call)
    BY <1>1, PlainArranges DEF Suits
  <1>3. target \in DOMAIN sigs /\ Arranges(sigs[target], call)
    BY <1>0, <1>1, <1>2, TargetArranges
  <1>4. LaidOut(sigs[target], call, ops)
    BY <1>0, <1>3, LayingOut
  <1>5. Len(ops) = Len(call) /\ \A k \in 1 .. Len(call) : ops[k] = call[k].value
    BY <1>3, <1>4, PlainArranges, PlainLaidOut
  <1>6. DOMAIN ops = 1 .. Len(ops)
    BY <1>4 DEF LaidOut
  <1>7. PICK n \in Nat : n = Len(call)
    BY <1>0, CallLen
  <1>8. PICK score : score = [k \in DOMAIN sigs |-> RuntimeScore(sigs[k], ops)]
    OBVIOUS
  <1>9. ASSUME NEW k \in DOMAIN sigs
        PROVE  \/ score[k] = << >>
               \/ \E m \in Nat : score[k] = <<10 + 2 * m>> /\ m <= n /\ (m = n <=> k = c)
    <2>1. score[k] = RuntimeScore(sigs[k], ops)
      BY <1>8
    <2>2. \/ Len(sigs[k]) # Len(call) /\ score[k] = << >>
          \/ Len(sigs[k]) = Len(call) /\ \E m \in Nat :
               /\ score[k] = <<10 + 2 * m>> /\ m <= Len(call)
               /\ m = Len(call) <=> Suits(sigs[k], call)
      BY <1>5, <1>6, <2>1, PlainRuntimeScore
    <2> QED
      BY <1>1, <1>7, <2>2
  <1>10. score[c] = <<10 + 2 * n>>
    <2>1. score[c] = RuntimeScore(sigs[c], ops)
      BY <1>1, <1>8
    <2>2. score[c] # << >>
      <3>1. PICK m \in Nat : RuntimeScore(sigs[c], ops) = <<10 + 2 * m>>
        BY <1>1, <1>2, <1>5, <1>6, PlainRuntimeScore
      <3> QED
        BY <2>1, <3>1
    <2>3. PICK m \in Nat : score[c] = <<10 + 2 * m>> /\ (m = n <=> c = c)
      BY <1>1, <1>9, <2>2
    <2> QED
      BY <2>3
  <1>11. Best(score) = {c}
    <2>1. DOMAIN score = DOMAIN sigs
      BY <1>8
    <2>2. \A k \in DOMAIN sigs : score[k] # << >> =>
            \E x \in Int : score[k] = <<x>> /\ x <= 10 + 2 * n /\ (k # c => x < 10 + 2 * n)
      BY <1>9
    <2>3. c \in Best(score)
      BY <1>1, <1>10, <2>1, <2>2 DEF Best
    <2>4. ASSUME NEW k \in Best(score) PROVE k = c
      <3>1. k \in DOMAIN sigs /\ score[k] # << >> /\ Head(score[c]) <= Head(score[k])
        BY <1>1, <1>10, <2>1, <2>4 DEF Best
      <3> QED
        BY <1>10, <2>2, <3>1
    <2> QED
      BY <2>3, <2>4
  <1>12. RuntimeCandidates(sigs, ops) = {c}
    BY <1>8, <1>11, Zenon DEF RuntimeCandidates
  <1>13. Min({c}) = c
    <2>1. c \in Nat
      BY <1>1, SigsLen
    <2> QED
      BY <2>1, MinOf
  <1>14. LaidOut(sigs[c], call, ops)
    <2>1. PICK own : own = LowerCallArgs(sigs[c], call)
      OBVIOUS
    <2>2. LaidOut(sigs[c], call, own)
      BY <1>0, <1>1, <2>1, LayingOut
    <2>3. Len(own) = Len(call) /\ \A k \in 1 .. Len(call) : own[k] = call[k].value
      BY <1>1, <1>2, <2>2, PlainLaidOut
    <2>4. ops = own
      <3>1. PICK S : ops \in Seq(S)
        BY <1>4 DEF LaidOut
      <3>2. PICK V : own \in Seq(V)
        BY <2>2 DEF LaidOut
      <3> QED
        BY <1>5, <2>3, <3>1, <3>2
    <2> QED
      BY <2>2, <2>4
  <1> QED
    BY <1>0, <1>1, <1>12, <1>13, <1>14, KeepsPromise

-----------------------------------------------------------------------------
(* The invariant: what each of the three selections has settled. *)

Target == FindExpectedArgTarget

OverloadsInv ==
  /\ SigsOK(overloads) /\ CallOK(args)
  /\ stage \in {"written", "refused", "checked", "lowered", "ran", "stuck"}
  /\ stage \in {"checked", "lowered", "ran", "stuck"} => BestOverloadCandidates(overloads, args) = {chosen}
  /\ stage \in {"lowered", "ran", "stuck"} => operands = LowerCallArgs(overloads[Target], args)
  /\ stage = "stuck" => RuntimeCandidates(overloads, operands) = {}
  /\ stage = "ran" => /\ ran = Min(RuntimeCandidates(overloads, operands))
                      /\ bound = NormalizeCallArgs(overloads[ran], operands)

LEMMA ChosenArranges ==
  ASSUME NEW sigs, SigsOK(sigs), NEW call, CallOK(call), NEW c, BestOverloadCandidates(sigs, call) = {c},
         NEW target, target = Min(ArityCandidates(sigs, call))
  PROVE  /\ c \in DOMAIN sigs /\ CheckScore(sigs[c], call) # << >>
         /\ target \in DOMAIN sigs /\ Arranges(sigs[target], call)
  <1>1. PICK score : score = [k \in DOMAIN sigs |-> CheckScore(sigs[k], call)]
    OBVIOUS
  <1>2. Best(score) = {c}
    BY <1>1, Zenon DEF BestOverloadCandidates
  <1>3. c \in DOMAIN sigs /\ score[c] # << >>
    BY <1>1, <1>2 DEF Best
  <1>4. CheckScore(sigs[c], call) # << >>
    BY <1>1, <1>3
  <1>5. Arranges(sigs[c], call)
    BY <1>4, Zenon DEF CheckScore
  <1> QED
    BY <1>3, <1>4, <1>5, TargetArranges

(* Operands that no overload takes were laid out for a variadic one, which is not
   the one that the checker selected or takes an operand as Any. *)
LEMMA StuckMeans ==
  ASSUME NEW sigs, SigsOK(sigs), NEW call, CallOK(call), NEW c, BestOverloadCandidates(sigs, call) = {c},
         NEW target, target = Min(ArityCandidates(sigs, call)),
         NEW ops, ops = LowerCallArgs(sigs[target], call), RuntimeCandidates(sigs, ops) = {}
  PROVE  IsVariadic(sigs[target]) /\ (target # c \/ TakesAny(sigs[target], call))
  <1>1. /\ c \in DOMAIN sigs /\ CheckScore(sigs[c], call) # << >>
        /\ target \in DOMAIN sigs /\ SigOK(sigs[target])
    BY ChosenArranges DEF SigsOK
  <1>2. LaidOut(sigs[target], call, ops)
    BY <1>1, LayingOut
  <1>3. Len(ops) \in Nat /\ DOMAIN ops = 1 .. Len(ops)
    BY <1>2 DEF LaidOut
  <1>4. RuntimeScore(sigs[target], ops) = << >>
    BY <1>1, <1>3, SomeRuns
  <1> QED
    BY <1>1, <1>2, <1>4, TargetAccepts

LEMMA KeptPromise ==
  ASSUME NEW sigs, SigsOK(sigs), NEW call, CallOK(call), NEW c, BestOverloadCandidates(sigs, call) = {c},
         NEW ops, ops = LowerCallArgs(sigs[c], call)
  PROVE  NormalizeCallArgs(sigs[c], ops) = PromisedBy(sigs[c], call)
  <1>1. SigOK(sigs[c])
    BY ChosenArranges DEF SigsOK
  <1> QED
    BY <1>1, LayingOut, KeepsPromise

LEMMA OverloadsInitially == OverloadsInit => OverloadsInv
  <1> SUFFICES ASSUME OverloadsInit PROVE OverloadsInv
    OBVIOUS
  <1>1. overloads \in Methods /\ args \in Calls /\ stage = "written"
    BY DEF OverloadsInit
  <1>2. PICK sigs \in Methods : sigs = overloads
    BY <1>1
  <1>3. PICK call \in Calls : call = args
    BY <1>1
  <1>4. SigsOK(sigs)
    <2>1. sigs \in Seq(Seq(Parameter))
      BY SignatureAssumption, Zenon DEF Parameter
    <2>2. ASSUME NEW j \in DOMAIN sigs PROVE SigOK(sigs[j])
      <3>1. sigs[j] \in Seq(Parameter)
        BY <2>1
      <3>2. \A k \in DOMAIN sigs[j] :
              LET param == sigs[j][k] IN
              /\ param.variadic => k = Len(sigs[j])
              /\ param.name # "" /\ (\A i \in DOMAIN sigs[j] : sigs[j][i].name = param.name => i = k)
              /\ HasDefault(param) => ArgAssignable(TypeOf[param.default], param.type)
        BY SignatureAssumption, Zenon
      <3> QED
        BY <3>1, <3>2, Zenon DEF SigOK
    <2> QED
      BY <2>1, <2>2, Zenon DEF SigsOK
  <1>5. CallOK(call)
    BY CallAssumption, Zenon DEF CallOK, Argument
  <1>6. SigsOK(overloads) /\ CallOK(args)
    BY <1>2, <1>3, <1>4, <1>5, Zenon
  <1> QED
    BY <1>1, <1>6 DEF OverloadsInv

LEMMA OverloadsStep == OverloadsInv /\ [OverloadsNext]_overloadVars => OverloadsInv'
  <1> SUFFICES ASSUME OverloadsInv, [OverloadsNext]_overloadVars PROVE OverloadsInv'
    OBVIOUS
  <1>1. CASE SelectOverload
    <2>1. stage = "written" /\ UNCHANGED <<overloads, args, operands, ran, bound>>
      BY <1>1 DEF SelectOverload
    <2>2. SigsOK(overloads)' /\ CallOK(args)'
      BY <2>1 DEF OverloadsInv
    <2>3. PICK B : B = BestOverloadCandidates(overloads, args)
      OBVIOUS
    <2>4. CASE Cardinality(B) = 1
      <3>1. stage' = "checked" /\ chosen' = CHOOSE k \in B : TRUE
        BY <1>1, <2>3, <2>4 DEF SelectOverload
      <3>2. PICK n \in Nat : DOMAIN overloads = 1 .. n
        BY SigsLen DEF OverloadsInv
      <3>3. B \subseteq 1 .. n
        BY <2>3, <3>2 DEF BestOverloadCandidates, Best
      <3>4. \E k : B = {k}
        BY <2>4, <3>3, SubsetOfRange, FS_Singleton
      <3>5. B = {chosen'}
        BY <3>1, <3>4
      <3>6. BestOverloadCandidates(overloads, args)' = {chosen'}
        BY <2>1, <2>3, <3>5
      <3> QED
        BY <2>2, <3>1, <3>6 DEF OverloadsInv
    <2>5. CASE Cardinality(B) # 1
      <3>1. stage' = "refused"
        BY <1>1, <2>3, <2>5 DEF SelectOverload
      <3> QED
        BY <2>2, <3>1 DEF OverloadsInv
    <2> QED
      BY <2>4, <2>5
  <1>2. CASE LowerCall
    <2>1. /\ stage = "checked" /\ stage' = "lowered" /\ UNCHANGED <<overloads, args, chosen, ran, bound>>
          /\ operands' = LowerCallArgs(overloads[Target], args)
      BY <1>2 DEF LowerCall, Target
    <2>2. SigsOK(overloads)' /\ CallOK(args)' /\ BestOverloadCandidates(overloads, args)' = {chosen'}
      BY <2>1 DEF OverloadsInv
    <2>3. Target' = Target
      BY <2>1 DEF Target, FindExpectedArgTarget
    <2>4. operands' = LowerCallArgs(overloads'[Target'], args')
      BY <2>1, <2>3
    <2> QED
      BY <2>1, <2>2, <2>4 DEF OverloadsInv
  <1>3. CASE InvokeMethod
    <2>1. stage = "lowered" /\ UNCHANGED <<overloads, args, chosen, operands>>
      BY <1>3 DEF InvokeMethod
    <2>2. SigsOK(overloads)' /\ CallOK(args)' /\ BestOverloadCandidates(overloads, args)' = {chosen'}
      BY <2>1 DEF OverloadsInv
    <2>3. Target' = Target
      BY <2>1 DEF Target, FindExpectedArgTarget
    <2>4. operands' = LowerCallArgs(overloads'[Target'], args')
      BY <2>1, <2>3 DEF OverloadsInv
    <2>5. PICK C : C = RuntimeCandidates(overloads, operands)
      OBVIOUS
    <2>6. RuntimeCandidates(overloads, operands)' = C
      BY <2>1, <2>5
    <2>7. CASE C = {}
      <3>1. stage' = "stuck"
        BY <1>3, <2>5, <2>7 DEF InvokeMethod
      <3> QED
        BY <2>2, <2>4, <2>6, <2>7, <3>1 DEF OverloadsInv
    <2>8. CASE C # {}
      <3>1. stage' = "ran" /\ ran' = Min(C) /\ bound' = NormalizeCallArgs(overloads[ran'], operands)
        BY <1>3, <2>5, <2>8, Zenon DEF InvokeMethod
      <3>2. bound' = NormalizeCallArgs(overloads'[ran'], operands')
        BY <2>1, <3>1
      <3> QED
        BY <2>2, <2>4, <2>6, <3>1, <3>2 DEF OverloadsInv
    <2> QED
      BY <2>7, <2>8
  <1>4. CASE UNCHANGED overloadVars
    <2>1. UNCHANGED <<overloads, args, stage, chosen, operands, ran, bound>>
      BY <1>4 DEF overloadVars
    <2>2. Target' = Target
      BY <2>1 DEF Target, FindExpectedArgTarget
    <2> QED
      BY <2>1, <2>2 DEF OverloadsInv
  <1> QED
    BY <1>1, <1>2, <1>3, <1>4 DEF OverloadsNext

(* What the checker, the lowering and the interpreter settle about a call stays
   as they settled it: the only best overload, the operands laid out for the
   overload ranked first by counting, and the overload that runs. *)
THEOREM OverloadsInvariant == OverloadsSpec => []OverloadsInv
  <1>1. OverloadsInit => OverloadsInv
    BY OverloadsInitially
  <1>2. OverloadsInv /\ [OverloadsNext]_overloadVars => OverloadsInv'
    BY OverloadsStep
  <1> QED
    BY <1>1, <1>2, PTL DEF OverloadsSpec

LEMMA PlainCallIs ==
  ASSUME OverloadsInv, PlainCall
  PROVE  (\A k \in DOMAIN overloads : PlainSig(overloads[k])) /\ PlainArgs(args)
  <1>1. ASSUME NEW k \in DOMAIN overloads PROVE PlainSig(overloads[k])
    <2>1. PICK sig : sig = overloads[k]
      OBVIOUS
    <2>2. SigOK(sig)
      BY <2>1 DEF OverloadsInv, SigsOK
    <2>3. \A p \in Range(sig) : ~p.variadic /\ ~HasDefault(p) /\ p.type # "Any"
      BY <2>1, Zenon DEF PlainCall
    <2>4. \A j \in DOMAIN sig : sig[j] \in Range(sig)
      BY DEF Range
    <2> QED
      BY <2>1, <2>2, <2>3, <2>4, Zenon DEF PlainSig
  <1>2. PlainArgs(args)
    BY DEF OverloadsInv, PlainCall, PlainArgs
  <1> QED
    BY <1>1, <1>2

LEMMA OverloadsInvSuffices == OverloadsInv => AcceptedCallsRun
  <1> SUFFICES ASSUME OverloadsInv PROVE AcceptedCallsRun
    OBVIOUS
  <1>0. SigsOK(overloads) /\ CallOK(args)
    BY DEF OverloadsInv
  <1>1. PICK sigs, call, c, target, ops :
          sigs = overloads /\ call = args /\ c = chosen /\ target = Target /\ ops = operands
    OBVIOUS
  <1>2. target = Min(ArityCandidates(sigs, call)) /\ SigsOK(sigs) /\ CallOK(call)
    BY <1>0, <1>1 DEF Target, FindExpectedArgTarget
  <1>3. ASSUME stage \in {"ran", "stuck"}
        PROVE  BestOverloadCandidates(sigs, call) = {c} /\ ops = LowerCallArgs(sigs[target], call)
    BY <1>1, <1>3 DEF OverloadsInv
  <1>4. ASSUME stage = "stuck"
        PROVE  LET laidFor == FindExpectedArgTarget IN
               /\ IsVariadic(overloads[laidFor])
               /\ laidFor # chosen \/ TakesAny(overloads[laidFor], args)
    <2>1. RuntimeCandidates(sigs, ops) = {}
      BY <1>1, <1>4 DEF OverloadsInv
    <2>2. IsVariadic(sigs[target]) /\ (target # c \/ TakesAny(sigs[target], call))
      BY <1>2, <1>3, <1>4, <2>1, StuckMeans
    <2> QED
      BY <1>1, <2>2 DEF Target
  <1>5. ASSUME stage = "ran"
        PROVE  ran = Min(RuntimeCandidates(sigs, ops)) /\ bound = NormalizeCallArgs(sigs[ran], ops)
    BY <1>1, <1>5 DEF OverloadsInv
  <1>6. ASSUME stage = "ran", PlainCall PROVE ran = chosen /\ bound = Promised
    <2>1. (\A k \in DOMAIN sigs : PlainSig(sigs[k])) /\ PlainArgs(call)
      BY <1>1, <1>6, PlainCallIs
    <2>2. /\ Min(RuntimeCandidates(sigs, ops)) = c
          /\ NormalizeCallArgs(sigs[c], ops) = PromisedBy(sigs[c], call)
      BY <1>2, <1>3, <1>6, <2>1, PlainRuns
    <2> QED
      BY <1>1, <1>5, <1>6, <2>2 DEF Promised
  <1>7. ASSUME stage = "ran", ran = chosen, FindExpectedArgTarget = chosen PROVE bound = Promised
    <2>1. target = c
      BY <1>1, <1>7 DEF Target
    <2>2. NormalizeCallArgs(sigs[c], ops) = PromisedBy(sigs[c], call)
      BY <1>2, <1>3, <1>7, <2>1, KeptPromise
    <2> QED
      BY <1>1, <1>5, <1>7, <2>2 DEF Promised
  <1> QED
    BY <1>4, <1>6, <1>7, Zenon DEF AcceptedCallsRun

(* AcceptedCallsRun holds of every run, whatever the overloads, their
   parameters and the arguments: a call that passed the checker runs an
   overload unless it was laid out for a variadic one, which is another or takes
   one of the operands as Any; a plain call runs the overload that the checker
   selected; and the parameters of the overload that all three selected hold
   what its arrangement promised them. *)
THEOREM AcceptedCallsAlwaysRun == OverloadsSpec => []AcceptedCallsRun
  <1>1. OverloadsInv => AcceptedCallsRun
    BY OverloadsInvSuffices
  <1> QED
    BY <1>1, OverloadsInvariant, PTL

=============================================================================
