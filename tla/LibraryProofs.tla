---------------------------- MODULE LibraryProofs ----------------------------
(***************************************************************************)
(* The collections of the interpreter, for every number of collections,    *)
(* elements and nested activations.                                        *)
(***************************************************************************)
EXTENDS Collections, SequenceTheorems, WellFoundedInduction, TLAPS

-----------------------------------------------------------------------------
(* The inductive invariant. *)

Pairs == Elements \X Elements
Contents(c) == IF c \in Maps THEN Seq(Pairs) ELSE Seq(Elements)
HeapTyped(h) ==
  /\ h \in [Colls -> Seq(Elements) \cup Seq(Pairs)]
  /\ \A c \in Colls : h[c] \in Contents(c)

\* The first n of items.
Prefix(given, items, n) ==
  /\ n \in 0 .. Len(items) /\ Len(given) = n
  /\ \A i \in 1 .. n : given[i] = items[i]

Iterators == [live : BOOLEAN, list : Lists, items : Seq(Elements), index : Nat,
              given : Seq(Elements), shifted : BOOLEAN]
InOrder(it, h) == ~it.shifted \/ ~it.live => Prefix(it.given, Items(it, h), it.index)
ItersGood(its, h) ==
  /\ its \in Seq(Iterators)
  /\ \A i \in 1 .. Len(its) : its[i].index = Len(its[i].given) /\ InOrder(its[i], h)

\* Whatever a callback is given or answers.
Anything == Elements \cup Pairs \cup BOOLEAN

\* t holds what s holds, each as often; both are n long.
Rearranged(s, t, n) ==
  \E p \in [1 .. n -> 1 .. n] :
    /\ \A k \in 1 .. n : s[k] = t[p[k]]
    /\ \A k \in 1 .. n : \E m \in 1 .. n : p[m] = k
Permuted(s, t) == Len(s) = Len(t) /\ Rearranged(s, t, Len(s))

Eachs ==
  [kind : {"each"}, op : EachOps, on : Colls, values : Seq(Anything), pos : Nat,
   acc : Seq(Anything), seen : Seq(Anything), start : Seq(Anything)]
EachGood(a) ==
  a.values = a.start /\ a.pos \in 1 .. Len(a.values) /\ Prefix(a.seen, a.start, a.pos)

Sorts ==
  [kind : {"sort"}, on : Lists, values : Seq(Elements), start : Seq(Elements), i : Nat, j : Nat]
SortGood(a) == 1 <= a.i /\ a.i < a.j /\ a.j <= Len(a.values) /\ Permuted(a.values, a.start)

Searches ==
  [kind : {"search"}, op : {"contains", "add", "put", "get"}, on : Colls, values : Seq(Anything),
   pos : Nat, needle : Elements, todo : Seq(Elements)]
SearchGood(a) ==
  a.op \in SearchOps(a.on) /\ a.pos >= 1 /\ (a.op # "add" => a.todo = <<>>)

Loops(n) == [kind : {"loop"}, iter : 1 .. n]

\* The activations there can be next to n iterators.
Activations(n) ==
  {a \in Eachs : EachGood(a)} \cup {a \in Sorts : SortGood(a)}
    \cup {a \in Searches : SearchGood(a)} \cup Loops(n)

LibraryInv ==
  /\ HeapTyped(heap) /\ ItersGood(iters, heap)
  /\ calls \in Seq(Activations(Len(iters)))
  /\ used \in 0 .. Budget /\ touched \in BOOLEAN /\ failure \in {"none", "abort"}

(* What holds besides while no equals method has changed what is searched. *)
KeyOf(c, values, j) == IF c \in Maps THEN values[j][1] ELSE values[j]
HeapUnique(h) == (\A s \in SetColls : Unique(h[s])) /\ \A m \in Maps : Unique(Keys(h[m]))

\* A search looks at what its collection holds, and has not found it so far.
SearchFresh(a, h) ==
  /\ a.values = h[a.on] /\ a.pos <= Len(a.values)
  /\ \A j \in 1 .. a.pos - 1 : KeyOf(a.on, a.values, j) # a.needle

\* A traversal of a set builds a set; filter builds it from the elements behind it.
EachBuilds(a) ==
  /\ Unique(a.values) /\ Unique(a.acc)
  /\ a.op = "filter" => \A i \in 1 .. Len(a.acc) : \E j \in 1 .. a.pos - 1 : a.acc[i] = a.values[j]

Undisturbed(a, h) ==
  /\ a.kind = "search" => SearchFresh(a, h)
  /\ a.kind = "each" /\ a.on \in SetColls => EachBuilds(a)
AllUndisturbed(cs, h) == \A n \in 1 .. Len(cs) : Undisturbed(cs[n], h)

Quiet == failure # "abort" /\ HeapUnique(heap) /\ AllUndisturbed(calls, heap)
QuietInv == touched \/ Quiet
-----------------------------------------------------------------------------
(* Sequences. *)

LEMMA Appended ==
  ASSUME NEW S, NEW s \in Seq(S), NEW e, NEW t, t = Append(s, e)
  PROVE  /\ Len(s) \in Nat /\ Len(t) = Len(s) + 1
         /\ \A i \in 1 .. Len(s) : t[i] = s[i]
         /\ t[Len(s) + 1] = e
         /\ e \in S => t \in Seq(S)
  BY LenProperties

LEMMA Stored ==
  ASSUME NEW S, NEW s \in Seq(S), NEW i, NEW e, NEW t, t = [s EXCEPT ![i] = e]
  PROVE  /\ Len(s) \in Nat /\ Len(t) = Len(s)
         /\ \A j \in 1 .. Len(s) : t[j] = IF j = i THEN e ELSE s[j]
         /\ e \in S => t \in Seq(S)
  <1>1. s \in [1 .. Len(s) -> S] /\ Len(s) \in Nat /\ DOMAIN s = 1 .. Len(s)
    BY LenProperties
  <1>2. t \in [1 .. Len(s) -> S \cup {e}]
    BY <1>1
  <1>3. t \in Seq(S \cup {e})
    BY <1>1, <1>2, SeqDef
  <1>4. Len(t) = Len(s)
    BY <1>1, <1>2, <1>3, LenProperties
  <1>5. ASSUME e \in S PROVE t \in Seq(S)
    <2>1. S \cup {e} = S
      BY <1>5
    <2> QED
      BY <1>3, <2>1
  <1> QED
    BY <1>1, <1>2, <1>4, <1>5

LEMMA Cut ==
  ASSUME NEW S, NEW s \in Seq(S), s # <<>>, NEW t, t = SubSeq(s, 1, Len(s) - 1)
  PROVE  /\ Len(s) \in Nat \ {0} /\ t \in Seq(S) /\ Len(t) = Len(s) - 1
         /\ \A i \in 1 .. Len(t) : t[i] = s[i]
         /\ s[Len(s)] \in S
  <1>1. Len(s) \in Nat \ {0}
    BY LenProperties, EmptySeq
  <1>2. s[Len(s)] \in S
    BY <1>1, ElementOfSeq
  <1>3. PICK n : n = Len(s) - 1
    OBVIOUS
  <1>4. /\ n \in 0 .. Len(s) /\ 1 \in 1 .. n + 1 /\ t = SubSeq(s, 1, n)
        /\ \A i \in 1 .. n : 1 + i - 1 = i
    BY <1>1, <1>3
  <1>5. t \in Seq(S) /\ Len(t) = n /\ \A i \in 1 .. n : t[i] = s[i]
    BY <1>4, SubSeqProperties
  <1> QED
    BY <1>1, <1>2, <1>3, <1>5

LEMMA Joined ==
  ASSUME NEW S, NEW s \in Seq(S), NEW u \in Seq(S), NEW t, t = s \o u
  PROVE  /\ Len(s) \in Nat /\ Len(u) \in Nat /\ Len(t) = Len(s) + Len(u) /\ t \in Seq(S)
         /\ \A i \in 1 .. Len(s) : t[i] = s[i]
  BY LenProperties

LEMMA Widened ==
  ASSUME NEW S, NEW T, S \subseteq T, NEW s \in Seq(S)
  PROVE  s \in Seq(T)
  <1>1. s \in [1 .. Len(s) -> S] /\ Len(s) \in Nat
    BY LenProperties
  <1>2. s \in [1 .. Len(s) -> T]
    BY <1>1
  <1> QED
    BY <1>1, <1>2, SeqDef

LEMMA PrefixIsSubSeq ==
  ASSUME NEW S, NEW s \in Seq(S), NEW g \in Seq(S), NEW n, Prefix(g, s, n)
  PROVE  g = SubSeq(s, 1, n)
  <1>1. n \in 0 .. Len(s) /\ Len(g) = n /\ Len(s) \in Nat /\ n \in Nat
    BY LenProperties DEF Prefix
  <1>2. PICK t : t = SubSeq(s, 1, n)
    OBVIOUS
  <1>3. t \in Seq(S) /\ Len(t) = n /\ \A i \in 1 .. n : t[i] = s[i]
    BY <1>1, <1>2, SubSeqProperties
  <1>4. \A i \in 1 .. n : t[i] = g[i]
    BY <1>3 DEF Prefix
  <1> QED
    BY <1>1, <1>2, <1>3, <1>4, SeqEqual

(* The first n elements, and one more of them. *)
LEMMA PrefixGrows ==
  ASSUME NEW S, NEW s \in Seq(S), NEW g \in Seq(S), NEW n \in Nat, Prefix(g, s, n),
         n < Len(s), NEW h, h = Append(g, s[n + 1])
  PROVE  Prefix(h, s, n + 1) /\ h \in Seq(S)
  <1>1. Len(s) \in Nat /\ n + 1 \in 1 .. Len(s) /\ Len(g) = n
    BY LenProperties DEF Prefix
  <1>2. s[n + 1] \in S
    BY <1>1, ElementOfSeq
  <1>3. Len(h) = n + 1 /\ h[n + 1] = s[n + 1] /\ h \in Seq(S) /\ \A i \in 1 .. n : h[i] = g[i]
    BY <1>1, <1>2, Appended
  <1> QED
    BY <1>1, <1>3 DEF Prefix

(* The first n elements of a sequence that has grown at its end. *)
LEMMA PrefixOfMore ==
  ASSUME NEW S, NEW s \in Seq(S), NEW t \in Seq(S), NEW g, NEW n, Prefix(g, s, n),
         Len(s) <= Len(t), \A i \in 1 .. Len(s) : t[i] = s[i]
  PROVE  Prefix(g, t, n)
  <1>1. Len(s) \in Nat /\ Len(t) \in Nat
    BY LenProperties
  <1> QED
    BY <1>1 DEF Prefix

-----------------------------------------------------------------------------
(* Induction over the natural numbers. *)

LEMMA NatMin ==
  ASSUME NEW T, T \subseteq Nat, T # {}
  PROVE  \E x \in T : \A y \in T : x <= y
  <1>1. PICK R : R = {p \in Nat \X Nat : p[1] < p[2]}
    OBVIOUS
  <1>2. OpToRel(<, Nat) = {p \in Nat \X Nat : p[1] < p[2]}
    BY Zenon DEF OpToRel
  <1>3. IsWellFoundedOn(R, Nat)
    BY <1>1, <1>2, NatLessThanWellFounded, Zenon
  <1>4. PICK x \in T : \A y \in T : ~(<<y, x>> \in R)
    BY <1>3, WFMin, Zenon
  <1>5. ASSUME NEW y \in T PROVE x <= y
    <2>1. <<y, x>> \in Nat \X Nat
      OBVIOUS
    <2>2. ~(y < x)
      BY <1>1, <1>4, <2>1
    <2> QED
      BY <2>2
  <1> QED
    BY <1>5

LEMMA NatInduct ==
  ASSUME NEW T, 0 \in T, \A n \in Nat : n \in T => n + 1 \in T
  PROVE  Nat \subseteq T
  <1> SUFFICES ASSUME Nat \ T # {} PROVE FALSE
    OBVIOUS
  <1>1. PICK m \in Nat \ T : \A y \in Nat \ T : m <= y
    BY NatMin
  <1>2. m # 0 /\ m - 1 \in Nat
    BY <1>1
  <1>3. m - 1 \in T
    BY <1>1, <1>2
  <1> QED
    BY <1>1, <1>2, <1>3

-----------------------------------------------------------------------------
(* Sets are sequences without repetition. *)

LEMMA UniqueSeq ==
  ASSUME NEW S, NEW s \in Seq(S)
  PROVE  Unique(s) <=> \A i, j \in 1 .. Len(s) : s[i] = s[j] => i = j
  BY LenProperties DEF Unique

\* An element that is new to the sequence.
LEMMA UniqueAppend ==
  ASSUME NEW S, NEW s \in Seq(S), Unique(s), NEW e \in S, \A i \in 1 .. Len(s) : s[i] # e,
         NEW t, t = Append(s, e)
  PROVE  Unique(t) /\ t \in Seq(S)
  <1>1. /\ Len(s) \in Nat /\ Len(t) = Len(s) + 1 /\ t[Len(s) + 1] = e /\ t \in Seq(S)
        /\ \A i \in 1 .. Len(s) : t[i] = s[i]
    BY Appended
  <1>2. \A i, j \in 1 .. Len(s) : s[i] = s[j] => i = j
    BY UniqueSeq
  <1>3. ASSUME NEW i \in 1 .. Len(t), NEW j \in 1 .. Len(t), t[i] = t[j] PROVE i = j
    BY <1>1, <1>2, <1>3
  <1> QED
    BY <1>1, <1>3, UniqueSeq

LEMMA PushUniqueGood ==
  ASSUME NEW S, NEW out \in Seq(S), NEW x \in S
  PROVE  PushUnique(out, x) \in Seq(S) /\ (Unique(out) => Unique(PushUnique(out, x)))
  <1>1. PICK t : t = Append(out, x)
    OBVIOUS
  <1>2. t \in Seq(S)
    BY <1>1, Appended
  <1>3. CASE Contains(out, x)
    BY <1>3 DEF PushUnique
  <1>4. CASE ~Contains(out, x)
    <2>1. PushUnique(out, x) = t
      BY <1>1, <1>4 DEF PushUnique
    <2>2. \A i \in 1 .. Len(out) : out[i] # x
      BY <1>4 DEF Contains
    <2>3. Unique(out) => Unique(t)
      BY <1>1, <2>2, UniqueAppend
    <2> QED
      BY <1>2, <2>1, <2>3
  <1> QED
    BY <1>3, <1>4

(* PushAllUnique is computed step by step: f holds what it has after the
   first n elements of xs. *)
Pushes(f, out, xs, n) ==
  f = [k \in 0 .. n |-> IF k = 0 THEN out ELSE PushUnique(f[k - 1], xs[k])]

LEMMA PushesAt ==
  ASSUME NEW f, NEW out, NEW xs, NEW n, Pushes(f, out, xs, n), NEW k \in 0 .. n
  PROVE  f[k] = IF k = 0 THEN out ELSE PushUnique(f[k - 1], xs[k])
  <1>1. f = [m \in 0 .. n |-> IF m = 0 THEN out ELSE PushUnique(f[m - 1], xs[m])]
    BY DEF Pushes
  <1>2. PICK h : h = [m \in 0 .. n |-> IF m = 0 THEN out ELSE PushUnique(f[m - 1], xs[m])]
    OBVIOUS
  <1>3. h[k] = IF k = 0 THEN out ELSE PushUnique(f[k - 1], xs[k])
    BY <1>2, Zenon
  <1>4. h = f
    BY <1>1, <1>2, Zenon
  <1> QED
    BY <1>3, <1>4, Zenon

LEMMA PushesExists ==
  ASSUME NEW out, NEW xs, NEW n \in Nat
  PROVE  \E f : Pushes(f, out, xs, n)
  <1>1. PICK T : T = {k \in Nat : \E f : Pushes(f, out, xs, k)}
    OBVIOUS
  <1>2. 0 \in T
    <2>1. PICK f : f = [k \in 0 .. 0 |-> out]
      OBVIOUS
    <2>2. PICK g : g = [k \in 0 .. 0 |-> IF k = 0 THEN out ELSE PushUnique(f[k - 1], xs[k])]
      OBVIOUS
    <2>3. f = g
      BY <2>1, <2>2
    <2>4. Pushes(f, out, xs, 0)
      BY <2>2, <2>3, Zenon DEF Pushes
    <2> QED
      BY <1>1, <2>4
  <1>3. ASSUME NEW k \in Nat, k \in T PROVE k + 1 \in T
    <2>1. PICK f : Pushes(f, out, xs, k)
      BY <1>1, <1>3
    <2>2. PICK g : g = [m \in 0 .. k + 1 |-> IF m = k + 1 THEN PushUnique(f[k], xs[k + 1]) ELSE f[m]]
      OBVIOUS
    <2>3. PICK h : h = [m \in 0 .. k + 1 |-> IF m = 0 THEN out ELSE PushUnique(g[m - 1], xs[m])]
      OBVIOUS
    <2>4. ASSUME NEW m \in 0 .. k + 1 PROVE g[m] = h[m]
      <3>1. h[m] = IF m = 0 THEN out ELSE PushUnique(g[m - 1], xs[m])
        BY <2>3, Zenon
      <3>2. CASE m = k + 1
        <4>1. m # 0 /\ m - 1 = k /\ k \in 0 .. k + 1 /\ k # k + 1
          BY <3>2
        <4>2. g[k] = f[k] /\ g[m] = PushUnique(f[k], xs[k + 1])
          BY <2>2, <3>2, <4>1
        <4> QED
          BY <3>1, <3>2, <4>1, <4>2
      <3>3. CASE m # k + 1
        <4>1. m \in 0 .. k /\ g[m] = f[m]
          BY <2>2, <3>3
        <4>2. f[m] = IF m = 0 THEN out ELSE PushUnique(f[m - 1], xs[m])
          BY <2>1, <4>1, PushesAt
        <4>3. m # 0 => m - 1 \in 0 .. k + 1 /\ m - 1 # k + 1
          BY <4>1
        <4>4. m # 0 => g[m - 1] = f[m - 1]
          BY <2>2, <4>3
        <4> QED
          BY <3>1, <4>1, <4>2, <4>4
      <3> QED
        BY <3>2, <3>3
    <2>5. g = h
      BY <2>2, <2>3, <2>4
    <2>6. Pushes(g, out, xs, k + 1)
      BY <2>3, <2>5, Zenon DEF Pushes
    <2> QED
      BY <1>1, <2>6
  <1> QED
    BY <1>1, <1>2, <1>3, NatInduct

LEMMA PushAllUniqueGood ==
  ASSUME NEW S, NEW out \in Seq(S), NEW xs \in Seq(S)
  PROVE  /\ PushAllUnique(out, xs) \in Seq(S)
         /\ Unique(out) => Unique(PushAllUnique(out, xs))
  <1>1. PICK n \in Nat : n = Len(xs)
    BY LenProperties
  <1>2. PICK f : /\ f = CHOOSE g : g = [k \in 0 .. Len(xs) |->
                                         IF k = 0 THEN out ELSE PushUnique(g[k - 1], xs[k])]
                 /\ PushAllUnique(out, xs) = f[Len(xs)]
    BY Zenon DEF PushAllUnique
  <1>3. Pushes(f, out, xs, n)
    <2>1. \E g : g = [k \in 0 .. Len(xs) |-> IF k = 0 THEN out ELSE PushUnique(g[k - 1], xs[k])]
      <3>1. Len(xs) \in Nat
        BY <1>1
      <3>2. PICK g : Pushes(g, out, xs, Len(xs))
        BY <3>1, PushesExists
      <3> QED
        BY <3>2, Zenon DEF Pushes
    <2>2. f = [k \in 0 .. Len(xs) |-> IF k = 0 THEN out ELSE PushUnique(f[k - 1], xs[k])]
      BY <1>2, <2>1, Zenon
    <2>3. Pushes(f, out, xs, Len(xs))
      BY <2>2, Zenon DEF Pushes
    <2> QED
      BY <1>1, <2>3
  <1>4. PICK T : T = {k \in Nat : k <= n => f[k] \in Seq(S) /\ (Unique(out) => Unique(f[k]))}
    OBVIOUS
  <1>5. 0 \in T
    <2>1. f[0] = out
      BY <1>3, PushesAt
    <2> QED
      BY <1>4, <2>1
  <1>6. ASSUME NEW k \in Nat, k \in T PROVE k + 1 \in T
    <2> SUFFICES ASSUME k + 1 <= n
                 PROVE  f[k + 1] \in Seq(S) /\ (Unique(out) => Unique(f[k + 1]))
      BY <1>4
    <2>1. k + 1 \in 0 .. n /\ k + 1 \in 1 .. Len(xs) /\ k + 1 # 0 /\ (k + 1) - 1 = k
      BY <1>1
    <2>2. f[k + 1] = PushUnique(f[k], xs[k + 1])
      BY <1>3, <2>1, PushesAt
    <2>3. xs[k + 1] \in S
      BY <2>1, ElementOfSeq
    <2>4. f[k] \in Seq(S) /\ (Unique(out) => Unique(f[k]))
      BY <1>4, <1>6
    <2> QED
      BY <2>2, <2>3, <2>4, PushUniqueGood
  <1>7. n \in T
    BY <1>5, <1>6, NatInduct
  <1> QED
    BY <1>1, <1>2, <1>4, <1>7

-----------------------------------------------------------------------------
(* The heap and the iterators. *)

LEMMA HeapHolds ==
  ASSUME NEW h, HeapTyped(h), NEW c \in Colls
  PROVE  /\ h[c] \in Contents(c) /\ h[c] \in Seq(Anything)
         /\ c \in Lists \cup SetColls => h[c] \in Seq(Elements)
         /\ c \in Maps => h[c] \in Seq(Pairs)
  <1>1. h[c] \in Contents(c)
    BY DEF HeapTyped
  <1>2. Elements \subseteq Anything /\ Pairs \subseteq Anything
    BY DEF Anything
  <1>3. c \in Lists \cup SetColls => c \notin Maps
    BY CollectionsAssumption
  <1> QED
    BY <1>1, <1>2, <1>3, Widened DEF Contents

StoredAt(g, h, c, x) == g = [h EXCEPT ![c] = x]

LEMMA HeapStore ==
  ASSUME NEW h, HeapTyped(h), NEW c \in Colls, NEW x \in Contents(c),
         NEW g, StoredAt(g, h, c, x)
  PROVE  HeapTyped(g) /\ g[c] = x /\ \A d \in Colls : d # c => g[d] = h[d]
  <1>1. h \in [Colls -> Seq(Elements) \cup Seq(Pairs)]
    BY DEF HeapTyped
  <1>2. x \in Seq(Elements) \cup Seq(Pairs)
    BY DEF Contents
  <1>3. g \in [Colls -> Seq(Elements) \cup Seq(Pairs)]
    BY <1>1, <1>2 DEF StoredAt
  <1>4. g[c] = x /\ \A d \in Colls : d # c => g[d] = h[d]
    BY <1>1 DEF StoredAt
  <1>5. \A d \in Colls : g[d] \in Contents(d)
    BY <1>4 DEF HeapTyped
  <1> QED
    BY <1>3, <1>4, <1>5 DEF HeapTyped

\* t starts with what s holds.
Extends(t, s) == Len(s) <= Len(t) /\ \A i \in 1 .. Len(s) : t[i] = s[i]

LEMMA ShiftedRecord ==
  ASSUME NEW L, NEW Q, NEW B, NEW N,
         NEW it \in [live : B, list : L, items : Q, index : N, given : Q, shifted : B],
         NEW b \in B, NEW o, o = [it EXCEPT !.shifted = b]
  PROVE  /\ o \in [live : B, list : L, items : Q, index : N, given : Q, shifted : B]
         /\ o.index = it.index /\ o.given = it.given /\ o.live = it.live /\ o.list = it.list
         /\ o.items = it.items /\ o.shifted = b
  OBVIOUS

(* A collection changes and the iterators over it are told, unless it only
   grows at its end. *)
LEMMA ItersShift ==
  ASSUME NEW h, HeapTyped(h), NEW g, HeapTyped(g), NEW its, ItersGood(its, h), NEW c,
         NEW appends \in BOOLEAN, \A l \in Lists : l # c => g[l] = h[l],
         appends /\ c \in Lists => Extends(g[c], h[c]),
         NEW ots, ots = [i \in DOMAIN its |->
                          [its[i] EXCEPT !.shifted = @ \/ (its[i].list = c /\ ~appends)]]
  PROVE  ItersGood(ots, g) /\ Len(ots) = Len(its)
  <1>1. its \in Seq(Iterators) /\ Len(its) \in Nat /\ DOMAIN its = 1 .. Len(its)
    BY LenProperties DEF ItersGood
  <1>2. ASSUME NEW i \in 1 .. Len(its)
        PROVE  /\ ots[i] \in Iterators /\ ots[i].index = Len(ots[i].given)
               /\ InOrder(ots[i], g)
    <2>1. its[i] \in Iterators /\ its[i].index = Len(its[i].given) /\ InOrder(its[i], h)
      BY <1>1, ElementOfSeq DEF ItersGood
    <2>2. ots[i] = [its[i] EXCEPT !.shifted = @ \/ (its[i].list = c /\ ~appends)]
      BY <1>1
    <2>3. /\ ots[i] \in Iterators /\ ots[i].index = its[i].index /\ ots[i].given = its[i].given
          /\ ots[i].live = its[i].live /\ ots[i].list = its[i].list
          /\ ots[i].items = its[i].items
          /\ ots[i].shifted = (its[i].shifted \/ (its[i].list = c /\ ~appends))
      <3>1. PICK b : b = (its[i].shifted \/ (its[i].list = c /\ ~appends))
        OBVIOUS
      <3>2. b \in BOOLEAN
        BY <3>1, Zenon
      <3>3. ots[i] = [its[i] EXCEPT !.shifted = b]
        BY <2>2, <3>1, Zenon
      <3>4. /\ ots[i] \in Iterators /\ ots[i].index = its[i].index /\ ots[i].given = its[i].given
            /\ ots[i].live = its[i].live /\ ots[i].list = its[i].list
            /\ ots[i].items = its[i].items /\ ots[i].shifted = b
        <4>1. its[i] \in [live : BOOLEAN, list : Lists, items : Seq(Elements), index : Nat,
                           given : Seq(Elements), shifted : BOOLEAN]
          BY <2>1 DEF Iterators
        <4>2. /\ ots[i] \in [live : BOOLEAN, list : Lists, items : Seq(Elements), index : Nat,
                             given : Seq(Elements), shifted : BOOLEAN]
              /\ ots[i].index = its[i].index /\ ots[i].given = its[i].given
              /\ ots[i].live = its[i].live /\ ots[i].list = its[i].list
              /\ ots[i].items = its[i].items /\ ots[i].shifted = b
          BY <3>2, <3>3, <4>1, ShiftedRecord
        <4> QED
          BY <4>2 DEF Iterators
      <3> QED
        BY <3>1, <3>4, Zenon
    <2>4. InOrder(ots[i], g)
      <3> SUFFICES ASSUME ~ots[i].shifted \/ ~ots[i].live
                   PROVE  Prefix(ots[i].given, Items(ots[i], g), ots[i].index)
        BY DEF InOrder
      <3>1. CASE ~its[i].live
        BY <2>1, <2>3, <3>1 DEF InOrder, Items
      <3>2. CASE its[i].live
        <4>1. ~its[i].shifted /\ (its[i].list = c => appends) /\ its[i].list \in Lists
          BY <2>1, <2>3, <3>2 DEF Iterators
        <4>2. Prefix(its[i].given, h[its[i].list], its[i].index)
          BY <2>1, <3>2, <4>1 DEF InOrder, Items
        <4>3. h[its[i].list] \in Seq(Elements) /\ g[its[i].list] \in Seq(Elements)
          BY <4>1, HeapHolds DEF Colls
        <4>4. Extends(g[its[i].list], h[its[i].list])
          <5>1. CASE its[i].list = c
            BY <4>1, <5>1
          <5>2. CASE its[i].list # c
            <6>1. g[its[i].list] = h[its[i].list]
              BY <4>1, <5>2
            <6>2. Len(h[its[i].list]) \in Nat
              BY <4>3, LenProperties
            <6> QED
              BY <6>1, <6>2 DEF Extends
          <5> QED
            BY <5>1, <5>2
        <4>5. Prefix(its[i].given, g[its[i].list], its[i].index)
          BY <4>2, <4>3, <4>4, PrefixOfMore DEF Extends
        <4> QED
          BY <2>3, <3>2, <4>5 DEF Items
      <3> QED
        BY <2>1, <3>1, <3>2 DEF Iterators
    <2> QED
      BY <2>1, <2>3, <2>4
  <1>3. ots \in [1 .. Len(its) -> Iterators]
    BY <1>1, <1>2
  <1>4. ots \in Seq(Iterators) /\ Len(ots) = Len(its)
    BY <1>1, <1>3, SeqDef, LenProperties
  <1> QED
    BY <1>2, <1>4 DEF ItersGood

(* The iterators look at lists only. *)
LEMMA ItersStay ==
  ASSUME NEW h, NEW g, NEW its, ItersGood(its, h), \A l \in Lists : g[l] = h[l]
  PROVE  ItersGood(its, g)
  <1>1. its \in Seq(Iterators)
    BY DEF ItersGood
  <1>2. ASSUME NEW i \in 1 .. Len(its) PROVE InOrder(its[i], g)
    <2>1. its[i] \in Iterators /\ InOrder(its[i], h)
      BY <1>1, ElementOfSeq DEF ItersGood
    <2>2. its[i].list \in Lists
      BY <2>1 DEF Iterators
    <2>3. Items(its[i], g) = Items(its[i], h)
      BY <2>2 DEF Items
    <2> QED
      BY <2>1, <2>3 DEF InOrder
  <1> QED
    BY <1>2 DEF ItersGood

-----------------------------------------------------------------------------
(* The activations. *)

LEMMA Kinds ==
  ASSUME NEW n, NEW a \in Activations(n)
  PROVE  /\ a.kind = "each" => a \in Eachs /\ EachGood(a)
         /\ a.kind = "sort" => a \in Sorts /\ SortGood(a)
         /\ a.kind = "search" => a \in Searches /\ SearchGood(a)
         /\ a.kind = "loop" => a \in Loops(n)
  BY DEF Activations, Eachs, Sorts, Searches, Loops

LEMMA TopBelow ==
  ASSUME LibraryInv, Busy
  PROVE  /\ Top \in Activations(Len(iters)) /\ Below \in Seq(Activations(Len(iters)))
         /\ Len(Below) = Len(calls) - 1 /\ Len(calls) \in Nat
         /\ \A i \in 1 .. Len(Below) : Below[i] = calls[i]
  <1>0. PICK S : S = Activations(Len(iters))
    OBVIOUS
  <1>1. calls \in Seq(S) /\ calls # <<>>
    BY <1>0 DEF LibraryInv, Busy
  <1>2. PICK t : t = SubSeq(calls, 1, Len(calls) - 1)
    OBVIOUS
  <1>3. Below = t /\ Top = calls[Len(calls)]
    BY <1>2 DEF Top, Below
  <1>4. /\ Len(calls) \in Nat \ {0} /\ t \in Seq(S) /\ Len(t) = Len(calls) - 1
        /\ \A i \in 1 .. Len(t) : t[i] = calls[i]
        /\ calls[Len(calls)] \in S
    <2>1. PICK s : s = calls
      OBVIOUS
    <2>2. s \in Seq(S) /\ s # <<>> /\ t = SubSeq(s, 1, Len(s) - 1)
      BY <1>1, <1>2, <2>1
    <2>3. Len(s) \in Nat \ {0} /\ t \in Seq(S) /\ Len(t) = Len(s) - 1
      BY <2>2, Cut
    <2>4. \A i \in 1 .. Len(t) : t[i] = s[i]
      BY <2>2, Cut
    <2>5. s[Len(s)] \in S
      BY <2>2, Cut
    <2> QED
      BY <2>1, <2>3, <2>4, <2>5
  <1> QED
    BY <1>0, <1>3, <1>4

LEMMA QuietBelow ==
  ASSUME LibraryInv, Busy, NEW h, AllUndisturbed(calls, h)
  PROVE  AllUndisturbed(Below, h) /\ Undisturbed(Top, h)
  <1>1. /\ Len(Below) = Len(calls) - 1 /\ Len(calls) \in Nat \ {0}
        /\ \A i \in 1 .. Len(Below) : Below[i] = calls[i]
    <2>1. calls \in Seq(Activations(Len(iters))) /\ calls # <<>>
      BY DEF LibraryInv, Busy
    <2> QED
      BY <2>1, TopBelow, EmptySeq, LenProperties
  <1> QED
    BY <1>1 DEF AllUndisturbed, Top

LEMMA QuietAppend ==
  ASSUME NEW S, NEW s \in Seq(S), NEW h, AllUndisturbed(s, h), NEW a, Undisturbed(a, h)
  PROVE  AllUndisturbed(Append(s, a), h)
  <1>1. PICK t : t = Append(s, a)
    OBVIOUS
  <1>2. /\ Len(s) \in Nat /\ Len(t) = Len(s) + 1 /\ t[Len(s) + 1] = a
        /\ \A i \in 1 .. Len(s) : t[i] = s[i]
    BY <1>1, Appended
  <1>3. AllUndisturbed(t, h)
    BY <1>2 DEF AllUndisturbed
  <1> QED
    BY <1>1, <1>3

LEMMA NothingDisturbed == \A h : AllUndisturbed(<<>>, h)
  BY DEF AllUndisturbed

(* A collection changes that nothing searches. *)
LEMMA QuietStore ==
  ASSUME NEW n, NEW cs \in Seq(Activations(n)), NEW h, AllUndisturbed(cs, h), NEW g, NEW c,
         \A d \in Colls : d # c => g[d] = h[d],
         \A i \in 1 .. Len(cs) : ~(cs[i].kind = "search" /\ cs[i].on = c)
  PROVE  AllUndisturbed(cs, g)
  <1> SUFFICES ASSUME NEW i \in 1 .. Len(cs) PROVE Undisturbed(cs[i], g)
    BY DEF AllUndisturbed
  <1>1. cs[i] \in Activations(n)
    BY ElementOfSeq
  <1>2. Undisturbed(cs[i], h)
    BY DEF AllUndisturbed
  <1>3. ASSUME cs[i].kind = "search" PROVE SearchFresh(cs[i], g)
    <2>1. cs[i].on \in Colls
      BY <1>1, <1>3, Kinds DEF Searches
    <2>2. g[cs[i].on] = h[cs[i].on]
      BY <1>3, <2>1
    <2> QED
      BY <1>2, <1>3, <2>2 DEF Undisturbed, SearchFresh
  <1> QED
    BY <1>2, <1>3 DEF Undisturbed

-----------------------------------------------------------------------------
(* At first. *)

LEMMA InitInv == Init => LibraryInv /\ QuietInv
  <1> SUFFICES ASSUME Init PROVE LibraryInv /\ QuietInv
    OBVIOUS
  <1>1. /\ heap = [c \in Colls |-> heap[c]]
        /\ \A l \in Lists : heap[l] \in Seq(Elements)
        /\ \A s \in SetColls : heap[s] \in Seq(Elements) /\ Unique(heap[s])
        /\ \A m \in Maps : heap[m] \in Seq(Pairs) /\ Unique(Keys(heap[m]))
    <2>1. PICK h \in InitialHeaps : h = heap
      BY DEF Init
    <2> QED
      BY <2>1, CollectionsAssumption DEF Pairs
  <1>2. HeapTyped(heap)
    <2>1. \A c \in Colls : heap[c] \in Seq(Elements) \cup Seq(Pairs)
      BY <1>1 DEF Colls
    <2>2. heap \in [Colls -> Seq(Elements) \cup Seq(Pairs)]
      BY <1>1, <2>1
    <2>3. \A c \in Colls : heap[c] \in Contents(c)
      BY <1>1 DEF Colls, Contents
    <2> QED
      BY <2>2, <2>3 DEF HeapTyped
  <1>3. ItersGood(iters, heap)
    <2>1. PICK l \in Lists : iters = <<CopyIterator(l, heap[l])>>
      BY DEF Init
    <2>2. PICK it : it = CopyIterator(l, heap[l])
      OBVIOUS
    <2>3. /\ it \in Iterators /\ it.index = 0 /\ it.given = <<>> /\ it.live = FALSE
          /\ it.items = heap[l]
      <3>1. PICK x \in Seq(Elements) : x = heap[l]
        BY <1>1
      <3>2. it = [live |-> FALSE, list |-> l, items |-> x, index |-> 0,
                  given |-> <<>>, shifted |-> FALSE]
        BY <2>2, <3>1 DEF CopyIterator
      <3>3. <<>> \in Seq(Elements)
        OBVIOUS
      <3> QED
        BY <3>1, <3>2, <3>3 DEF Iterators
    <2>4. Len(heap[l]) \in Nat
      BY <1>1, LenProperties
    <2>5. InOrder(it, heap)
      BY <2>3, <2>4 DEF InOrder, Items, Prefix
    <2> QED
      BY <2>1, <2>2, <2>3, <2>5 DEF ItersGood
  <1>4. calls \in Seq(Activations(Len(iters))) /\ Len(calls) = 0
    BY DEF Init
  <1>5. used \in 0 .. Budget
    BY CollectionsAssumption DEF Init
  <1>6. LibraryInv
    BY <1>2, <1>3, <1>4, <1>5 DEF Init, LibraryInv
  <1>7. HeapUnique(heap)
    BY <1>1 DEF HeapUnique
  <1>8. AllUndisturbed(calls, heap)
    BY NothingDisturbed DEF Init
  <1> QED
    BY <1>6, <1>7, <1>8 DEF QuietInv, Quiet, Init

-----------------------------------------------------------------------------
(* User code changes a list, or clears a map. *)

\* What a change of user code is.
UserChange(c, contents, appends) ==
  /\ c \in Lists \cup Maps /\ contents \in Contents(c) /\ appends \in BOOLEAN
  /\ c \in Maps => contents = <<>>
  /\ appends => Extends(contents, heap[c])
  /\ UserCode /\ Change(c, contents, appends) /\ UNCHANGED calls

LEMMA UsedOnce == ASSUME LibraryInv, used < Budget, used' = used + 1 PROVE used' \in 0 .. Budget
  BY CollectionsAssumption DEF LibraryInv

LEMMA ChangeInv ==
  ASSUME LibraryInv, NEW c, NEW contents, NEW appends, UserChange(c, contents, appends)
  PROVE  LibraryInv'
  <1>1. c \in Colls /\ contents \in Contents(c) /\ c \notin SetColls
    BY CollectionsAssumption DEF UserChange, Colls
  <1>2. used' \in 0 .. Budget
    BY UsedOnce DEF UserChange, Change, UserCode
  <1>3. touched' \in BOOLEAN
    BY Zenon DEF UserChange, Change
  <1>4. CASE Borrowed(c)
    <2>1. failure' = "abort" /\ heap' = heap /\ iters' = iters /\ calls' = calls
      BY <1>4 DEF UserChange, Change
    <2> QED
      BY <1>2, <1>3, <2>1 DEF LibraryInv
  <1>5. CASE ~Borrowed(c)
    <2>1. /\ heap' = [heap EXCEPT ![c] = contents] /\ failure' = failure /\ calls' = calls
          /\ iters' = [i \in DOMAIN iters |->
                        [iters[i] EXCEPT !.shifted = @ \/ (iters[i].list = c /\ ~appends)]]
      BY <1>5 DEF UserChange, Change
    <2>2. HeapTyped(heap') /\ heap'[c] = contents /\ \A d \in Colls : d # c => heap'[d] = heap[d]
      <3>1. PICK g : g = heap'
        OBVIOUS
      <3>2. PICK h : h = heap
        OBVIOUS
      <3>3. HeapTyped(h) /\ StoredAt(g, h, c, contents)
        BY <2>1, <3>1, <3>2 DEF LibraryInv, StoredAt
      <3>4. HeapTyped(g) /\ g[c] = contents /\ \A d \in Colls : d # c => g[d] = h[d]
        BY <1>1, <3>3, HeapStore
      <3> QED
        BY <3>1, <3>2, <3>4
    <2>3. ItersGood(iters', heap') /\ Len(iters') = Len(iters)
      <3>1. HeapTyped(heap) /\ ItersGood(iters, heap)
        BY DEF LibraryInv
      <3>2. appends \in BOOLEAN /\ (appends /\ c \in Lists => Extends(heap'[c], heap[c]))
        BY <2>2 DEF UserChange
      <3>3. \A l \in Lists : l # c => heap'[l] = heap[l]
        BY <2>2 DEF Colls
      <3> QED
        <4>1. PICK g : g = heap'
          OBVIOUS
        <4>2. PICK ots : ots = iters'
          OBVIOUS
        <4>3. PICK h : h = heap
          OBVIOUS
        <4>4. PICK its : its = iters
          OBVIOUS
        <4>5. ots = [i \in DOMAIN its |->
                      [its[i] EXCEPT !.shifted = @ \/ (its[i].list = c /\ ~appends)]]
          BY <2>1, <4>2, <4>4
        <4>6. HeapTyped(h) /\ ItersGood(its, h) /\ HeapTyped(g)
          BY <2>2, <3>1, <4>1, <4>3, <4>4
        <4>7. \A l \in Lists : l # c => g[l] = h[l]
          BY <3>3, <4>1, <4>3
        <4>8. appends \in BOOLEAN /\ (appends /\ c \in Lists => Extends(g[c], h[c]))
          BY <3>2, <4>1, <4>3
        <4>9. ItersGood(ots, g) /\ Len(ots) = Len(its)
          BY <4>5, <4>6, <4>7, <4>8, ItersShift
        <4> QED
          BY <4>1, <4>2, <4>4, <4>9
    <2> QED
      BY <1>2, <1>3, <2>1, <2>2, <2>3 DEF LibraryInv
  <1> QED
    BY <1>4, <1>5

LEMMA ChangeQuiet ==
  ASSUME LibraryInv, QuietInv, NEW c, NEW contents, NEW appends, UserChange(c, contents, appends)
  PROVE  QuietInv'
  <1> SUFFICES ASSUME ~touched' PROVE Quiet'
    BY DEF QuietInv
  <1>1. ~touched /\ ~Searched(c) /\ Quiet
    BY DEF UserChange, Change, QuietInv
  <1>2. ~Borrowed(c)
    BY <1>1 DEF Borrowed, Searched
  <1>3. heap' = [heap EXCEPT ![c] = contents] /\ failure' = failure /\ calls' = calls
    BY <1>2 DEF UserChange, Change
  <1>4. c \in Colls /\ contents \in Contents(c) /\ c \notin SetColls /\ (c \in Maps => contents = <<>>)
    BY CollectionsAssumption DEF UserChange, Colls
  <1>5. heap'[c] = contents /\ \A d \in Colls : d # c => heap'[d] = heap[d]
    <2>1. PICK g : g = heap'
      OBVIOUS
    <2>2. PICK h : h = heap
      OBVIOUS
    <2>3. HeapTyped(h) /\ StoredAt(g, h, c, contents)
      BY <1>3, <2>1, <2>2 DEF LibraryInv, StoredAt
    <2>4. HeapTyped(g) /\ g[c] = contents /\ \A d \in Colls : d # c => g[d] = h[d]
      BY <1>4, <2>3, HeapStore
    <2> QED
      BY <2>1, <2>2, <2>4
  <1>6. HeapUnique(heap')
    <2>1. \A s \in SetColls : heap'[s] = heap[s]
      BY <1>4, <1>5 DEF Colls
    <2>2. \A m \in Maps : heap'[m] = heap[m] \/ heap'[m] = <<>>
      BY <1>4, <1>5 DEF Colls
    <2>3. Unique(Keys(<<>>))
      BY DEF Keys, Unique
    <2> QED
      BY <1>1, <2>1, <2>2, <2>3 DEF Quiet, HeapUnique
  <1>7. AllUndisturbed(calls, heap')
    <2>1. calls \in Seq(Activations(Len(iters))) /\ DOMAIN calls = 1 .. Len(calls)
      BY LenProperties DEF LibraryInv
    <2>2. \A i \in 1 .. Len(calls) : ~(calls[i].kind = "search" /\ calls[i].on = c)
      BY <1>1, <2>1 DEF Searched
    <2> QED
      BY <1>1, <1>5, <2>1, <2>2, QuietStore DEF Quiet
  <1> QED
    BY <1>1, <1>3, <1>6, <1>7 DEF Quiet

LEMMA ListAddChange ==
  ASSUME LibraryInv, NEW l \in Lists, NEW x \in Elements, ListAdd(l, x)
  PROVE  UserChange(l, Append(heap[l], x), TRUE)
  <1>1. PICK t : t = Append(heap[l], x)
    OBVIOUS
  <1>2. heap[l] \in Seq(Elements) /\ l \notin Maps
    BY HeapHolds, CollectionsAssumption DEF LibraryInv, Colls
  <1>3. t \in Seq(Elements) /\ Extends(t, heap[l])
    BY <1>1, <1>2, Appended DEF Extends
  <1> QED
    BY <1>1, <1>2, <1>3 DEF UserChange, ListAdd, Contents

LEMMA ListAddAllChange ==
  ASSUME LibraryInv, NEW l \in Lists, NEW c \in Lists \cup SetColls, ListAddAll(l, c)
  PROVE  UserChange(l, heap[l] \o IterableValues(c), TRUE)
  <1>1. PICK t : t = heap[l] \o IterableValues(c)
    OBVIOUS
  <1>2. heap[l] \in Seq(Elements) /\ heap[c] \in Seq(Elements) /\ l \notin Maps
    BY HeapHolds, CollectionsAssumption DEF LibraryInv, Colls
  <1>3. t \in Seq(Elements) /\ Extends(t, heap[l])
    <2>1. PICK a \in Seq(Elements), b \in Seq(Elements) : a = heap[l] /\ b = heap[c]
      BY <1>2
    <2>2. t = a \o b
      BY <1>1, <2>1 DEF IterableValues
    <2>3. /\ Len(a) \in Nat /\ Len(b) \in Nat /\ Len(t) = Len(a) + Len(b) /\ t \in Seq(Elements)
          /\ \A i \in 1 .. Len(a) : t[i] = a[i]
      BY <2>2, Joined
    <2>4. Len(a) <= Len(t)
      BY <2>3
    <2> QED
      BY <2>1, <2>3, <2>4 DEF Extends
  <1> QED
    BY <1>1, <1>2, <1>3 DEF UserChange, ListAddAll, Contents

LEMMA ListSetAtChange ==
  ASSUME LibraryInv, NEW l \in Lists, NEW i \in 1 .. MaxSize, NEW x \in Elements, ListSetAt(l, i, x)
  PROVE  UserChange(l, [heap[l] EXCEPT ![i] = x], FALSE)
  <1>1. PICK t : t = [heap[l] EXCEPT ![i] = x]
    OBVIOUS
  <1>2. heap[l] \in Seq(Elements) /\ l \notin Maps
    BY HeapHolds, CollectionsAssumption DEF LibraryInv, Colls
  <1>3. t \in Seq(Elements)
    BY <1>1, <1>2, Stored
  <1> QED
    BY <1>1, <1>2, <1>3 DEF UserChange, ListSetAt, Contents

LEMMA PartOf ==
  ASSUME NEW S, NEW s \in Seq(S), NEW m \in Nat, m >= 1, NEW n \in Int, n <= Len(s)
  PROVE  SubSeq(s, m, n) \in Seq(S)
  <1>1. \A i \in m .. n : i \in 1 .. Len(s)
    BY LenProperties
  <1>2. \A i \in m .. n : s[i] \in S
    BY <1>1, ElementOfSeq
  <1> QED
    BY <1>2, SubSeqProperties

LEMMA ListInsertAtChange ==
  ASSUME LibraryInv, NEW l \in Lists, NEW i \in 1 .. MaxSize, NEW x \in Elements,
         ListInsertAt(l, i, x)
  PROVE  UserChange(l, SubSeq(heap[l], 1, i - 1) \o <<x>> \o SubSeq(heap[l], i, Len(heap[l])), FALSE)
  <1>1. heap[l] \in Seq(Elements) /\ l \notin Maps
    BY HeapHolds, CollectionsAssumption DEF LibraryInv, Colls
  <1>2. Len(heap[l]) \in Nat /\ i \in 1 .. Len(heap[l]) + 1
    BY <1>1, LenProperties DEF ListInsertAt
  <1>3. PICK a : a = SubSeq(heap[l], 1, i - 1)
    OBVIOUS
  <1>4. PICK b : b = SubSeq(heap[l], i, Len(heap[l]))
    OBVIOUS
  <1>5. a \in Seq(Elements) /\ b \in Seq(Elements) /\ <<x>> \in Seq(Elements)
    BY <1>1, <1>2, <1>3, <1>4, PartOf
  <1>6. a \o <<x>> \o b \in Seq(Elements)
    BY <1>5, ConcatProperties
  <1> QED
    BY <1>1, <1>3, <1>4, <1>6 DEF UserChange, ListInsertAt, Contents

LEMMA ListRemoveAtChange ==
  ASSUME LibraryInv, NEW l \in Lists, NEW i \in 1 .. MaxSize, ListRemoveAt(l, i)
  PROVE  UserChange(l, RemoveIndex(heap[l], i), FALSE)
  <1>1. heap[l] \in Seq(Elements) /\ l \notin Maps
    BY HeapHolds, CollectionsAssumption DEF LibraryInv, Colls
  <1>2. Len(heap[l]) \in Nat /\ i \in 1 .. Len(heap[l])
    BY <1>1, LenProperties DEF ListRemoveAt
  <1>3. PICK a : a = SubSeq(heap[l], 1, i - 1)
    OBVIOUS
  <1>4. PICK b : b = SubSeq(heap[l], i + 1, Len(heap[l]))
    OBVIOUS
  <1>5. a \in Seq(Elements) /\ b \in Seq(Elements)
    BY <1>1, <1>2, <1>3, <1>4, PartOf
  <1>6. RemoveIndex(heap[l], i) \in Seq(Elements)
    BY <1>3, <1>4, <1>5, ConcatProperties DEF RemoveIndex
  <1> QED
    BY <1>1, <1>6 DEF UserChange, ListRemoveAt, Contents

LEMMA MapClearChange ==
  ASSUME LibraryInv, NEW m \in Maps, MapClear(m)
  PROVE  UserChange(m, <<>>, FALSE)
  <1>1. <<>> \in Contents(m) /\ m \in Lists \cup Maps
    BY DEF Contents
  <1>2. UserCode /\ Change(m, <<>>, FALSE) /\ UNCHANGED calls
    BY DEF MapClear
  <1> QED
    BY <1>1, <1>2 DEF UserChange

-----------------------------------------------------------------------------
(* Traversals. *)

LEMMA StartEachSteps ==
  ASSUME LibraryInv, NEW op \in EachOps, NEW c \in Colls, StartEach(op, c)
  PROVE  LibraryInv' /\ (QuietInv => QuietInv')
  <1>1. PICK s \in Seq(Anything) : s = heap[c]
    BY HeapHolds DEF LibraryInv
  <1>2. PICK a : a = EachCall(op, c)
    OBVIOUS
  <1>3. s # <<>> /\ Len(s) \in Nat \ {0} /\ s[1] \in Anything
    BY <1>1, EmptySeq, LenProperties, ElementOfSeq DEF StartEach
  <1>4. a = [kind |-> "each", op |-> op, on |-> c, values |-> s, pos |-> 1,
             acc |-> <<>>, seen |-> <<s[1]>>, start |-> s]
    BY <1>1, <1>2 DEF EachCall
  <1>5. a \in Eachs
    <2>1. <<>> \in Seq(Anything) /\ <<s[1]>> \in Seq(Anything)
      BY <1>3
    <2> QED
      BY <1>4, <2>1 DEF Eachs
  <1>6. EachGood(a)
    <2>1. Len(<<s[1]>>) = 1 /\ <<s[1]>>[1] = s[1]
      OBVIOUS
    <2>2. Prefix(<<s[1]>>, s, 1)
      BY <1>3, <2>1 DEF Prefix
    <2> QED
      BY <1>3, <1>4, <2>2 DEF EachGood
  <1>7. a \in Activations(Len(iters))
    BY <1>5, <1>6 DEF Activations
  <1>8. /\ calls' = Append(calls, a) /\ used < Budget /\ used' = used + 1
        /\ heap' = heap /\ iters' = iters /\ touched' = touched /\ failure' = failure
    BY <1>2 DEF StartEach, UserCode
  <1>9. calls \in Seq(Activations(Len(iters))) /\ calls' \in Seq(Activations(Len(iters)))
    BY <1>7, <1>8 DEF LibraryInv
  <1>10. LibraryInv'
    BY <1>8, <1>9, UsedOnce DEF LibraryInv
  <1>11. ASSUME Quiet PROVE Quiet'
    <2>1. c \in SetColls => EachBuilds(a)
      <3>1. c \in SetColls => Unique(s)
        BY <1>1, <1>11 DEF Quiet, HeapUnique
      <3>2. Unique(<<>>)
        BY DEF Unique
      <3> QED
        BY <1>4, <3>1, <3>2 DEF EachBuilds
    <2>2. Undisturbed(a, heap)
      BY <1>4, <2>1 DEF Undisturbed
    <2>3. AllUndisturbed(calls', heap)
      BY <1>8, <1>9, <1>11, <2>2, QuietAppend DEF Quiet
    <2> QED
      BY <1>8, <1>11, <2>3 DEF Quiet
  <1> QED
    BY <1>8, <1>10, <1>11 DEF QuietInv

(* What a traversal keeps is a sequence; of a set, one without repetition. *)
KeptOf(a, acc) ==
  /\ Unique(acc)
  /\ a.op = "filter" => \A i \in 1 .. Len(acc) : \E j \in 1 .. a.pos : acc[i] = a.values[j]

LEMMA AbsorbGood ==
  ASSUME LibraryInv, NEW a \in Eachs, EachGood(a), NEW r \in Answers(a.op),
         NEW acc, acc = Absorb(a.op, a.on, a.acc, a.values[a.pos], r)
  PROVE  /\ acc \in Seq(Anything)
         /\ a.on \in SetColls /\ EachBuilds(a) => KeptOf(a, acc)
  <1>1. /\ a.acc \in Seq(Anything) /\ a.values \in Seq(Anything) /\ a.on \in Colls
        /\ a.pos \in 1 .. Len(a.values)
    BY DEF Eachs, EachGood
  <1>2. a.values[a.pos] \in Anything /\ Len(a.values) \in Nat /\ Len(a.acc) \in Nat
    BY <1>1, ElementOfSeq, LenProperties
  <1>3. CASE a.op = "map"
    <2>1. r \in Anything
      BY <1>3 DEF Answers, Anything
    <2>2. acc = IF a.on \in SetColls THEN PushUnique(a.acc, r) ELSE Append(a.acc, r)
      BY <1>3 DEF Absorb
    <2>3. PushUnique(a.acc, r) \in Seq(Anything) /\ Append(a.acc, r) \in Seq(Anything)
      <3>1. PICK s \in Seq(Anything) : s = a.acc
        BY <1>1
      <3>2. PICK t : t = Append(s, r)
        OBVIOUS
      <3>3. t \in Seq(Anything) /\ PushUnique(s, r) \in Seq(Anything)
        BY <2>1, <3>2, Appended, PushUniqueGood
      <3> QED
        BY <3>1, <3>2, <3>3
    <2>4. Unique(a.acc) => Unique(PushUnique(a.acc, r))
      BY <1>1, <2>1, PushUniqueGood
    <2> QED
      BY <1>3, <2>2, <2>3, <2>4 DEF EachBuilds, KeptOf
  <1>4. CASE a.op = "flatMap"
    <2>1. heap[r] \in Seq(Anything)
      BY <1>4, HeapHolds DEF Answers, LibraryInv, Colls
    <2>2. acc = IF a.on \in SetColls THEN PushAllUnique(a.acc, heap[r]) ELSE a.acc \o heap[r]
      BY <1>4 DEF Absorb
    <2>3. PushAllUnique(a.acc, heap[r]) \in Seq(Anything) /\ a.acc \o heap[r] \in Seq(Anything)
      BY <1>1, <2>1, PushAllUniqueGood
    <2>4. Unique(a.acc) => Unique(PushAllUnique(a.acc, heap[r]))
      BY <1>1, <2>1, PushAllUniqueGood
    <2> QED
      BY <1>4, <2>2, <2>3, <2>4 DEF EachBuilds, KeptOf
  <1>5. CASE a.op = "filter"
    <2>1. acc = IF r THEN Append(a.acc, a.values[a.pos]) ELSE a.acc
      BY <1>5 DEF Absorb
    <2>2. CASE ~r
      <3>1. acc = a.acc
        BY <2>1, <2>2
      <3> QED
        <4>1. ASSUME EachBuilds(a) PROVE KeptOf(a, acc)
          <5>1. ASSUME NEW i \in 1 .. Len(acc) PROVE \E j \in 1 .. a.pos : acc[i] = a.values[j]
            <6>1. PICK j \in 1 .. a.pos - 1 : a.acc[i] = a.values[j]
              BY <1>5, <3>1, <4>1 DEF EachBuilds
            <6>2. j \in 1 .. a.pos
              BY <1>1, <1>2
            <6> QED
              BY <3>1, <6>1, <6>2
          <5> QED
            BY <3>1, <4>1, <5>1 DEF EachBuilds, KeptOf
        <4> QED
          BY <1>1, <3>1, <4>1
    <2>3. CASE r
      <3>1. acc = Append(a.acc, a.values[a.pos])
        BY <2>1, <2>3
      <3>2. PICK x : x = a.values[a.pos]
        OBVIOUS
      <3>3. PICK s : s = a.acc
        OBVIOUS
      <3>4. s \in Seq(Anything) /\ x \in Anything /\ acc = Append(s, x)
        BY <1>1, <1>2, <3>1, <3>2, <3>3
      <3>5. /\ Len(s) \in Nat /\ Len(acc) = Len(s) + 1 /\ acc[Len(s) + 1] = x
            /\ \A i \in 1 .. Len(s) : acc[i] = s[i]
            /\ acc \in Seq(Anything)
        BY <3>4, Appended
      <3>6. ASSUME EachBuilds(a)
            PROVE  /\ Unique(acc)
                   /\ \A i \in 1 .. Len(acc) : \E j \in 1 .. a.pos : acc[i] = a.values[j]
        <4>1. \A i \in 1 .. Len(s) : \E j \in 1 .. a.pos - 1 : s[i] = a.values[j]
          BY <1>5, <3>3, <3>6 DEF EachBuilds
        <4>2. Unique(s) /\ Unique(a.values)
          BY <3>3, <3>6 DEF EachBuilds
        <4>3. \A i \in 1 .. Len(s) : s[i] # x
          <5> SUFFICES ASSUME NEW i \in 1 .. Len(s), s[i] = x PROVE FALSE
            OBVIOUS
          <5>1. PICK j \in 1 .. a.pos - 1 : s[i] = a.values[j]
            BY <4>1
          <5>2. j \in 1 .. Len(a.values) /\ j # a.pos
            BY <1>1, <1>2
          <5> QED
            BY <1>1, <3>2, <4>2, <5>1, <5>2, UniqueSeq
        <4>4. Unique(acc)
          BY <3>4, <4>2, <4>3, UniqueAppend
        <4>5. ASSUME NEW i \in 1 .. Len(acc) PROVE \E j \in 1 .. a.pos : acc[i] = a.values[j]
          <5>1. CASE i = Len(s) + 1
            BY <1>1, <3>2, <3>5, <5>1
          <5>2. CASE i # Len(s) + 1
            <6>1. i \in 1 .. Len(s)
              BY <3>5, <5>2
            <6>2. PICK j \in 1 .. a.pos - 1 : s[i] = a.values[j]
              BY <4>1, <6>1
            <6>3. j \in 1 .. a.pos
              BY <1>1, <1>2
            <6> QED
              BY <3>5, <6>1, <6>2, <6>3
          <5> QED
            BY <5>1, <5>2
        <4> QED
          BY <4>4, <4>5
      <3> QED
        BY <3>5, <3>6 DEF KeptOf
    <2> QED
      BY <2>2, <2>3
  <1>6. CASE a.op \in {"exists", "forAll"}
    <2>1. acc = <<r>> /\ r \in Anything
      BY <1>6 DEF Absorb, Answers, Anything
    <2>2. Unique(<<r>>)
      BY DEF Unique
    <2> QED
      BY <1>6, <2>1, <2>2 DEF KeptOf
  <1>7. CASE a.op \notin {"map", "flatMap", "filter", "exists", "forAll"}
    <2>1. acc = <<>>
      BY <1>7 DEF Absorb
    <2>2. Unique(<<>>)
      BY DEF Unique
    <2> QED
      BY <1>7, <2>1, <2>2 DEF KeptOf
  <1> QED
    BY <1>3, <1>4, <1>5, <1>6, <1>7

LEMMA MovedRecord ==
  ASSUME NEW K, NEW O, NEW C, NEW V, NEW N,
         NEW a \in [kind : K, op : O, on : C, values : V, pos : N, acc : V, seen : V, start : V],
         NEW p \in N, NEW acc \in V, NEW seen \in V,
         NEW b, b = [a EXCEPT !.pos = p, !.acc = acc, !.seen = seen]
  PROVE  /\ b \in [kind : K, op : O, on : C, values : V, pos : N, acc : V, seen : V, start : V]
         /\ b.kind = a.kind /\ b.values = a.values /\ b.pos = p
         /\ b.seen = seen /\ b.acc = acc /\ b.on = a.on /\ b.op = a.op /\ b.start = a.start
  OBVIOUS

LEMMA EachReturnsSteps ==
  ASSUME LibraryInv, EachReturns
  PROVE  LibraryInv' /\ (QuietInv => QuietInv')
  <1>1. Busy /\ Top.kind = "each" /\ UNCHANGED <<heap, iters, used, touched, failure>>
    BY DEF EachReturns, Inside
  <1>2. PICK n : n = Len(iters)
    OBVIOUS
  <1>3. PICK a : a = Top
    OBVIOUS
  <1>4. /\ a \in Activations(n) /\ a \in Eachs /\ EachGood(a) /\ Below \in Seq(Activations(n))
    BY <1>1, <1>2, <1>3, TopBelow, Kinds
  <1>5. PICK r \in Answers(a.op) :
          calls' = IF a.pos = Len(a.values) \/ StopsOn(a.op, r)
                   THEN Below
                   ELSE Append(Below, [a EXCEPT !.pos = @ + 1,
                          !.acc = Absorb(a.op, a.on, a.acc, a.values[a.pos], r),
                          !.seen = Append(@, EachItem(a, a.pos + 1))])
    BY <1>3 DEF EachReturns
  <1>6. Quiet => AllUndisturbed(Below, heap) /\ Undisturbed(a, heap)
    BY <1>1, <1>3, QuietBelow DEF Quiet
  <1>7. CASE a.pos = Len(a.values) \/ StopsOn(a.op, r)
    <2>1. calls' = Below
      BY <1>5, <1>7
    <2>2. LibraryInv'
      BY <1>1, <1>2, <1>4, <2>1 DEF LibraryInv
    <2> QED
      BY <1>1, <1>6, <2>1, <2>2 DEF QuietInv, Quiet
  <1>8. CASE ~(a.pos = Len(a.values) \/ StopsOn(a.op, r))
    <2>1. PICK acc : acc = Absorb(a.op, a.on, a.acc, a.values[a.pos], r)
      OBVIOUS
    <2>2. PICK seen : seen = Append(a.seen, a.values[a.pos + 1])
      OBVIOUS
    <2>3. PICK b : b = [a EXCEPT !.pos = a.pos + 1, !.acc = acc, !.seen = seen]
      OBVIOUS
    <2>4. calls' = Append(Below, b)
      BY <1>5, <1>8, <2>1, <2>2, <2>3 DEF EachItem
    <2>5. acc \in Seq(Anything) /\ (a.on \in SetColls /\ EachBuilds(a) => KeptOf(a, acc))
      BY <1>4, <2>1, AbsorbGood
    <2>6. /\ a.values = a.start /\ a.values \in Seq(Anything) /\ a.seen \in Seq(Anything)
          /\ a.pos \in Nat /\ Len(a.values) \in Nat /\ a.pos \in 1 .. Len(a.values)
          /\ a.pos < Len(a.values) /\ Prefix(a.seen, a.values, a.pos)
      BY <1>4, <1>8, LenProperties DEF Eachs, EachGood
    <2>7. Prefix(seen, a.values, a.pos + 1) /\ seen \in Seq(Anything)
      BY <2>2, <2>6, PrefixGrows
    <2>8. /\ b \in Eachs /\ b.kind = "each" /\ b.values = a.values /\ b.pos = a.pos + 1
          /\ b.seen = seen /\ b.acc = acc /\ b.on = a.on /\ b.op = a.op /\ b.start = a.start
      <3>1. a.pos + 1 \in Nat
        BY <2>6
      <3>2. a \in [kind : {"each"}, op : EachOps, on : Colls, values : Seq(Anything), pos : Nat,
                   acc : Seq(Anything), seen : Seq(Anything), start : Seq(Anything)]
        BY <1>4 DEF Eachs
      <3>3. /\ b \in [kind : {"each"}, op : EachOps, on : Colls, values : Seq(Anything), pos : Nat,
                      acc : Seq(Anything), seen : Seq(Anything), start : Seq(Anything)]
            /\ b.kind = a.kind /\ b.values = a.values /\ b.pos = a.pos + 1
            /\ b.seen = seen /\ b.acc = acc /\ b.on = a.on /\ b.op = a.op /\ b.start = a.start
        BY <2>3, <2>5, <2>7, <3>1, <3>2, MovedRecord
      <3> QED
        BY <3>2, <3>3 DEF Eachs
    <2>9. EachGood(b)
      BY <2>6, <2>7, <2>8 DEF EachGood
    <2>10. b \in Activations(n)
      BY <2>8, <2>9 DEF Activations
    <2>11. calls' \in Seq(Activations(n))
      BY <1>4, <2>4, <2>10
    <2>12. LibraryInv'
      BY <1>1, <1>2, <2>11 DEF LibraryInv
    <2>13. ASSUME Quiet PROVE Undisturbed(b, heap)
      <3> SUFFICES ASSUME b.on \in SetColls PROVE EachBuilds(b)
        BY <2>8 DEF Undisturbed
      <3>1. EachBuilds(a)
        BY <1>1, <1>3, <1>6, <2>8, <2>13 DEF Undisturbed
      <3>2. KeptOf(a, acc)
        <4>1. a.on \in SetColls
          BY <2>8
        <4> QED
          BY <2>5, <3>1, <4>1
      <3>3. (a.pos + 1) - 1 = a.pos
        BY <2>6
      <3> QED
        BY <2>8, <3>1, <3>2, <3>3 DEF EachBuilds, KeptOf
    <2>14. Quiet => AllUndisturbed(calls', heap)
      BY <1>4, <1>6, <2>4, <2>13, QuietAppend
    <2> QED
      BY <1>1, <2>12, <2>14 DEF QuietInv, Quiet
  <1> QED
    BY <1>7, <1>8

-----------------------------------------------------------------------------
(* Sorting. *)

LEMMA PermutedSelf ==
  ASSUME NEW S, NEW s \in Seq(S)
  PROVE  Permuted(s, s)
  <1>1. Len(s) \in Nat
    BY LenProperties
  <1>2. PICK p : p = [k \in 1 .. Len(s) |-> k]
    OBVIOUS
  <1>3. p \in [1 .. Len(s) -> 1 .. Len(s)] /\ \A k \in 1 .. Len(s) : p[k] = k
    BY <1>2
  <1> QED
    BY <1>1, <1>3 DEF Permuted, Rearranged

LEMMA ExchangeGood ==
  ASSUME NEW S, NEW s \in Seq(S), NEW i \in 1 .. Len(s), NEW j \in 1 .. Len(s), i # j
  PROVE  /\ Exchange(s, i, j) \in Seq(S) /\ Len(Exchange(s, i, j)) = Len(s)
         /\ \A k \in 1 .. Len(s) :
              Exchange(s, i, j)[k] = IF k = i THEN s[j] ELSE IF k = j THEN s[i] ELSE s[k]
  <1>1. PICK x \in S, y \in S : x = s[i] /\ y = s[j]
    BY ElementOfSeq
  <1>2. PICK u : u = [s EXCEPT ![i] = y]
    OBVIOUS
  <1>3. PICK t : t = [u EXCEPT ![j] = x]
    OBVIOUS
  <1>4. Exchange(s, i, j) = t
    BY <1>1, <1>2, <1>3 DEF Exchange
  <1>5. /\ u \in Seq(S) /\ Len(u) = Len(s) /\ Len(s) \in Nat
        /\ \A k \in 1 .. Len(s) : u[k] = IF k = i THEN y ELSE s[k]
    BY <1>2, Stored
  <1>6. /\ t \in Seq(S) /\ Len(t) = Len(u)
        /\ \A k \in 1 .. Len(u) : t[k] = IF k = j THEN x ELSE u[k]
    BY <1>3, <1>5, Stored
  <1> QED
    BY <1>1, <1>4, <1>5, <1>6

LEMMA ExchangePermutes ==
  ASSUME NEW S, NEW s \in Seq(S), NEW i \in 1 .. Len(s), NEW j \in 1 .. Len(s), i # j,
         NEW start, Permuted(s, start)
  PROVE  Permuted(Exchange(s, i, j), start)
  <1>1. PICK n \in Nat : n = Len(s)
    BY LenProperties
  <1>2. PICK t : t = Exchange(s, i, j)
    OBVIOUS
  <1>3. /\ Len(t) = n
        /\ \A k \in 1 .. n : t[k] = IF k = i THEN s[j] ELSE IF k = j THEN s[i] ELSE s[k]
    BY <1>1, <1>2, ExchangeGood
  <1>4. PICK p \in [1 .. n -> 1 .. n] :
          /\ \A k \in 1 .. n : s[k] = start[p[k]]
          /\ \A k \in 1 .. n : \E m \in 1 .. n : p[m] = k
    <2>1. Rearranged(s, start, n)
      BY <1>1 DEF Permuted
    <2> QED
      BY <2>1, Zenon DEF Rearranged
  <1>5. PICK q : q = [k \in 1 .. n |-> IF k = i THEN p[j] ELSE IF k = j THEN p[i] ELSE p[k]]
    OBVIOUS
  <1>6. q \in [1 .. n -> 1 .. n] /\ i \in 1 .. n /\ j \in 1 .. n
    BY <1>1, <1>4, <1>5
  <1>7. ASSUME NEW k \in 1 .. n PROVE t[k] = start[q[k]]
    BY <1>3, <1>4, <1>5, <1>6
  <1>8. ASSUME NEW k \in 1 .. n PROVE \E m \in 1 .. n : q[m] = k
    <2>1. PICK m \in 1 .. n : p[m] = k
      BY <1>4
    <2>2. CASE m = i
      BY <1>5, <1>6, <2>1, <2>2
    <2>3. CASE m = j
      BY <1>5, <1>6, <2>1, <2>3
    <2>4. CASE m # i /\ m # j
      BY <1>5, <1>6, <2>1, <2>4
    <2> QED
      BY <2>2, <2>3, <2>4
  <1>9. Len(start) = n
    BY <1>1 DEF Permuted
  <1> QED
    <2>1. Rearranged(t, start, n)
      BY <1>6, <1>7, <1>8, Zenon DEF Rearranged
    <2>3. Len(t) = Len(start)
      BY <1>3, <1>9
    <2>4. Permuted(t, start)
      BY <1>3, <2>1, <2>3 DEF Permuted
    <2> QED
      BY <1>2, <2>4

LEMMA StartSortSteps ==
  ASSUME LibraryInv, NEW l \in Lists, StartSort(l)
  PROVE  LibraryInv' /\ (QuietInv => QuietInv')
  <1>1. PICK s \in Seq(Elements) : s = heap[l]
    BY HeapHolds DEF LibraryInv, Colls
  <1>2. PICK a : a = SortCall(l)
    OBVIOUS
  <1>3. a = [kind |-> "sort", on |-> l, values |-> s, start |-> s, i |-> 1, j |-> 2]
    BY <1>1, <1>2 DEF SortCall
  <1>4. Len(s) \in Nat /\ Len(s) > 1
    BY <1>1, LenProperties DEF StartSort
  <1>5. a \in Sorts /\ SortGood(a)
    BY <1>3, <1>4, PermutedSelf DEF Sorts, SortGood
  <1>6. /\ calls' = Append(calls, a) /\ used < Budget /\ used' = used + 1
        /\ heap' = heap /\ iters' = iters /\ touched' = touched /\ failure' = failure
    BY <1>2 DEF StartSort, UserCode
  <1>7. a \in Activations(Len(iters))
    BY <1>5 DEF Activations
  <1>8. calls \in Seq(Activations(Len(iters))) /\ calls' \in Seq(Activations(Len(iters)))
    BY <1>6, <1>7 DEF LibraryInv
  <1>9. LibraryInv'
    BY <1>6, <1>8, UsedOnce DEF LibraryInv
  <1>10. Undisturbed(a, heap)
    BY <1>3 DEF Undisturbed
  <1>11. Quiet => Quiet'
    <2>1. Quiet => AllUndisturbed(calls', heap)
      BY <1>6, <1>8, <1>10, QuietAppend DEF Quiet
    <2> QED
      BY <1>6, <2>1 DEF Quiet
  <1> QED
    BY <1>6, <1>9, <1>11 DEF QuietInv

LEMMA SortRecord ==
  ASSUME NEW K, NEW L, NEW V, NEW N,
         NEW a \in [kind : K, on : L, values : V, start : V, i : N, j : N],
         NEW v \in V, NEW i \in N, NEW j \in N,
         NEW b, b = [a EXCEPT !.values = v, !.i = i, !.j = j]
  PROVE  /\ b \in [kind : K, on : L, values : V, start : V, i : N, j : N]
         /\ b.kind = a.kind /\ b.on = a.on /\ b.start = a.start
         /\ b.values = v /\ b.i = i /\ b.j = j
  OBVIOUS

\* The sequence after the comparator has answered.
SortedOnce(a, greater) == IF greater THEN Exchange(a.values, a.i, a.j) ELSE a.values

LEMMA SortedOnceGood ==
  ASSUME NEW a \in Sorts, SortGood(a), NEW greater \in BOOLEAN
  PROVE  /\ SortedOnce(a, greater) \in Seq(Elements)
         /\ Len(SortedOnce(a, greater)) = Len(a.values) /\ Len(a.values) \in Nat
         /\ Permuted(SortedOnce(a, greater), a.start)
  <1>1. PICK s \in Seq(Elements) : s = a.values
    BY DEF Sorts
  <1>2. PICK i \in 1 .. Len(s), j \in 1 .. Len(s) : i = a.i /\ j = a.j /\ i # j
    BY <1>1, LenProperties DEF Sorts, SortGood
  <1>3. PICK t : t = Exchange(s, i, j)
    OBVIOUS
  <1>4. t \in Seq(Elements) /\ Len(t) = Len(s)
    BY <1>2, <1>3, ExchangeGood
  <1>5. Permuted(s, a.start) /\ Permuted(t, a.start)
    BY <1>1, <1>2, <1>3, ExchangePermutes DEF SortGood
  <1>6. SortedOnce(a, greater) = IF greater THEN t ELSE s
    BY <1>1, <1>2, <1>3 DEF SortedOnce
  <1> QED
    BY <1>1, <1>4, <1>5, <1>6, LenProperties

\* The next pair of positions.
NextPair(a) == IF a.j < Len(a.values) THEN <<a.i, a.j + 1>> ELSE <<a.i + 1, a.i + 2>>

LEMMA NextPairGood ==
  ASSUME NEW a \in Sorts, SortGood(a)
  PROVE  /\ NextPair(a)[1] \in Nat /\ NextPair(a)[2] \in Nat
         /\ 1 <= NextPair(a)[1] /\ NextPair(a)[1] < NextPair(a)[2]
  BY LenProperties DEF Sorts, SortGood, NextPair

SortGoesOn(a, values) ==
  /\ NextPair(a)[2] <= Len(values)
  /\ calls' = Append(Below, [a EXCEPT !.values = values, !.i = NextPair(a)[1], !.j = NextPair(a)[2]])
  /\ UNCHANGED <<heap, iters, used, touched, failure>>
SortDies == failure' = "abort" /\ touched' = TRUE /\ UNCHANGED <<heap, iters, calls, used>>
SortEnds(a, values) ==
  /\ calls' = Below
  /\ heap' = [heap EXCEPT ![a.on] = values]
  /\ iters' = [k \in DOMAIN iters |-> [iters[k] EXCEPT !.shifted = @ \/ iters[k].list = a.on]]
  /\ touched' = (touched \/ Searched(a.on))
  /\ UNCHANGED <<used, failure>>

(* The comparator returns: the sort goes on, or dies, or ends with values. *)
LEMMA SortOutcomes ==
  ASSUME LibraryInv, NEW greater \in BOOLEAN, SortReturns(greater), NEW a, a = Top,
         NEW values, values = SortedOnce(a, greater)
  PROVE  SortGoesOn(a, values) \/ SortDies \/ SortEnds(a, values)
  <1>1. Busy /\ Top.kind = "sort"
    BY DEF SortReturns, Inside
  <1>2. a \in Sorts /\ SortGood(a)
    BY <1>1, TopBelow, Kinds
  <1>3. Len(values) = Len(a.values)
    BY <1>2, SortedOnceGood
  <1>4. values = IF greater THEN Exchange(Top.values, Top.i, Top.j) ELSE Top.values
    BY DEF SortedOnce
  <1>5. NextPair(a) = IF Top.j < Len(values) THEN <<Top.i, Top.j + 1>> ELSE <<Top.i + 1, Top.i + 2>>
    BY <1>3 DEF NextPair
  <1> QED
    BY <1>4, <1>5 DEF SortReturns, SortGoesOn, SortDies, SortEnds

LEMMA SortReturnsInv ==
  ASSUME LibraryInv, NEW greater \in BOOLEAN, SortReturns(greater)
  PROVE  LibraryInv'
  <1>1. PICK a : a = Top
    OBVIOUS
  <1>2. PICK values : values = SortedOnce(a, greater)
    OBVIOUS
  <1>3. PICK n : n = Len(iters)
    OBVIOUS
  <1>4. Busy /\ a.kind = "sort"
    BY <1>1 DEF SortReturns, Inside
  <1>5. a \in Sorts /\ SortGood(a) /\ Below \in Seq(Activations(n))
    BY <1>1, <1>3, <1>4, TopBelow, Kinds
  <1>6. values \in Seq(Elements) /\ Len(values) \in Nat /\ Permuted(values, a.start)
    BY <1>2, <1>5, SortedOnceGood, LenProperties
  <1>7. CASE SortGoesOn(a, values)
    <2>1. PICK i \in Nat, j \in Nat : i = NextPair(a)[1] /\ j = NextPair(a)[2] /\ 1 <= i /\ i < j
      BY <1>5, NextPairGood
    <2>2. PICK b : b = [a EXCEPT !.values = values, !.i = i, !.j = j]
      OBVIOUS
    <2>3. /\ b \in [kind : {"sort"}, on : Lists, values : Seq(Elements), start : Seq(Elements),
                    i : Nat, j : Nat]
          /\ b.start = a.start /\ b.values = values /\ b.i = i /\ b.j = j
      BY <1>5, <1>6, <2>2, SortRecord DEF Sorts
    <2>4. b \in Sorts /\ SortGood(b)
      BY <1>6, <1>7, <2>1, <2>3 DEF Sorts, SortGood, SortGoesOn
    <2>5. b \in Activations(n) /\ calls' = Append(Below, b)
      BY <1>7, <2>1, <2>2, <2>4 DEF Activations, SortGoesOn
    <2>6. calls' \in Seq(Activations(n))
      BY <1>5, <2>5
    <2> QED
      BY <1>3, <1>7, <2>6 DEF LibraryInv, SortGoesOn
  <1>8. CASE SortDies
    BY <1>8 DEF LibraryInv, SortDies
  <1>9. CASE SortEnds(a, values)
    <2>1. a.on \in Lists /\ a.on \in Colls /\ values \in Contents(a.on)
      BY <1>5, <1>6, CollectionsAssumption DEF Sorts, Colls, Contents
    <2>2. PICK h, g : h = heap /\ g = heap'
      OBVIOUS
    <2>3. PICK its, ots : its = iters /\ ots = iters'
      OBVIOUS
    <2>4. HeapTyped(h) /\ ItersGood(its, h) /\ StoredAt(g, h, a.on, values)
      BY <1>9, <2>2, <2>3 DEF LibraryInv, StoredAt, SortEnds
    <2>5. HeapTyped(g) /\ \A d \in Colls : d # a.on => g[d] = h[d]
      BY <2>1, <2>4, HeapStore
    <2>6. ots = [k \in DOMAIN its |-> [its[k] EXCEPT !.shifted = @ \/ its[k].list = a.on]]
      BY <1>9, <2>3 DEF SortEnds
    <2>7. ots = [k \in DOMAIN its |->
                  [its[k] EXCEPT !.shifted = @ \/ (its[k].list = a.on /\ ~FALSE)]]
      BY <2>6, Zenon
    <2>8. \A l \in Lists : l # a.on => g[l] = h[l]
      BY <2>5 DEF Colls
    <2>9. ItersGood(ots, g) /\ Len(ots) = Len(its)
      <3>0. PICK no \in BOOLEAN : no = FALSE
        OBVIOUS
      <3>1. PICK c : c = a.on /\ no = FALSE
        BY <3>0
      <3>2. ots = [k \in DOMAIN its |-> [its[k] EXCEPT !.shifted = @ \/ (its[k].list = c /\ ~no)]]
        BY <2>7, <3>1, Zenon
      <3>3. no /\ c \in Lists => Extends(g[c], h[c])
        BY <3>1
      <3>4. \A l \in Lists : l # c => g[l] = h[l]
        BY <2>8, <3>1
      <3> QED
        BY <2>4, <2>5, <3>2, <3>3, <3>4, ItersShift
    <2>10. touched' \in BOOLEAN
      BY <1>9, Zenon DEF SortEnds
    <2> QED
      BY <1>3, <1>5, <1>9, <2>2, <2>3, <2>5, <2>9, <2>10 DEF LibraryInv, SortEnds
  <1> QED
    BY <1>1, <1>2, <1>7, <1>8, <1>9, SortOutcomes

LEMMA SortReturnsQuiet ==
  ASSUME LibraryInv, QuietInv, NEW greater \in BOOLEAN, SortReturns(greater)
  PROVE  QuietInv'
  <1>1. PICK a : a = Top
    OBVIOUS
  <1>2. PICK values : values = SortedOnce(a, greater)
    OBVIOUS
  <1>3. PICK n : n = Len(iters)
    OBVIOUS
  <1>4. Busy /\ a.kind = "sort"
    BY <1>1 DEF SortReturns, Inside
  <1>5. a \in Sorts /\ SortGood(a) /\ Below \in Seq(Activations(n))
    BY <1>1, <1>3, <1>4, TopBelow, Kinds
  <1>6. values \in Seq(Elements) /\ Len(values) \in Nat
    BY <1>2, <1>5, SortedOnceGood, LenProperties
  <1> SUFFICES ASSUME ~touched' PROVE Quiet'
    BY DEF QuietInv
  <1>7. CASE SortGoesOn(a, values)
    <2>1. PICK b : b = [a EXCEPT !.values = values, !.i = NextPair(a)[1], !.j = NextPair(a)[2]]
      OBVIOUS
    <2>2. b.kind = "sort"
      BY <1>5, <2>1 DEF Sorts
    <2>3. Undisturbed(b, heap) /\ calls' = Append(Below, b)
      BY <1>7, <2>1, <2>2 DEF Undisturbed, SortGoesOn
    <2>4. Quiet
      BY <1>7 DEF QuietInv, SortGoesOn
    <2>5. AllUndisturbed(Below, heap)
      BY <1>4, <2>4, QuietBelow DEF Quiet
    <2>6. AllUndisturbed(calls', heap)
      BY <1>5, <2>3, <2>5, QuietAppend
    <2> QED
      BY <1>7, <2>4, <2>6 DEF Quiet, SortGoesOn
  <1>8. CASE SortDies
    BY <1>8 DEF SortDies
  <1>9. CASE SortEnds(a, values)
    <2>1. a.on \in Lists /\ a.on \in Colls /\ values \in Contents(a.on)
      BY <1>5, <1>6, CollectionsAssumption DEF Sorts, Colls, Contents
    <2>2. PICK h, g : h = heap /\ g = heap'
      OBVIOUS
    <2>3. HeapTyped(h) /\ StoredAt(g, h, a.on, values)
      BY <1>9, <2>2 DEF LibraryInv, StoredAt, SortEnds
    <2>4. \A d \in Colls : d # a.on => g[d] = h[d]
      BY <2>1, <2>3, HeapStore
    <2>5. Quiet /\ ~Searched(a.on)
      BY <1>9 DEF QuietInv, SortEnds
    <2>6. HeapUnique(g)
      <3>1. \A s \in SetColls : g[s] = h[s]
        BY <2>1, <2>4, CollectionsAssumption DEF Colls
      <3>2. \A m \in Maps : g[m] = h[m]
        BY <2>1, <2>4, CollectionsAssumption DEF Colls
      <3>3. HeapUnique(h)
        BY <2>2, <2>5 DEF Quiet
      <3> QED
        BY <3>1, <3>2, <3>3 DEF HeapUnique
    <2>7. AllUndisturbed(Below, g)
      <3>1. PICK cs : cs = Below
        OBVIOUS
      <3>2. cs \in Seq(Activations(n)) /\ AllUndisturbed(cs, h)
        BY <1>4, <1>5, <2>2, <2>5, <3>1, QuietBelow DEF Quiet
      <3>3. \A i \in 1 .. Len(cs) : ~(cs[i].kind = "search" /\ cs[i].on = a.on)
        <4>1. DOMAIN calls = 1 .. Len(calls)
          BY LenProperties DEF LibraryInv
        <4>2. /\ Len(cs) = Len(calls) - 1 /\ Len(calls) \in Nat
              /\ \A i \in 1 .. Len(cs) : cs[i] = calls[i]
          BY <1>4, <3>1, TopBelow
        <4> QED
          BY <2>5, <4>1, <4>2 DEF Searched
      <3>4. AllUndisturbed(cs, g)
        BY <2>4, <3>2, <3>3, QuietStore
      <3> QED
        BY <3>1, <3>4
    <2> QED
      BY <1>9, <2>2, <2>5, <2>6, <2>7 DEF Quiet, SortEnds
  <1> QED
    BY <1>1, <1>2, <1>7, <1>8, <1>9, SortOutcomes

-----------------------------------------------------------------------------
(* Searches. *)

LEMMA Searching ==
  ASSUME NEW c \in Colls, NEW op \in SearchOps(c)
  PROVE  /\ op \in {"contains", "add", "put", "get"}
         /\ op = "contains" => c \in Lists
         /\ op = "add" => c \in SetColls /\ c \notin Lists /\ c \notin Maps
         /\ op = "put" => c \in Maps /\ c \notin Lists /\ c \notin SetColls
         /\ op = "get" => c \in Maps
  BY CollectionsAssumption DEF SearchOps, Colls

\* The entries of a map after put.
LEMMA MapPutGood ==
  ASSUME NEW s \in Seq(Pairs), NEW k \in Elements, NEW v \in Elements, NEW position \in 0 .. Len(s)
  PROVE  /\ MapPut(s, k, v, position) \in Seq(Pairs)
         /\ Unique(Keys(s)) /\ (position = 0 => \A j \in 1 .. Len(s) : s[j][1] # k)
              => Unique(Keys(MapPut(s, k, v, position)))
  <1>1. Len(s) \in Nat /\ DOMAIN s = 1 .. Len(s)
    BY LenProperties
  <1>2. \A j \in 1 .. Len(s) : s[j] \in Pairs
    BY ElementOfSeq
  <1>3. PICK t \in Seq(Pairs) : t = MapPut(s, k, v, position)
    <2>1. CASE position = 0
      <3>1. PICK e \in Pairs : e = <<k, v>>
        BY DEF Pairs
      <3>2. Append(s, e) \in Seq(Pairs)
        OBVIOUS
      <3> QED
        BY <2>1, <3>1, <3>2 DEF MapPut
    <2>2. CASE position # 0
      <3>1. s[position] \in Pairs
        BY <1>1, <1>2, <2>2
      <3>2. PICK e \in Pairs : e = <<s[position][1], v>>
        BY <3>1 DEF Pairs
      <3>3. PICK t : t = [s EXCEPT ![position] = e]
        OBVIOUS
      <3>4. t \in Seq(Pairs)
        BY <3>3, Stored
      <3> QED
        BY <2>2, <3>2, <3>3, <3>4 DEF MapPut
    <2> QED
      BY <2>1, <2>2
  <1>4. ASSUME Unique(Keys(s)), position = 0 => \A j \in 1 .. Len(s) : s[j][1] # k
        PROVE  Unique(Keys(t))
    <2>1. \A i, j \in 1 .. Len(s) : s[i][1] = s[j][1] => i = j
      BY <1>1, <1>4 DEF Unique, Keys
    <2>2. DOMAIN t = 1 .. Len(t) /\ Len(t) \in Nat
      BY LenProperties
    <2>3. ASSUME NEW i \in 1 .. Len(t), NEW j \in 1 .. Len(t), t[i][1] = t[j][1] PROVE i = j
      <3>1. CASE position = 0
        <4>1. PICK e : e = <<k, v>>
          OBVIOUS
        <4>2. t = Append(s, e) /\ e[1] = k
          BY <1>3, <3>1, <4>1 DEF MapPut
        <4>3. /\ Len(t) = Len(s) + 1 /\ t[Len(s) + 1] = e
              /\ \A m \in 1 .. Len(s) : t[m] = s[m]
          BY <4>2, Appended
        <4> QED
          BY <1>1, <1>4, <2>1, <2>3, <3>1, <4>2, <4>3
      <3>2. CASE position # 0
        <4>1. PICK e : e = <<s[position][1], v>>
          OBVIOUS
        <4>2. t = [s EXCEPT ![position] = e] /\ e[1] = s[position][1]
          BY <1>3, <3>2, <4>1 DEF MapPut
        <4>3. Len(t) = Len(s) /\ \A m \in 1 .. Len(s) : t[m] = IF m = position THEN e ELSE s[m]
          BY <4>2, Stored
        <4>4. \A m \in 1 .. Len(s) : t[m][1] = s[m][1]
          BY <4>2, <4>3
        <4> QED
          BY <2>1, <2>3, <4>3, <4>4
      <3> QED
        BY <3>1, <3>2
    <2>4. Keys(t) = [i \in 1 .. Len(t) |-> t[i][1]]
      BY <2>2 DEF Keys
    <2> QED
      BY <2>3, <2>4 DEF Unique
  <1> QED
    BY <1>3, <1>4

\* What the search makes of its collection, s.
Outcome(op, s, x, v, position) ==
  CASE op = "add" -> InsertUnique(s, x, position)
    [] op = "put" /\ position <= Len(s) -> MapPut(s, x, v, position)
    [] OTHER -> s
OutOfRange(op, c, position) == op = "put" /\ position > Len(heap[c])

\* A search that may end: what its parts are.
Ending(op, c, x, v, position, todo, rest) ==
  /\ c \in Colls /\ op \in SearchOps(c) /\ x \in Elements /\ v \in Elements
  /\ position \in Nat /\ todo \in Seq(Elements) /\ (op # "add" => todo = <<>>)
  /\ rest \in Seq(Activations(Len(iters)))
\* It knows where the needle is.
Located(c, x, position) ==
  /\ position <= Len(heap[c])
  /\ position = 0 => \A j \in 1 .. Len(heap[c]) : KeyOf(c, heap[c], j) # x

LEMMA OutcomeGood ==
  ASSUME LibraryInv, NEW op, NEW c, NEW x, NEW v, NEW position, NEW todo, NEW rest,
         Ending(op, c, x, v, position, todo, rest),
         NEW s, s = heap[c], NEW t, t = Outcome(op, s, x, v, position)
  PROVE  /\ t \in Contents(c) /\ t \in Seq(Anything)
         /\ c \in Lists => t = s
         /\ Located(c, x, position) =>
              /\ op = "add" => Len(t) >= 1
              /\ c \in SetColls /\ Unique(s) => Unique(t)
              /\ c \in Maps /\ Unique(Keys(s)) => Unique(Keys(t))
  <1>1. /\ c \in Colls /\ op \in SearchOps(c) /\ x \in Elements /\ v \in Elements
        /\ position \in Nat
    BY DEF Ending
  <1>2. /\ s \in Contents(c) /\ s \in Seq(Anything)
        /\ c \in Lists \cup SetColls => s \in Seq(Elements)
        /\ c \in Maps => s \in Seq(Pairs)
    BY <1>1, HeapHolds DEF LibraryInv
  <1>3. Len(s) \in Nat
    BY <1>2, LenProperties
  <1>4. Elements \subseteq Anything /\ Pairs \subseteq Anything
    BY DEF Anything
  <1>5. CASE op = "add"
    <2>1. c \in SetColls /\ c \notin Lists /\ c \notin Maps /\ s \in Seq(Elements)
      BY <1>1, <1>2, <1>5, Searching
    <2>2. t = IF position = 0 THEN Append(s, x) ELSE s
      BY <1>5 DEF Outcome, InsertUnique
    <2>3. PICK u : u = Append(s, x)
      OBVIOUS
    <2>4. u \in Seq(Elements) /\ Len(u) = Len(s) + 1
      BY <1>1, <2>1, <2>3, Appended
    <2>5. t \in Seq(Elements)
      BY <2>1, <2>2, <2>3, <2>4
    <2>6. t \in Contents(c) /\ t \in Seq(Anything)
      BY <1>4, <2>1, <2>5, Widened DEF Contents
    <2>7. ASSUME Located(c, x, position)
          PROVE  Len(t) >= 1 /\ (Unique(s) => Unique(t))
      <3>1. position <= Len(s) /\ (position = 0 => \A j \in 1 .. Len(s) : s[j] # x)
        BY <2>1, <2>7 DEF Located, KeyOf
      <3>2. CASE position = 0
        <4>1. Unique(s) => Unique(u)
          BY <1>1, <2>1, <2>3, <3>1, <3>2, UniqueAppend
        <4> QED
          BY <1>3, <2>2, <2>3, <2>4, <3>2, <4>1
      <3>3. CASE position # 0
        BY <1>1, <1>3, <2>2, <3>1, <3>3
      <3> QED
        BY <3>2, <3>3
    <2> QED
      BY <1>5, <2>1, <2>6, <2>7
  <1>6. CASE op = "put" /\ position <= Len(s)
    <2>1. c \in Maps /\ c \notin Lists /\ c \notin SetColls /\ s \in Seq(Pairs)
      BY <1>1, <1>2, <1>6, Searching
    <2>2. t = MapPut(s, x, v, position) /\ position \in 0 .. Len(s)
      BY <1>1, <1>3, <1>6 DEF Outcome
    <2>3. t \in Seq(Pairs)
      BY <1>1, <2>1, <2>2, MapPutGood
    <2>4. t \in Contents(c) /\ t \in Seq(Anything)
      BY <1>4, <2>1, <2>3, Widened DEF Contents
    <2>5. ASSUME Located(c, x, position), Unique(Keys(s)) PROVE Unique(Keys(t))
      <3>1. position = 0 => \A j \in 1 .. Len(s) : s[j][1] # x
        BY <2>1, <2>5 DEF Located, KeyOf
      <3> QED
        BY <1>1, <2>1, <2>2, <2>5, <3>1, MapPutGood
    <2> QED
      BY <1>6, <2>1, <2>4, <2>5
  <1>7. CASE op # "add" /\ ~(op = "put" /\ position <= Len(s))
    <2>1. t = s
      BY <1>7 DEF Outcome
    <2> QED
      BY <1>2, <1>7, <2>1
  <1> QED
    BY <1>5, <1>6, <1>7

\* What Conclude does, by name: t is what the collection holds then.
Concludes(op, c, x, position, todo, rest, t) ==
  /\ calls' = IF todo = <<>> THEN rest ELSE Append(rest, SearchCall(op, c, t, Head(todo), Tail(todo)))
  /\ IF OutOfRange(op, c, position)
     THEN failure' = "abort" /\ heap' = heap /\ touched' = touched
     ELSE /\ heap' = [heap EXCEPT ![c] = t]
          /\ touched' = (touched \/ (t # heap[c]
                          /\ \E i \in DOMAIN rest : rest[i].kind = "search" /\ rest[i].on = c))
          /\ failure' = failure
  /\ iters' = iters

LEMMA ConcludeConcludes ==
  ASSUME NEW op, NEW c, NEW x, NEW v, NEW position, NEW todo, NEW rest,
         Len(heap[c]) \in Nat, position \in Nat,
         Conclude(op, c, x, v, position, todo, rest),
         NEW s, s = heap[c], NEW t, t = Outcome(op, s, x, v, position)
  PROVE  Concludes(op, c, x, position, todo, rest, t)
  <1>1. t = CASE op = "add" -> InsertUnique(heap[c], x, position)
              [] op = "put" /\ ~(op = "put" /\ position > Len(heap[c])) -> MapPut(heap[c], x, v, position)
              [] OTHER -> heap[c]
    <2>1. CASE op = "add"
      BY <2>1 DEF Outcome
    <2>2. CASE op = "put" /\ position <= Len(heap[c])
      <3>1. ~(position > Len(heap[c])) /\ op # "add"
        BY <2>2
      <3> QED
        BY <2>2, <3>1 DEF Outcome
    <2>3. CASE op # "add" /\ ~(op = "put" /\ position <= Len(heap[c]))
      <3>1. op = "put" => position > Len(heap[c])
        BY <2>3
      <3> QED
        BY <2>3, <3>1 DEF Outcome
    <2> QED
      BY <2>1, <2>2, <2>3
  <1>2. OutOfRange(op, c, position) <=> op = "put" /\ position > Len(heap[c])
    BY DEF OutOfRange
  <1> QED
    BY <1>1, <1>2, Zenon DEF Conclude, Concludes

LEMMA NewSearch ==
  ASSUME NEW c \in Colls, NEW op \in SearchOps(c), NEW t \in Seq(Anything), NEW x \in Elements,
         NEW todo \in Seq(Elements), op # "add" => todo = <<>>, NEW n,
         NEW a, a = SearchCall(op, c, t, x, todo)
  PROVE  /\ a \in Activations(n) /\ a.kind = "search" /\ a.on = c /\ a.values = t /\ a.pos = 1
  <1>1. a = [kind |-> "search", op |-> op, on |-> c, values |-> t, pos |-> 1, needle |-> x, todo |-> todo]
    BY DEF SearchCall
  <1>2. op \in {"contains", "add", "put", "get"}
    BY Searching
  <1>3. a \in Searches
    BY <1>1, <1>2 DEF Searches
  <1>4. SearchGood(a)
    BY <1>1 DEF SearchGood
  <1> QED
    BY <1>1, <1>3, <1>4 DEF Activations

\* The next search of addAll.
LEMMA NextSearch ==
  ASSUME NEW op, NEW c, NEW t \in Seq(Anything), NEW todo \in Seq(Elements), todo # <<>>,
         op = "add", c \in Colls, op \in SearchOps(c), NEW n,
         NEW a, a = SearchCall(op, c, t, Head(todo), Tail(todo))
  PROVE  /\ a \in Activations(n) /\ a.kind = "search" /\ a.on = c /\ a.values = t /\ a.pos = 1
  <1>1. PICK x \in Elements, rest \in Seq(Elements) : x = Head(todo) /\ rest = Tail(todo)
    BY HeadTailProperties
  <1>2. a = SearchCall(op, c, t, x, rest)
    BY <1>1
  <1> QED
    BY <1>2, NewSearch

LEMMA ConcludeInv ==
  ASSUME LibraryInv, NEW op, NEW c, NEW x, NEW v, NEW position, NEW todo, NEW rest,
         Ending(op, c, x, v, position, todo, rest),
         Conclude(op, c, x, v, position, todo, rest), used' \in 0 .. Budget
  PROVE  LibraryInv'
  <1>1. PICK s : s = heap[c]
    OBVIOUS
  <1>2. PICK t : t = Outcome(op, s, x, v, position)
    OBVIOUS
  <1>3. /\ c \in Colls /\ op \in SearchOps(c) /\ x \in Elements /\ v \in Elements
        /\ position \in Nat /\ todo \in Seq(Elements) /\ (op # "add" => todo = <<>>)
        /\ rest \in Seq(Activations(Len(iters)))
    BY DEF Ending
  <1>4. t \in Contents(c) /\ t \in Seq(Anything) /\ (c \in Lists => t = s)
    BY <1>1, <1>2, OutcomeGood
  <1>5. Len(heap[c]) \in Nat
    BY <1>3, HeapHolds, LenProperties DEF LibraryInv
  <1>6. Concludes(op, c, x, position, todo, rest, t)
    BY <1>1, <1>2, <1>3, <1>5, ConcludeConcludes
  <1>7. calls' \in Seq(Activations(Len(iters)))
    <2>1. CASE todo = <<>>
      BY <1>3, <1>6, <2>1 DEF Concludes
    <2>2. CASE todo # <<>>
      <3>1. PICK a : a = SearchCall(op, c, t, Head(todo), Tail(todo))
        OBVIOUS
      <3>2. a \in Activations(Len(iters))
        BY <1>3, <1>4, <2>2, <3>1, NextSearch
      <3>3. calls' = Append(rest, a)
        BY <1>6, <2>2, <3>1 DEF Concludes
      <3> QED
        BY <1>3, <3>2, <3>3
    <2> QED
      BY <2>1, <2>2
  <1>8. iters' = iters
    BY <1>6 DEF Concludes
  <1>9. CASE OutOfRange(op, c, position)
    <2>1. failure' = "abort" /\ heap' = heap /\ touched' = touched
      BY <1>6, <1>9 DEF Concludes
    <2> QED
      BY <1>7, <1>8, <2>1 DEF LibraryInv
  <1>10. CASE ~OutOfRange(op, c, position)
    <2>1. heap' = [heap EXCEPT ![c] = t] /\ failure' = failure /\ touched' \in BOOLEAN
      BY <1>6, <1>10, Zenon DEF Concludes
    <2>2. PICK h, g : h = heap /\ g = heap'
      OBVIOUS
    <2>3. HeapTyped(h) /\ StoredAt(g, h, c, t)
      BY <2>1, <2>2 DEF LibraryInv, StoredAt
    <2>4. HeapTyped(g) /\ g[c] = t /\ \A d \in Colls : d # c => g[d] = h[d]
      BY <1>3, <1>4, <2>3, HeapStore
    <2>5. \A l \in Lists : g[l] = h[l]
      BY <1>1, <1>4, <2>2, <2>4 DEF Colls
    <2>6. ItersGood(iters, g)
      <3>1. PICK its : its = iters
        OBVIOUS
      <3>2. ItersGood(its, h)
        BY <2>2, <3>1 DEF LibraryInv
      <3> QED
        BY <2>5, <3>1, <3>2, ItersStay
    <2> QED
      BY <1>7, <1>8, <2>1, <2>2, <2>4, <2>6 DEF LibraryInv
  <1> QED
    BY <1>9, <1>10

LEMMA ConcludeQuiet ==
  ASSUME LibraryInv, NEW op, NEW c, NEW x, NEW v, NEW position, NEW todo, NEW rest,
         Ending(op, c, x, v, position, todo, rest),
         Conclude(op, c, x, v, position, todo, rest),
         touched \/ (Quiet /\ Located(c, x, position) /\ AllUndisturbed(rest, heap))
  PROVE  QuietInv'
  <1>1. PICK s : s = heap[c]
    OBVIOUS
  <1>2. PICK t : t = Outcome(op, s, x, v, position)
    OBVIOUS
  <1>3. /\ c \in Colls /\ op \in SearchOps(c) /\ x \in Elements /\ v \in Elements
        /\ position \in Nat /\ todo \in Seq(Elements) /\ (op # "add" => todo = <<>>)
        /\ rest \in Seq(Activations(Len(iters)))
    BY DEF Ending
  <1>4. t \in Contents(c) /\ t \in Seq(Anything) /\ (c \in Lists => t = s)
    BY <1>1, <1>2, OutcomeGood
  <1>5. Len(heap[c]) \in Nat
    BY <1>3, HeapHolds, LenProperties DEF LibraryInv
  <1>6. Concludes(op, c, x, position, todo, rest, t)
    BY <1>1, <1>2, <1>3, <1>5, ConcludeConcludes
  <1> SUFFICES ASSUME ~touched' PROVE Quiet'
    BY DEF QuietInv
  <1>7. ~touched
    BY <1>6 DEF Concludes
  <1>8. Quiet /\ Located(c, x, position) /\ AllUndisturbed(rest, heap)
    BY <1>7
  <1>9. /\ op = "add" => Len(t) >= 1
        /\ c \in SetColls /\ Unique(s) => Unique(t)
        /\ c \in Maps /\ Unique(Keys(s)) => Unique(Keys(t))
    BY <1>1, <1>2, <1>8, OutcomeGood
  <1>10. ~OutOfRange(op, c, position)
    BY <1>3, <1>5, <1>8 DEF OutOfRange, Located
  <1>11. /\ heap' = [heap EXCEPT ![c] = t] /\ failure' = failure
         /\ t = s \/ \A i \in DOMAIN rest : ~(rest[i].kind = "search" /\ rest[i].on = c)
    BY <1>1, <1>6, <1>10 DEF Concludes
  <1>12. PICK h, g : h = heap /\ g = heap'
    OBVIOUS
  <1>13. g[c] = t /\ \A d \in Colls : d # c => g[d] = h[d]
    <2>1. HeapTyped(h) /\ StoredAt(g, h, c, t)
      BY <1>11, <1>12 DEF LibraryInv, StoredAt
    <2> QED
      BY <1>3, <1>4, <2>1, HeapStore
  <1>14. HeapUnique(g)
    <2>1. HeapUnique(h)
      BY <1>8, <1>12 DEF Quiet
    <2>2. ASSUME NEW d \in SetColls PROVE Unique(g[d])
      <3>1. d \in Colls /\ Unique(h[d])
        BY <2>1 DEF HeapUnique, Colls
      <3> QED
        BY <1>1, <1>9, <1>12, <1>13, <3>1
    <2>3. ASSUME NEW d \in Maps PROVE Unique(Keys(g[d]))
      <3>1. d \in Colls /\ Unique(Keys(h[d]))
        BY <2>1 DEF HeapUnique, Colls
      <3> QED
        BY <1>1, <1>9, <1>12, <1>13, <3>1
    <2> QED
      BY <2>2, <2>3 DEF HeapUnique
  <1>15. AllUndisturbed(rest, g)
    <2>1. DOMAIN rest = 1 .. Len(rest)
      BY <1>3, LenProperties
    <2>2. CASE t = s
      <3>1. \A d \in Colls : g[d] = h[d]
        BY <1>1, <1>12, <1>13, <2>2
      <3> SUFFICES ASSUME NEW i \in 1 .. Len(rest) PROVE Undisturbed(rest[i], g)
        BY DEF AllUndisturbed
      <3>2. rest[i] \in Activations(Len(iters)) /\ Undisturbed(rest[i], h)
        BY <1>3, <1>8, <1>12, ElementOfSeq DEF AllUndisturbed
      <3>3. ASSUME rest[i].kind = "search" PROVE SearchFresh(rest[i], g)
        <4>1. rest[i].on \in Colls
          BY <3>2, <3>3, Kinds DEF Searches
        <4>2. g[rest[i].on] = h[rest[i].on]
          BY <3>1, <4>1
        <4> QED
          BY <3>2, <3>3, <4>2 DEF Undisturbed, SearchFresh
      <3> QED
        BY <3>2, <3>3 DEF Undisturbed
    <2>3. CASE t # s
      <3>1. \A i \in 1 .. Len(rest) : ~(rest[i].kind = "search" /\ rest[i].on = c)
        BY <1>11, <2>1, <2>3
      <3>2. AllUndisturbed(rest, h)
        BY <1>8, <1>12
      <3> QED
        BY <1>3, <1>13, <3>1, <3>2, QuietStore
    <2> QED
      BY <2>2, <2>3
  <1>16. AllUndisturbed(calls', g)
    <2>1. CASE todo = <<>>
      BY <1>6, <1>15, <2>1 DEF Concludes
    <2>2. CASE todo # <<>>
      <3>1. PICK a : a = SearchCall(op, c, t, Head(todo), Tail(todo))
        OBVIOUS
      <3>2. a.kind = "search" /\ a.on = c /\ a.values = t /\ a.pos = 1
        BY <1>3, <1>4, <2>2, <3>1, NextSearch
      <3>3. calls' = Append(rest, a)
        BY <1>6, <2>2, <3>1 DEF Concludes
      <3>4. SearchFresh(a, g)
        BY <1>3, <1>9, <1>13, <2>2, <3>2 DEF SearchFresh
      <3>5. Undisturbed(a, g)
        BY <3>2, <3>4 DEF Undisturbed
      <3>6. AllUndisturbed(Append(rest, a), g)
        BY <1>3, <1>15, <3>5, QuietAppend
      <3> QED
        BY <3>3, <3>6
    <2> QED
      BY <2>1, <2>2
  <1>17. failure' # "abort"
    BY <1>8, <1>11 DEF Quiet
  <1> QED
    BY <1>12, <1>14, <1>16, <1>17 DEF Quiet

LEMMA StartSearchSteps ==
  ASSUME LibraryInv, NEW c \in Colls, NEW op \in SearchOps(c), NEW x \in Elements,
         NEW todo \in Seq(Elements), op # "add" => todo = <<>>, StartSearch(op, c, x, todo)
  PROVE  LibraryInv' /\ (QuietInv => QuietInv')
  <1>1. PICK s \in Seq(Anything) : s = heap[c]
    BY HeapHolds DEF LibraryInv
  <1>2. used < Budget /\ used' = used + 1 /\ used' \in 0 .. Budget
    BY UsedOnce DEF StartSearch, UserCode
  <1>3. calls \in Seq(Activations(Len(iters)))
    BY DEF LibraryInv
  <1>4. CASE heap[c] = <<>>
    <2>1. PICK v \in Elements : Conclude(op, c, x, v, 0, todo, calls)
      BY <1>4 DEF StartSearch
    <2>2. Ending(op, c, x, v, 0, todo, calls)
      BY <1>3 DEF Ending
    <2>3. LibraryInv'
      BY <1>2, <2>1, <2>2, ConcludeInv
    <2>4. Located(c, x, 0)
      BY <1>4 DEF Located
    <2>5. ASSUME QuietInv PROVE QuietInv'
      <3>1. touched \/ (Quiet /\ Located(c, x, 0) /\ AllUndisturbed(calls, heap))
        BY <2>4, <2>5 DEF QuietInv, Quiet
      <3> QED
        BY <2>1, <2>2, <3>1, ConcludeQuiet
    <2> QED
      BY <2>3, <2>5
  <1>5. CASE heap[c] # <<>>
    <2>1. PICK a : a = SearchCall(op, c, s, x, todo)
      OBVIOUS
    <2>2. /\ calls' = Append(calls, a) /\ heap' = heap /\ iters' = iters
          /\ touched' = touched /\ failure' = failure
      BY <1>1, <1>5, <2>1 DEF StartSearch
    <2>3. /\ a \in Activations(Len(iters)) /\ a.kind = "search" /\ a.on = c
          /\ a.values = s /\ a.pos = 1
      BY <2>1, NewSearch
    <2>4. calls' \in Seq(Activations(Len(iters)))
      BY <1>3, <2>2, <2>3
    <2>5. LibraryInv'
      BY <1>2, <2>2, <2>4 DEF LibraryInv
    <2>6. Len(s) >= 1
      BY <1>1, <1>5, EmptySeq, LenProperties
    <2>7. Undisturbed(a, heap)
      BY <1>1, <2>3, <2>6 DEF Undisturbed, SearchFresh
    <2>8. ASSUME Quiet PROVE Quiet'
      <3>1. AllUndisturbed(calls', heap)
        BY <1>3, <2>2, <2>7, <2>8, QuietAppend DEF Quiet
      <3> QED
        BY <2>2, <2>8, <3>1 DEF Quiet
    <2> QED
      BY <2>2, <2>5, <2>8 DEF QuietInv
  <1> QED
    BY <1>4, <1>5

LEMMA SetAddAllSteps ==
  ASSUME LibraryInv, NEW s \in SetColls, NEW l \in Lists, SetAddAll(s, l)
  PROVE  LibraryInv' /\ (QuietInv => QuietInv')
  <1>1. heap[l] \in Seq(Elements) /\ heap[l] # <<>>
    BY HeapHolds DEF LibraryInv, Colls, SetAddAll
  <1>2. PICK x \in Elements, todo \in Seq(Elements) : x = Head(heap[l]) /\ todo = Tail(heap[l])
    BY <1>1, HeadTailProperties
  <1>3. StartSearch("add", s, x, todo)
    BY <1>2 DEF SetAddAll, IterableValues
  <1>4. s \in Colls /\ "add" \in SearchOps(s)
    BY CollectionsAssumption DEF SearchOps, Colls
  <1> QED
    BY <1>3, <1>4, StartSearchSteps

\* One position further.
LEMMA SearchRecord ==
  ASSUME NEW K, NEW O, NEW C, NEW V, NEW N, NEW X, NEW T,
         NEW a \in [kind : K, op : O, on : C, values : V, pos : N, needle : X, todo : T],
         NEW p \in N, NEW b, b = [a EXCEPT !.pos = p]
  PROVE  /\ b \in [kind : K, op : O, on : C, values : V, pos : N, needle : X, todo : T]
         /\ b.kind = a.kind /\ b.op = a.op /\ b.on = a.on /\ b.values = a.values /\ b.pos = p
         /\ b.needle = a.needle /\ b.todo = a.todo
  OBVIOUS

LEMMA EqualsReturnsSteps ==
  ASSUME LibraryInv, EqualsReturns
  PROVE  LibraryInv' /\ (QuietInv => QuietInv')
  <1>1. PICK a : a = Top
    OBVIOUS
  <1>2. PICK n : n = Len(iters)
    OBVIOUS
  <1>3. Busy /\ a.kind = "search" /\ used' = used
    BY <1>1 DEF EqualsReturns, Inside
  <1>4. a \in Searches /\ SearchGood(a) /\ Below \in Seq(Activations(n))
    BY <1>1, <1>2, <1>3, TopBelow, Kinds
  <1>5. /\ a.on \in Colls /\ a.op \in SearchOps(a.on) /\ a.needle \in Elements /\ a.pos \in Nat
        /\ a.pos >= 1 /\ a.todo \in Seq(Elements) /\ (a.op # "add" => a.todo = <<>>)
        /\ a.values \in Seq(Anything) /\ Len(a.values) \in Nat
    BY <1>4, LenProperties DEF Searches, SearchGood
  <1>6. ASSUME Quiet PROVE AllUndisturbed(Below, heap) /\ SearchFresh(a, heap)
    <2>1. AllUndisturbed(Below, heap) /\ Undisturbed(a, heap)
      BY <1>1, <1>3, <1>6, QuietBelow DEF Quiet
    <2> QED
      BY <1>3, <2>1 DEF Undisturbed
  <1>7. KeyAt(a) = KeyOf(a.on, a.values, a.pos)
    BY DEF KeyAt, KeyOf
  <1>8. CASE KeyAt(a) # a.needle /\ a.pos < Len(a.values)
    <2>1. PICK b : b = [a EXCEPT !.pos = a.pos + 1]
      OBVIOUS
    <2>2. /\ calls' = Append(Below, b) /\ heap' = heap /\ iters' = iters
          /\ touched' = touched /\ failure' = failure
      BY <1>1, <1>8, <2>1 DEF EqualsReturns
    <2>3. /\ b \in Searches /\ b.kind = "search" /\ b.op = a.op /\ b.on = a.on
          /\ b.values = a.values /\ b.pos = a.pos + 1 /\ b.needle = a.needle /\ b.todo = a.todo
      <3>1. a.pos + 1 \in Nat
        BY <1>5
      <3> QED
        BY <1>3, <1>4, <2>1, <3>1, SearchRecord DEF Searches
    <2>4. SearchGood(b)
      BY <1>4, <1>5, <2>3 DEF SearchGood
    <2>5. b \in Activations(n)
      BY <2>3, <2>4 DEF Activations
    <2>6. calls' \in Seq(Activations(n))
      BY <1>4, <2>2, <2>5
    <2>7. LibraryInv'
      BY <1>2, <1>3, <2>2, <2>6 DEF LibraryInv
    <2>8. ASSUME Quiet PROVE Quiet'
      <3>1. SearchFresh(a, heap) /\ AllUndisturbed(Below, heap)
        BY <1>6, <2>8
      <3>2. ASSUME NEW j \in 1 .. b.pos - 1 PROVE KeyOf(b.on, b.values, j) # b.needle
        <4>1. j \in 1 .. a.pos - 1 \/ j = a.pos
          BY <1>5, <2>3
        <4> QED
          BY <1>7, <1>8, <2>3, <3>1, <4>1 DEF SearchFresh
      <3>3. SearchFresh(b, heap)
        BY <1>5, <1>8, <2>3, <3>1, <3>2 DEF SearchFresh
      <3>4. Undisturbed(b, heap)
        BY <2>3, <3>3 DEF Undisturbed
      <3>5. AllUndisturbed(calls', heap)
        BY <1>4, <2>2, <3>1, <3>4, QuietAppend
      <3> QED
        BY <2>2, <2>8, <3>5 DEF Quiet
    <2> QED
      BY <2>2, <2>7, <2>8 DEF QuietInv
  <1>9. CASE ~(KeyAt(a) # a.needle /\ a.pos < Len(a.values))
    <2>1. PICK position : position = IF KeyAt(a) = a.needle THEN a.pos ELSE 0
      OBVIOUS
    <2>2. PICK v \in Elements : Conclude(a.op, a.on, a.needle, v, position, a.todo, Below)
      BY <1>1, <1>5, <1>9, <2>1 DEF EqualsReturns
    <2>3. Ending(a.op, a.on, a.needle, v, position, a.todo, Below)
      BY <1>2, <1>4, <1>5, <2>1 DEF Ending
    <2>4. used' \in 0 .. Budget
      BY <1>3 DEF LibraryInv
    <2>5. LibraryInv'
      BY <2>2, <2>3, <2>4, ConcludeInv
    <2>6. ASSUME Quiet PROVE Located(a.on, a.needle, position)
      <3>1. SearchFresh(a, heap)
        BY <1>6, <2>6
      <3>2. position <= Len(heap[a.on])
        BY <1>5, <2>1, <3>1 DEF SearchFresh
      <3>3. ASSUME position = 0, NEW j \in 1 .. Len(heap[a.on])
            PROVE  KeyOf(a.on, heap[a.on], j) # a.needle
        <4>1. KeyAt(a) # a.needle /\ a.pos = Len(a.values) /\ a.values = heap[a.on]
          BY <1>5, <1>9, <2>1, <3>1, <3>3 DEF SearchFresh
        <4>2. j \in 1 .. a.pos - 1 \/ j = a.pos
          BY <1>5, <4>1
        <4> QED
          BY <1>7, <3>1, <4>1, <4>2 DEF SearchFresh
      <3> QED
        BY <3>2, <3>3 DEF Located
    <2>7. ASSUME QuietInv PROVE QuietInv'
      <3>1. touched \/ (Quiet /\ Located(a.on, a.needle, position) /\ AllUndisturbed(Below, heap))
        BY <1>6, <2>6, <2>7 DEF QuietInv
      <3> QED
        BY <2>2, <2>3, <3>1, ConcludeQuiet
    <2> QED
      BY <2>5, <2>7
  <1> QED
    BY <1>8, <1>9

-----------------------------------------------------------------------------
(* Loops and iterators. *)

LEMMA NextRecord ==
  ASSUME NEW L, NEW Q, NEW B, NEW N,
         NEW it \in [live : B, list : L, items : Q, index : N, given : Q, shifted : B],
         NEW n \in N, NEW given \in Q, NEW o, o = [it EXCEPT !.index = n, !.given = given]
  PROVE  /\ o \in [live : B, list : L, items : Q, index : N, given : Q, shifted : B]
         /\ o.index = n /\ o.given = given /\ o.live = it.live /\ o.list = it.list
         /\ o.items = it.items /\ o.shifted = it.shifted
  OBVIOUS

\* An iterator at place k takes its next element.
LEMMA TakesNext ==
  ASSUME NEW h, HeapTyped(h), NEW its, ItersGood(its, h), NEW k \in 1 .. Len(its),
         IterHasNext(its[k], h), NEW ots, ots = [its EXCEPT ![k] = IterNext(its[k], h)]
  PROVE  ItersGood(ots, h) /\ Len(ots) = Len(its)
  <1>1. its \in Seq(Iterators) /\ Len(its) \in Nat
    BY LenProperties DEF ItersGood
  <1>2. PICK it : it = its[k]
    OBVIOUS
  <1>3. it \in Iterators /\ it.index = Len(it.given) /\ InOrder(it, h)
    BY <1>1, <1>2, ElementOfSeq DEF ItersGood
  <1>4. PICK items \in Seq(Elements) : items = Items(it, h)
    <2>1. it.list \in Lists /\ it.items \in Seq(Elements)
      BY <1>3 DEF Iterators
    <2>2. h[it.list] \in Seq(Elements)
      BY <2>1, HeapHolds DEF Colls
    <2> QED
      BY <2>1, <2>2 DEF Items
  <1>5. /\ it.index \in Nat /\ it.index < Len(items) /\ Len(items) \in Nat
        /\ it.given \in Seq(Elements)
    BY <1>2, <1>3, <1>4, LenProperties DEF IterHasNext, Iterators
  <1>6. PICK x \in Elements : x = items[it.index + 1]
    <2>1. it.index + 1 \in 1 .. Len(items)
      BY <1>5
    <2> QED
      BY <2>1, ElementOfSeq
  <1>7. PICK given : given = Append(it.given, x)
    OBVIOUS
  <1>8. given \in Seq(Elements) /\ Len(given) = Len(it.given) + 1
    BY <1>5, <1>7, Appended
  <1>9. PICK o : o = [it EXCEPT !.index = it.index + 1, !.given = given]
    OBVIOUS
  <1>10. IterNext(its[k], h) = o
    BY <1>2, <1>4, <1>6, <1>7, <1>9 DEF IterNext
  <1>11. /\ o \in Iterators /\ o.index = it.index + 1 /\ o.given = given /\ o.live = it.live
         /\ o.list = it.list /\ o.items = it.items /\ o.shifted = it.shifted
    <2>1. it \in [live : BOOLEAN, list : Lists, items : Seq(Elements), index : Nat,
                  given : Seq(Elements), shifted : BOOLEAN]
      BY <1>3 DEF Iterators
    <2>2. it.index + 1 \in Nat
      BY <1>5
    <2>3. /\ o \in [live : BOOLEAN, list : Lists, items : Seq(Elements), index : Nat,
                    given : Seq(Elements), shifted : BOOLEAN]
          /\ o.index = it.index + 1 /\ o.given = given /\ o.live = it.live
          /\ o.list = it.list /\ o.items = it.items /\ o.shifted = it.shifted
      BY <1>8, <1>9, <2>1, <2>2, NextRecord
    <2> QED
      BY <2>3 DEF Iterators
  <1>12. InOrder(o, h)
    <2> SUFFICES ASSUME ~it.shifted \/ ~it.live PROVE Prefix(given, items, it.index + 1)
      BY <1>4, <1>11 DEF InOrder, Items
    <2>1. Prefix(it.given, items, it.index)
      BY <1>3, <1>4 DEF InOrder
    <2> QED
      BY <1>5, <1>6, <1>7, <2>1, PrefixGrows
  <1>13. /\ ots \in Seq(Iterators) /\ Len(ots) = Len(its)
         /\ \A j \in 1 .. Len(its) : ots[j] = IF j = k THEN o ELSE its[j]
    <2>1. ots = [its EXCEPT ![k] = o]
      BY <1>10
    <2> QED
      BY <1>1, <1>11, <2>1, Stored
  <1>14. ASSUME NEW j \in 1 .. Len(ots)
         PROVE  ots[j].index = Len(ots[j].given) /\ InOrder(ots[j], h)
    <2>1. CASE j = k
      BY <1>3, <1>8, <1>11, <1>12, <1>13, <2>1
    <2>2. CASE j # k
      <3>1. ots[j] = its[j] /\ j \in 1 .. Len(its)
        BY <1>13, <2>2
      <3> QED
        BY <3>1 DEF ItersGood
    <2> QED
      BY <2>1, <2>2
  <1> QED
    BY <1>13, <1>14 DEF ItersGood

\* A round of a loop over the iterator at place k.
LEMMA RoundSteps ==
  ASSUME LibraryInv, NEW its, ItersGood(its, heap), Len(its) \in Nat, NEW k \in 1 .. Len(its),
         NEW rest \in Seq(Activations(Len(its))), Round(its, k, rest),
         heap' = heap, touched' = touched, used' \in 0 .. Budget
  PROVE  LibraryInv' /\ (Quiet /\ AllUndisturbed(rest, heap) => Quiet')
  <1>1. PICK h : h = heap
    OBVIOUS
  <1>2. HeapTyped(h) /\ ItersGood(its, h)
    BY <1>1 DEF LibraryInv
  <1>3. CASE ~IterHasNext(its[k], heap)
    <2>1. iters' = its /\ calls' = rest /\ failure' = failure
      BY <1>3 DEF Round
    <2> QED
      BY <2>1 DEF LibraryInv, Quiet
  <1>4. CASE IterHasNext(its[k], heap)
    <2>1. its[k].index \in Nat /\ Len(Items(its[k], heap)) \in Nat
      <3>1. its[k] \in Iterators
        BY ElementOfSeq DEF ItersGood
      <3>2. its[k].list \in Lists /\ its[k].items \in Seq(Elements) /\ its[k].index \in Nat
        BY <3>1 DEF Iterators
      <3>3. h[its[k].list] \in Seq(Elements)
        BY <1>2, <3>2, HeapHolds DEF Colls
      <3> QED
        BY <1>1, <3>2, <3>3, LenProperties DEF Items
    <2>2. ~(its[k].index >= Len(Items(its[k], heap)))
      BY <1>4, <2>1 DEF IterHasNext
    <2>3. PICK a : a = LoopCall(k)
      OBVIOUS
    <2>4. PICK ots : ots = [its EXCEPT ![k] = IterNext(its[k], heap)]
      OBVIOUS
    <2>5. iters' = ots /\ calls' = Append(rest, a) /\ failure' = failure
      BY <1>4, <2>2, <2>3, <2>4 DEF Round
    <2>6. ots = [its EXCEPT ![k] = IterNext(its[k], h)] /\ IterHasNext(its[k], h)
      BY <1>1, <1>4, <2>4
    <2>7. ItersGood(ots, h) /\ Len(ots) = Len(its)
      BY <1>2, <2>6, TakesNext
    <2>8. a \in Activations(Len(its)) /\ a.kind = "loop"
      BY <2>3 DEF LoopCall, Activations, Loops
    <2>9. calls' \in Seq(Activations(Len(its)))
      BY <2>5, <2>8
    <2>10. LibraryInv'
      BY <1>1, <2>5, <2>7, <2>9 DEF LibraryInv
    <2>11. ASSUME Quiet, AllUndisturbed(rest, heap) PROVE Quiet'
      <3>1. Undisturbed(a, heap)
        BY <2>8 DEF Undisturbed
      <3>2. AllUndisturbed(calls', heap)
        BY <2>5, <2>11, <3>1, QuietAppend
      <3> QED
        BY <2>5, <2>11, <3>2 DEF Quiet
    <2> QED
      BY <2>10, <2>11
  <1> QED
    BY <1>3, <1>4

\* There may be one more iterator.
LEMMA MoreActivations ==
  ASSUME NEW n \in Nat, NEW m \in Nat, n <= m
  PROVE  Activations(n) \subseteq Activations(m)
  <1>1. Loops(n) \subseteq Loops(m)
    BY DEF Loops
  <1> QED
    BY <1>1 DEF Activations

LEMMA StartLoopSteps ==
  ASSUME LibraryInv, NEW source \in Lists \cup DOMAIN iters, StartLoop(source)
  PROVE  LibraryInv' /\ (QuietInv => QuietInv')
  <1>1. PICK its : its = IterInit(iters, source)
    OBVIOUS
  <1>2. PICK k : k = IF source \in Lists THEN Len(its) ELSE source
    OBVIOUS
  <1>3. /\ Round(its, k, calls) /\ heap' = heap /\ touched' = touched
        /\ used < Budget /\ used' = used + 1 /\ used' \in 0 .. Budget
    BY <1>1, <1>2, UsedOnce DEF StartLoop, UserCode
  <1>4. /\ iters \in Seq(Iterators) /\ Len(iters) \in Nat /\ DOMAIN iters = 1 .. Len(iters)
        /\ calls \in Seq(Activations(Len(iters)))
    BY LenProperties DEF LibraryInv, ItersGood
  <1>5. /\ ItersGood(its, heap) /\ Len(its) \in Nat /\ k \in 1 .. Len(its)
        /\ Len(iters) <= Len(its)
    <2>1. CASE source \in Lists
      <3>1. PICK it : it = LiveIterator(source)
        OBVIOUS
      <3>2. /\ it \in Iterators /\ it.index = 0 /\ it.given = <<>> /\ it.live = TRUE
            /\ it.list = source
        BY <2>1, <3>1 DEF LiveIterator, Iterators
      <3>3. heap[source] \in Seq(Elements)
        BY <2>1, HeapHolds DEF LibraryInv, Colls
      <3>4. InOrder(it, heap) /\ it.index = Len(it.given)
        BY <3>2, <3>3, LenProperties DEF InOrder, Items, Prefix
      <3>5. PICK old : old = iters
        OBVIOUS
      <3>6. its = Append(old, it) /\ old \in Seq(Iterators)
        BY <1>1, <1>4, <2>1, <3>1, <3>5 DEF IterInit
      <3>7. /\ its \in Seq(Iterators) /\ Len(its) = Len(old) + 1 /\ its[Len(old) + 1] = it
            /\ \A j \in 1 .. Len(old) : its[j] = old[j]
        BY <3>2, <3>6, Appended
      <3>8. ASSUME NEW j \in 1 .. Len(its)
            PROVE  its[j].index = Len(its[j].given) /\ InOrder(its[j], heap)
        <4>1. CASE j = Len(old) + 1
          BY <3>4, <3>7, <4>1
        <4>2. CASE j # Len(old) + 1
          <5>1. j \in 1 .. Len(iters) /\ its[j] = iters[j]
            BY <1>4, <3>5, <3>7, <4>2
          <5> QED
            BY <5>1 DEF LibraryInv, ItersGood
        <4> QED
          BY <4>1, <4>2
      <3>9. ItersGood(its, heap)
        BY <3>7, <3>8 DEF ItersGood
      <3> QED
        BY <1>2, <1>4, <2>1, <3>5, <3>7, <3>9
    <2>2. CASE source \notin Lists
      <3>1. its = iters /\ k = source
        BY <1>1, <1>2, <2>2 DEF IterInit
      <3> QED
        BY <1>4, <2>2, <3>1 DEF LibraryInv
    <2> QED
      BY <2>1, <2>2
  <1>6. calls \in Seq(Activations(Len(its)))
    BY <1>4, <1>5, MoreActivations, Widened
  <1>7. LibraryInv' /\ (Quiet /\ AllUndisturbed(calls, heap) => Quiet')
    BY <1>3, <1>5, <1>6, RoundSteps
  <1> QED
    BY <1>3, <1>7 DEF QuietInv, Quiet

LEMMA BodyReturnsSteps ==
  ASSUME LibraryInv, BodyReturns
  PROVE  LibraryInv' /\ (QuietInv => QuietInv')
  <1>1. PICK k : k = Top.iter
    OBVIOUS
  <1>2. PICK its : its = iters
    OBVIOUS
  <1>3. Busy /\ Top.kind = "loop" /\ Round(its, k, Below) /\ UNCHANGED <<heap, used, touched>>
    BY <1>1, <1>2 DEF BodyReturns, Inside
  <1>4. Top \in Loops(Len(iters)) /\ Below \in Seq(Activations(Len(its)))
    BY <1>2, <1>3, TopBelow, Kinds
  <1>5. k \in 1 .. Len(its)
    BY <1>1, <1>2, <1>4 DEF Loops
  <1>6. ItersGood(its, heap) /\ Len(its) \in Nat
    BY <1>2, LenProperties DEF LibraryInv, ItersGood
  <1>7. used' \in 0 .. Budget
    BY <1>3 DEF LibraryInv
  <1>8. LibraryInv' /\ (Quiet /\ AllUndisturbed(Below, heap) => Quiet')
    BY <1>3, <1>4, <1>5, <1>6, <1>7, RoundSteps
  <1>9. Quiet => AllUndisturbed(Below, heap)
    BY <1>3, QuietBelow DEF Quiet
  <1> QED
    BY <1>3, <1>8, <1>9 DEF QuietInv

LEMMA BodyBreaksSteps ==
  ASSUME LibraryInv, BodyBreaks
  PROVE  LibraryInv' /\ (QuietInv => QuietInv')
  <1>1. Busy /\ calls' = Below /\ UNCHANGED <<heap, iters, used, touched, failure>>
    BY DEF BodyBreaks, Inside
  <1>2. Below \in Seq(Activations(Len(iters)))
    BY <1>1, TopBelow
  <1>3. LibraryInv'
    BY <1>1, <1>2 DEF LibraryInv
  <1>4. Quiet => AllUndisturbed(Below, heap)
    BY <1>1, QuietBelow DEF Quiet
  <1> QED
    BY <1>1, <1>3, <1>4 DEF QuietInv, Quiet

\* An error ends every activation.
LEMMA AllEnd ==
  ASSUME LibraryInv, calls' = <<>>, used' \in 0 .. Budget, UNCHANGED <<heap, iters, touched, failure>>
  PROVE  LibraryInv' /\ (QuietInv => QuietInv')
  <1>1. LibraryInv'
    BY DEF LibraryInv
  <1>2. AllUndisturbed(calls', heap)
    BY NothingDisturbed
  <1> QED
    BY <1>1, <1>2 DEF QuietInv, Quiet

LEMMA UserNextSteps ==
  ASSUME LibraryInv, NEW k \in DOMAIN iters, UserNext(k)
  PROVE  LibraryInv' /\ (QuietInv => QuietInv')
  <1>1. used' \in 0 .. Budget /\ UNCHANGED <<heap, touched, failure>>
    BY UsedOnce DEF UserNext, UserCode
  <1>2. CASE IterHasNext(iters[k], heap)
    <2>1. PICK h, its, ots : h = heap /\ its = iters /\ ots = iters'
      OBVIOUS
    <2>2. HeapTyped(h) /\ ItersGood(its, h) /\ k \in 1 .. Len(its) /\ IterHasNext(its[k], h)
      BY <1>2, <2>1, LenProperties DEF LibraryInv, ItersGood
    <2>3. ots = [its EXCEPT ![k] = IterNext(its[k], h)] /\ calls' = calls
      BY <1>2, <2>1 DEF UserNext
    <2>4. ItersGood(ots, h) /\ Len(ots) = Len(its)
      BY <2>2, <2>3, TakesNext
    <2>5. LibraryInv'
      BY <1>1, <2>1, <2>3, <2>4 DEF LibraryInv
    <2> QED
      BY <1>1, <2>3, <2>5 DEF QuietInv, Quiet
  <1>3. CASE ~IterHasNext(iters[k], heap)
    <2>1. calls' = <<>> /\ iters' = iters
      BY <1>3 DEF UserNext
    <2> QED
      BY <1>1, <2>1, AllEnd
  <1> QED
    BY <1>2, <1>3

LEMMA UserFailsSteps ==
  ASSUME LibraryInv, UserFails
  PROVE  LibraryInv' /\ (QuietInv => QuietInv')
  <1>1. used' \in 0 .. Budget /\ calls' = <<>> /\ UNCHANGED <<heap, iters, touched, failure>>
    BY UsedOnce DEF UserFails
  <1> QED
    BY <1>1, AllEnd

-----------------------------------------------------------------------------
(* Every step. *)

LEMMA ListSteps ==
  ASSUME LibraryInv, NEW l \in Lists, NEW i \in 1 .. MaxSize, NEW x \in Elements,
         ListAdd(l, x) \/ ListSetAt(l, i, x) \/ ListInsertAt(l, i, x) \/ ListRemoveAt(l, i)
  PROVE  LibraryInv' /\ (QuietInv => QuietInv')
  <1>1. CASE ListAdd(l, x)
    BY <1>1, ListAddChange, ChangeInv, ChangeQuiet
  <1>2. CASE ListSetAt(l, i, x)
    BY <1>2, ListSetAtChange, ChangeInv, ChangeQuiet
  <1>3. CASE ListInsertAt(l, i, x)
    BY <1>3, ListInsertAtChange, ChangeInv, ChangeQuiet
  <1>4. CASE ListRemoveAt(l, i)
    BY <1>4, ListRemoveAtChange, ChangeInv, ChangeQuiet
  <1> QED
    BY <1>1, <1>2, <1>3, <1>4

LEMMA NextSteps ==
  ASSUME LibraryInv, [Next]_vars
  PROVE  LibraryInv' /\ (QuietInv => QuietInv')
  <1>1. CASE ChangeList
    BY <1>1, ListSteps DEF ChangeList
  <1>2. ASSUME NEW l \in Lists, NEW c \in Lists \cup SetColls, ListAddAll(l, c)
        PROVE  LibraryInv' /\ (QuietInv => QuietInv')
    BY <1>2, ListAddAllChange, ChangeInv, ChangeQuiet
  <1>3. ASSUME NEW m \in Maps, MapClear(m) PROVE LibraryInv' /\ (QuietInv => QuietInv')
    BY <1>3, MapClearChange, ChangeInv, ChangeQuiet
  <1>4. ASSUME NEW op \in EachOps, NEW c \in Colls, StartEach(op, c)
        PROVE  LibraryInv' /\ (QuietInv => QuietInv')
    BY <1>4, StartEachSteps
  <1>5. CASE EachReturns
    BY <1>5, EachReturnsSteps
  <1>6. ASSUME NEW l \in Lists, StartSort(l) PROVE LibraryInv' /\ (QuietInv => QuietInv')
    BY <1>6, StartSortSteps
  <1>7. ASSUME NEW greater \in BOOLEAN, SortReturns(greater)
        PROVE  LibraryInv' /\ (QuietInv => QuietInv')
    BY <1>7, SortReturnsInv, SortReturnsQuiet
  <1>8. ASSUME NEW c \in Colls, NEW x \in Elements, NEW op \in SearchOps(c), StartSearch(op, c, x, <<>>)
        PROVE  LibraryInv' /\ (QuietInv => QuietInv')
    <2>1. <<>> \in Seq(Elements)
      OBVIOUS
    <2> QED
      BY <1>8, <2>1, StartSearchSteps
  <1>9. ASSUME NEW s \in SetColls, NEW l \in Lists, SetAddAll(s, l)
        PROVE  LibraryInv' /\ (QuietInv => QuietInv')
    BY <1>9, SetAddAllSteps
  <1>10. CASE EqualsReturns
    BY <1>10, EqualsReturnsSteps
  <1>11. ASSUME NEW source \in Lists \cup DOMAIN iters, StartLoop(source)
         PROVE  LibraryInv' /\ (QuietInv => QuietInv')
    BY <1>11, StartLoopSteps
  <1>12. CASE BodyReturns
    BY <1>12, BodyReturnsSteps
  <1>13. CASE BodyBreaks
    BY <1>13, BodyBreaksSteps
  <1>14. ASSUME NEW k \in DOMAIN iters, UserNext(k) PROVE LibraryInv' /\ (QuietInv => QuietInv')
    BY <1>14, UserNextSteps
  <1>15. CASE UserFails
    BY <1>15, UserFailsSteps
  <1>16. CASE UNCHANGED vars
    BY <1>16 DEF vars, LibraryInv, QuietInv, Quiet
  <1>17. CASE Done
    BY <1>16, <1>17 DEF Done
  <1> QED
    BY <1>1, <1>2, <1>3, <1>4, <1>5, <1>6, <1>7, <1>8, <1>9, <1>10, <1>11, <1>12, <1>13,
       <1>14, <1>15, <1>16, <1>17 DEF Next

(* The invariant of every behaviour: an iterator has given a prefix of what   *)
(* it was opened on, unless it reads a list that has shifted under it; a      *)
(* traversal has seen a prefix of what it was called on; a running sort holds *)
(* a permutation of it; and until an equals method has changed what is        *)
(* searched, elements of sets and keys of maps are unique and every search is *)
(* about what its collection holds (interpreter.rs IteratorState, iter_next,  *)
(* vector_type.rs, set_type.rs, map_type.rs).                                 *)
THEOREM CollectionsInvariant == Spec => [](LibraryInv /\ QuietInv)
  <1>1. Init => LibraryInv /\ QuietInv
    BY InitInv
  <1>2. LibraryInv /\ QuietInv /\ [Next]_vars => (LibraryInv /\ QuietInv)'
    BY NextSteps
  <1> QED
    BY <1>1, <1>2, PTL DEF Spec

-----------------------------------------------------------------------------
(* Collections hold what they are declared to hold, an iterator has given as *)
(* many elements as its index says (interpreter.rs IteratorState, iter_next). *)
THEOREM CollectionsTyped == Spec => []TypeOK
  <1>1. ASSUME LibraryInv PROVE TypeOK
    <2>1. \A l \in Lists \cup SetColls : heap[l] \in Seq(Elements)
      BY <1>1, HeapHolds DEF LibraryInv, Colls
    <2>2. \A m \in Maps : heap[m] \in Seq(Elements \X Elements)
      BY <1>1, HeapHolds DEF LibraryInv, Colls, Pairs
    <2>3. \A i \in DOMAIN iters : iters[i].index = Len(iters[i].given)
      BY <1>1, LenProperties DEF LibraryInv, ItersGood
    <2>4. \A i \in DOMAIN calls : calls[i].kind \in {"each", "sort", "search", "loop"}
      <3>1. calls \in Seq(Activations(Len(iters)))
        BY <1>1 DEF LibraryInv
      <3> SUFFICES ASSUME NEW i \in DOMAIN calls
                   PROVE  calls[i].kind \in {"each", "sort", "search", "loop"}
        OBVIOUS
      <3>2. calls[i] \in Activations(Len(iters))
        BY <3>1, ElementOfSeq, LenProperties
      <3> QED
        BY <3>2 DEF Activations, Eachs, Sorts, Searches, Loops
    <2> QED
      BY <1>1, <2>1, <2>2, <2>3, <2>4 DEF LibraryInv, TypeOK
  <1> QED
    BY <1>1, CollectionsInvariant, PTL

(* Whatever callbacks, comparators and loop bodies do to the collections, an *)
(* iterator hands out every element once and in order, a traversal hands its *)
(* callback what the collection held when it was called, and no loop fails   *)
(* because its iterator has run out.                                         *)
THEOREM AlwaysHandedOutOnce == Spec => []HandedOutOnce
  <1>1. ASSUME LibraryInv PROVE HandedOutOnce
    <2>1. ASSUME NEW i \in DOMAIN iters, ~iters[i].shifted \/ ~iters[i].live
          PROVE  iters[i].given = SubSeq(Items(iters[i], heap), 1, iters[i].index)
      <3>1. PICK it : it = iters[i]
        OBVIOUS
      <3>2. it \in Iterators /\ InOrder(it, heap)
        BY <1>1, <3>1, ElementOfSeq, LenProperties DEF LibraryInv, ItersGood
      <3>3. it.list \in Lists /\ it.items \in Seq(Elements) /\ it.given \in Seq(Elements)
        BY <3>2 DEF Iterators
      <3>4. heap[it.list] \in Seq(Elements)
        BY <1>1, <3>3, HeapHolds DEF LibraryInv, Colls
      <3>5. PICK items \in Seq(Elements) : items = Items(it, heap)
        BY <3>3, <3>4 DEF Items
      <3>6. Prefix(it.given, items, it.index)
        BY <2>1, <3>1, <3>2, <3>5 DEF InOrder
      <3>7. it.given = SubSeq(items, 1, it.index)
        BY <3>3, <3>6, PrefixIsSubSeq
      <3> QED
        BY <3>1, <3>5, <3>7
    <2>2. ASSUME NEW i \in DOMAIN calls, calls[i].kind = "each"
          PROVE  calls[i].seen = SubSeq(calls[i].start, 1, calls[i].pos)
      <3>1. PICK a : a = calls[i]
        OBVIOUS
      <3>2. calls \in Seq(Activations(Len(iters)))
        BY <1>1 DEF LibraryInv
      <3>3. a \in Activations(Len(iters))
        BY <3>1, <3>2, ElementOfSeq, LenProperties
      <3>4. a \in Eachs /\ EachGood(a)
        BY <2>2, <3>1, <3>3, Kinds
      <3>5. a.seen \in Seq(Anything) /\ a.start \in Seq(Anything) /\ Prefix(a.seen, a.start, a.pos)
        BY <3>4 DEF Eachs, EachGood
      <3>6. a.seen = SubSeq(a.start, 1, a.pos)
        BY <3>5, PrefixIsSubSeq
      <3> QED
        BY <3>1, <3>6
    <2> QED
      BY <1>1, <2>1, <2>2 DEF LibraryInv, HandedOutOnce
  <1> QED
    BY <1>1, CollectionsInvariant, PTL

(* A set holds no element twice and a map no key twice, and no collection    *)
(* borrowed twice or position past the end stops the process, unless an      *)
(* equals method changes the very collection that is being searched.         *)
THEOREM AlwaysOnlyEqualsDisturbs == Spec => []OnlyEqualsDisturbs
  <1>1. ASSUME LibraryInv, QuietInv PROVE OnlyEqualsDisturbs
    <2> SUFFICES ASSUME Quiet
                 PROVE  /\ failure # "abort"
                        /\ \A s \in SetColls : Unique(heap[s])
                        /\ \A m \in Maps : Unique(Keys(heap[m]))
                        /\ \A i \in DOMAIN calls :
                             calls[i].kind = "each" /\ calls[i].on \in SetColls => Unique(calls[i].acc)
      BY <1>1 DEF QuietInv, OnlyEqualsDisturbs
    <2>1. DOMAIN calls = 1 .. Len(calls)
      BY <1>1, LenProperties DEF LibraryInv
    <2> QED
      BY <2>1 DEF Quiet, HeapUnique, AllUndisturbed, Undisturbed, EachBuilds
  <1> QED
    BY <1>1, CollectionsInvariant, PTL

-----------------------------------------------------------------------------
(* Sorts permute. *)

\* Only a sort that ends takes itself off the activations and changes a collection.
LEMMA OnlySortsWrite ==
  ASSUME LibraryInv, Next, Inside("sort"), heap' # heap, calls' = Below
  PROVE  \E greater \in BOOLEAN : SortReturns(greater)
  <1>1. Len(calls) \in Nat /\ Len(Below) = Len(calls) - 1 /\ calls \in Seq(Activations(Len(iters)))
    BY TopBelow DEF Inside, LibraryInv
  <1>2. calls' # calls
    BY <1>1
  <1>3. ASSUME NEW op, NEW c, NEW x, NEW todo, StartSearch(op, c, x, todo) PROVE FALSE
    <2>1. PICK v : Conclude(op, c, x, v, 0, todo, calls)
      BY <1>3 DEF StartSearch
    <2>2. calls' = calls \/ \E a : calls' = Append(calls, a)
      BY <2>1 DEF Conclude
    <2>3. PICK a : calls' = Append(calls, a)
      BY <1>2, <2>2
    <2>4. Len(calls') = Len(calls) + 1
      BY <1>1, <2>3, Appended
    <2> QED
      BY <1>1, <2>4
  <1>4. ~ChangeList
    BY <1>2 DEF ChangeList, ListAdd, ListSetAt, ListInsertAt, ListRemoveAt
  <1>5. \A l \in Lists, c \in Lists \cup SetColls : ~ListAddAll(l, c)
    BY <1>2 DEF ListAddAll
  <1>6. \A m \in Maps : ~MapClear(m)
    BY <1>2 DEF MapClear
  <1>7. \A op \in EachOps, c \in Colls : ~StartEach(op, c)
    BY DEF StartEach
  <1>8. ~EachReturns /\ ~EqualsReturns /\ ~BodyReturns /\ ~BodyBreaks /\ ~UserFails /\ ~Done
    BY DEF EachReturns, EqualsReturns, Inside, BodyReturns, BodyBreaks, UserFails, Done, vars
  <1>9. \A l \in Lists : ~StartSort(l)
    BY DEF StartSort
  <1>10. \A s \in SetColls, l \in Lists : ~SetAddAll(s, l)
    BY <1>3 DEF SetAddAll
  <1>11. \A source \in Lists \cup DOMAIN iters : ~StartLoop(source)
    BY DEF StartLoop
  <1>12. \A k \in DOMAIN iters : ~UserNext(k)
    BY DEF UserNext
  <1> QED
    BY <1>3, <1>4, <1>5, <1>6, <1>7, <1>8, <1>9, <1>10, <1>11, <1>12 DEF Next

\* What is permuted holds every element as often.
Places(s, x) == {i \in DOMAIN s : s[i] = x}
Covered(A, B) == \E f \in [A -> B] : \A i \in B : \E j \in DOMAIN f : f[j] = i

LEMMA PermutedOccurs ==
  ASSUME NEW s \in Seq(Elements), NEW start \in Seq(Elements), Permuted(s, start), NEW x
  PROVE  Covered(Places(s, x), Places(start, x))
  <1>0. PICK A, B : A = {i \in DOMAIN s : s[i] = x} /\ B = {i \in DOMAIN start : start[i] = x}
    OBVIOUS
  <1>1. PICK n \in Nat : n = Len(s) /\ n = Len(start)
    BY LenProperties DEF Permuted
  <1>2. DOMAIN s = 1 .. n /\ DOMAIN start = 1 .. n
    BY <1>1, LenProperties
  <1>3. PICK p \in [1 .. n -> 1 .. n] :
          /\ \A k \in 1 .. n : s[k] = start[p[k]]
          /\ \A k \in 1 .. n : \E m \in 1 .. n : p[m] = k
    <2>1. Rearranged(s, start, n)
      BY <1>1 DEF Permuted
    <2> QED
      BY <2>1, Zenon DEF Rearranged
  <1>4. PICK f : f = [i \in A |-> p[i]]
    OBVIOUS
  <1>5. f \in [A -> B] /\ DOMAIN f = A
    BY <1>0, <1>2, <1>3, <1>4
  <1>6. ASSUME NEW i \in B PROVE \E j \in DOMAIN f : f[j] = i
    <2>1. i \in 1 .. n /\ start[i] = x
      BY <1>0, <1>2, <1>6
    <2>2. PICK m \in 1 .. n : p[m] = i
      BY <1>3, <2>1
    <2>3. m \in A
      BY <1>0, <1>2, <1>3, <2>1, <2>2
    <2> QED
      BY <1>4, <1>5, <2>2, <2>3
  <1>7. Covered(A, B)
    BY <1>5, <1>6 DEF Covered
  <1>8. A = Places(s, x) /\ B = Places(start, x)
    BY <1>0 DEF Places
  <1> QED
    BY <1>7, <1>8

(* A sort that ends leaves the elements its list had when it was called,     *)
(* each as often, whatever the comparator answers and does to the list       *)
(* (vector_type.rs list_sort).                                               *)
THEOREM SortsPermute == Spec => SortPermutes
  <1>1. ASSUME LibraryInv, Next, Inside("sort"), heap' # heap, calls' = Below, NEW x \in Elements
        PROVE  LET occurs(s) == {i \in DOMAIN s : s[i] = x} IN
               \E f \in [occurs(heap'[Top.on]) -> occurs(Top.start)] :
                 \A i \in occurs(Top.start) : \E j \in DOMAIN f : f[j] = i
    <2>1. PICK greater \in BOOLEAN : SortReturns(greater)
      BY <1>1, OnlySortsWrite
    <2>2. PICK a : a = Top
      OBVIOUS
    <2>3. PICK values : values = SortedOnce(a, greater)
      OBVIOUS
    <2>4. Busy /\ a.kind = "sort"
      BY <1>1, <2>2 DEF Inside
    <2>5. a \in Sorts /\ SortGood(a)
      BY <1>1, <2>2, <2>4, TopBelow, Kinds
    <2>6. values \in Seq(Elements) /\ a.start \in Seq(Elements) /\ Permuted(values, a.start)
      BY <2>3, <2>5, SortedOnceGood DEF Sorts
    <2>7. SortGoesOn(a, values) \/ SortDies \/ SortEnds(a, values)
      BY <1>1, <2>1, <2>2, <2>3, SortOutcomes
    <2>8. SortEnds(a, values)
      BY <1>1, <2>7 DEF SortGoesOn, SortDies
    <2>9. heap'[a.on] = values
      <3>1. a.on \in Colls
        BY <2>5 DEF Sorts, Colls
      <3>2. heap \in [Colls -> Seq(Elements) \cup Seq(Pairs)]
        BY <1>1 DEF LibraryInv, HeapTyped
      <3> QED
        BY <2>8, <3>1, <3>2 DEF SortEnds
    <2>10. Covered(Places(values, x), Places(a.start, x))
      BY <2>6, PermutedOccurs
    <2>11. Covered(Places(heap'[Top.on], x), Places(Top.start, x))
      BY <2>2, <2>9, <2>10
    <2> QED
      BY <2>11, Zenon DEF Covered, Places
  <1>2. LibraryInv /\ [Next]_vars =>
          [Inside("sort") /\ heap' # heap /\ calls' = Below =>
             \A x \in Elements :
               LET occurs(s) == {i \in DOMAIN s : s[i] = x} IN
               \E f \in [occurs(heap'[Top.on]) -> occurs(Top.start)] :
                 \A i \in occurs(Top.start) : \E j \in DOMAIN f : f[j] = i]_vars
    BY <1>1, Zenon
  <1> QED
    BY <1>2, CollectionsInvariant, PTL DEF Spec, SortPermutes
=============================================================================
