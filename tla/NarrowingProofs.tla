-------------------------- MODULE NarrowingProofs ---------------------------
(* Wherever execution gets, a variable has the types that the tests passed    *)
(* on the way there gave it, whatever the statements, the conditions and the  *)
(* types are.                                                                 *)
EXTENDS Narrowing, WellFoundedInduction, TLAPS

-----------------------------------------------------------------------------
(* Induction over the natural numbers, and the functions that recursion over  *)
(* a depth defines.                                                           *)

LEMMA NatInduct ==
  ASSUME NEW T, 0 \in T, \A n \in Nat : n \in T => n + 1 \in T
  PROVE  Nat \subseteq T
  <1> SUFFICES ASSUME Nat \ T # {} PROVE FALSE
    OBVIOUS
  <1>1. PICK R : R = {p \in Nat \X Nat : p[1] < p[2]}
    OBVIOUS
  <1>2. OpToRel(<, Nat) = {p \in Nat \X Nat : p[1] < p[2]}
    BY Zenon DEF OpToRel
  <1>3. IsWellFoundedOn(R, Nat)
    BY <1>1, <1>2, NatLessThanWellFounded, Zenon
  <1>4. PICK m \in Nat \ T : \A y \in Nat \ T : ~(<<y, m>> \in R)
    BY <1>3, WFMin, Zenon
  <1>5. m # 0 /\ m - 1 \in Nat /\ <<m - 1, m>> \in R
    BY <1>1
  <1>6. m - 1 \in T
    BY <1>4, <1>5
  <1> QED
    BY <1>4, <1>5, <1>6

\* g obeys F at what is less than n deep.
Obeys(g, F, D, depth, n) == \A d \in D : depth[d] < n => g[d] = F[d][g]

\* What F makes of d depends on what is less deep than d.
Grounded(F, D, V, depth) ==
  \A d \in D : \A f, g \in [D -> V] :
    (\A e \in D : depth[e] < depth[d] => f[e] = g[e]) => F[d][f] = F[d][g]

LEMMA OneObeys ==
  ASSUME NEW D, NEW V, NEW depth \in [D -> Nat], NEW F, Grounded(F, D, V, depth)
  PROVE  \A n \in Nat : \A f, g \in [D -> V] :
           Obeys(f, F, D, depth, n) /\ Obeys(g, F, D, depth, n) =>
             \A d \in D : depth[d] < n => f[d] = g[d]
  <1> DEFINE T == {n \in Nat : \A f, g \in [D -> V] :
                     Obeys(f, F, D, depth, n) /\ Obeys(g, F, D, depth, n) =>
                       \A d \in D : depth[d] < n => f[d] = g[d]}
  <1>1. 0 \in T
    OBVIOUS
  <1>2. ASSUME NEW n \in Nat, n \in T PROVE n + 1 \in T
    <2> SUFFICES ASSUME NEW f \in [D -> V], NEW g \in [D -> V],
                        Obeys(f, F, D, depth, n + 1), Obeys(g, F, D, depth, n + 1),
                        NEW d \in D, depth[d] < n + 1
                 PROVE  f[d] = g[d]
      OBVIOUS
    <2>1. Obeys(f, F, D, depth, n) /\ Obeys(g, F, D, depth, n)
      BY DEF Obeys
    <2>2. \A e \in D : depth[e] < depth[d] => f[e] = g[e]
      BY <1>2, <2>1
    <2>3. F[d][f] = F[d][g]
      BY <2>2 DEF Grounded
    <2> QED
      BY <2>3 DEF Obeys
  <1> HIDE DEF T
  <1>3. Nat \subseteq T
    BY <1>1, <1>2, NatInduct
  <1> QED
    BY <1>3 DEF T

Recursive(F, D, V, depth) ==
  V # {} /\ depth \in [D -> Nat] /\ F \in [D -> [[D -> V] -> V]] /\ Grounded(F, D, V, depth)

LEMMA Recursion ==
  ASSUME NEW D, NEW V, NEW depth, NEW F, Recursive(F, D, V, depth)
  PROVE  \E h \in [D -> V] : \A d \in D : h[d] = F[d][h]
  <1>0. V # {} /\ depth \in [D -> Nat] /\ F \in [D -> [[D -> V] -> V]] /\ Grounded(F, D, V, depth)
    BY DEF Recursive
  <1> USE <1>0
  <1> DEFINE Good(n) == {g \in [D -> V] : Obeys(g, F, D, depth, n)}
             T == {n \in Nat : Good(n) # {}}
  <1>1. 0 \in T
    <2>1. PICK v : v \in V
      OBVIOUS
    <2>2. PICK g : g = [d \in D |-> v]
      OBVIOUS
    <2>3. g \in [D -> V] /\ Obeys(g, F, D, depth, 0)
      BY <2>1, <2>2 DEF Obeys
    <2> QED
      BY <2>3
  <1>2. ASSUME NEW n \in Nat, n \in T PROVE n + 1 \in T
    <2>1. PICK g \in [D -> V] : Obeys(g, F, D, depth, n)
      BY <1>2
    <2>2. PICK f : f = [d \in D |-> F[d][g]]
      OBVIOUS
    <2>3. f \in [D -> V]
      BY <2>2
    <2>4. ASSUME NEW d \in D, depth[d] < n + 1 PROVE f[d] = F[d][f]
      <3>1. \A e \in D : depth[e] < depth[d] => f[e] = g[e]
        BY <2>1, <2>2, <2>4 DEF Obeys
      <3>2. F[d][f] = F[d][g]
        BY <2>3, <3>1 DEF Grounded
      <3> QED
        BY <2>2, <3>2
    <2>5. Obeys(f, F, D, depth, n + 1)
      BY <2>4 DEF Obeys
    <2> QED
      BY <2>3, <2>5
  <1>3. Nat \subseteq T
    <2> HIDE DEF T
    <2> QED
      BY <1>1, <1>2, NatInduct
  <1>4. PICK G : G = [n \in Nat |-> CHOOSE g : g \in Good(n)]
    OBVIOUS
  <1>5. \A n \in Nat : G[n] \in [D -> V] /\ Obeys(G[n], F, D, depth, n)
    <2> SUFFICES ASSUME NEW n \in Nat
                 PROVE  G[n] \in Good(n)
      OBVIOUS
    <2>1. \E g : g \in Good(n)
      BY <1>3
    <2>2. G[n] = CHOOSE g : g \in Good(n)
      BY <1>4
    <2> HIDE DEF Good
    <2> QED
      BY <2>1, <2>2
  <1>6. PICK h : h = [d \in D |-> G[depth[d] + 1][d]]
    OBVIOUS
  <1>7. h \in [D -> V]
    <2>1. \A d \in D : depth[d] + 1 \in Nat
      OBVIOUS
    <2>2. \A d \in D : G[depth[d] + 1] \in [D -> V]
      BY <1>5, <2>1
    <2> QED
      BY <1>6, <2>2
  <1>8. ASSUME NEW d \in D PROVE h[d] = F[d][h]
    <2>1. PICK n : n = depth[d] + 1
      OBVIOUS
    <2>2. PICK f : f = G[n]
      OBVIOUS
    <2>3. n \in Nat /\ depth[d] \in Nat /\ f \in [D -> V] /\ Obeys(f, F, D, depth, n)
      BY <1>5, <2>1, <2>2
    <2>4. h[d] = F[d][f]
      BY <1>6, <2>1, <2>2, <2>3 DEF Obeys
    <2>5. ASSUME NEW e \in D, depth[e] < depth[d] PROVE h[e] = f[e]
      <3>1. PICK k : k = depth[e] + 1
        OBVIOUS
      <3>2. PICK g : g = G[k]
        OBVIOUS
      <3>3. k \in Nat /\ depth[e] \in Nat /\ g \in [D -> V] /\ Obeys(g, F, D, depth, k)
        BY <1>5, <3>1, <3>2
      <3>4. Obeys(f, F, D, depth, k)
        BY <2>1, <2>3, <2>5, <3>1, <3>3 DEF Obeys
      <3>5. \A c \in D : depth[c] < k => f[c] = g[c]
        BY <2>3, <3>3, <3>4, OneObeys
      <3>6. f[e] = g[e]
        BY <3>1, <3>3, <3>5
      <3> QED
        BY <1>6, <3>1, <3>2, <3>6
    <2>6. F[d][f] = F[d][h]
      BY <1>7, <2>3, <2>5 DEF Grounded
    <2> QED
      BY <2>4, <2>6
  <1> QED
    BY <1>7, <1>8

-----------------------------------------------------------------------------
(* Which branches leave *)

LEMMA BlocksBelow ==
  ASSUME NEW stmt \in AllStatements
  PROVE  /\ stmt.depth \in Nat
         /\ \A block \in Blocks(stmt) : \A i \in DOMAIN block :
              block[i] \in AllStatements /\ block[i].depth < stmt.depth
  <1>1. PICK stmts : stmts \in {Statements, LoopStatements} /\ stmt \in stmts
    BY DEF AllStatements
  <1>2. /\ stmt.depth \in Nat
        /\ \A block \in Blocks(stmt) :
             block \in Seq(stmts) /\ \A i \in DOMAIN block : block[i].depth < stmt.depth
    BY <1>1, StatementAssumption, Zenon
  <1>3. stmts \subseteq AllStatements
    BY <1>1 DEF AllStatements
  <1>4. ASSUME NEW block \in Blocks(stmt), NEW i \in DOMAIN block PROVE block[i] \in stmts
    <2>1. block \in Seq(stmts)
      BY <1>2
    <2> QED
      BY <2>1
  <1> QED
    BY <1>2, <1>3, <1>4

Ended(f, block) == \E i \in DOMAIN block : f[block[i]]

ExitsBy(f, stmt) ==
  CASE stmt.do \in {"return", "break", "continue"} -> TRUE
    [] stmt.do = "if" -> Ended(f, stmt.then) /\ Ended(f, stmt.else)
    [] stmt.do = "match" -> \A k \in DOMAIN stmt.bodies : Ended(f, stmt.bodies[k])
    [] OTHER -> FALSE

EndsBy(f, stmt) ==
  CASE stmt.do \in {"return", "break", "continue"} -> TRUE
    [] stmt.do = "if" -> Ended(f, stmt.then) /\ Ended(f, stmt.else)
    [] OTHER -> FALSE

DepthsOf(S) == [s \in S |-> s.depth]

LEMMA ExitsByGrounded ==
  ASSUME NEW stmt \in AllStatements, NEW f, NEW g,
         \A s \in AllStatements : s.depth < stmt.depth => f[s] = g[s]
  PROVE  (ExitsBy(f, stmt) <=> ExitsBy(g, stmt)) /\ (EndsBy(f, stmt) <=> EndsBy(g, stmt))
  <1>1. ASSUME NEW block \in Blocks(stmt) PROVE Ended(f, block) <=> Ended(g, block)
    <2>1. \A i \in DOMAIN block : f[block[i]] = g[block[i]]
      BY BlocksBelow
    <2> QED
      BY <2>1 DEF Ended
  <1>2. CASE stmt.do = "if"
    <2>1. stmt.then \in Blocks(stmt) /\ stmt.else \in Blocks(stmt)
      BY <1>2 DEF Blocks
    <2>2. /\ Ended(f, stmt.then) <=> Ended(g, stmt.then)
          /\ Ended(f, stmt.else) <=> Ended(g, stmt.else)
      BY <1>1, <2>1
    <2> QED
      BY <1>2, <2>2 DEF ExitsBy, EndsBy
  <1>3. CASE stmt.do = "match"
    <2>1. \A k \in DOMAIN stmt.bodies : stmt.bodies[k] \in Blocks(stmt)
      BY <1>3 DEF Blocks, Range
    <2>2. \A k \in DOMAIN stmt.bodies : Ended(f, stmt.bodies[k]) <=> Ended(g, stmt.bodies[k])
      BY <1>1, <2>1
    <2> QED
      BY <1>3, <2>2 DEF ExitsBy, EndsBy
  <1>4. CASE stmt.do \notin {"if", "match"}
    BY <1>4 DEF ExitsBy, EndsBy
  <1> QED
    BY <1>2, <1>3, <1>4

LEMMA ControlExitsIs ==
  ASSUME NEW stmt \in AllStatements
  PROVE  ControlExits[stmt] <=> ExitsBy(ControlExits, stmt)
  <1> DEFINE D == AllStatements
             depth == DepthsOf(D)
             F == [s \in D |-> [f \in [D -> BOOLEAN] |-> ExitsBy(f, s)]]
             Defines(f) == f = [s \in D |-> ExitsBy(f, s)]
  <1>1. depth \in [D -> Nat] /\ \A s \in D : depth[s] = s.depth
    BY BlocksBelow DEF DepthsOf
  <1>2. \A f, s : ExitsBy(f, s) \in BOOLEAN
    BY DEF ExitsBy, Ended
  <1>3. F \in [D -> [[D -> BOOLEAN] -> BOOLEAN]]
    BY <1>2
  <1>4. Grounded(F, D, BOOLEAN, depth)
    <2> SUFFICES ASSUME NEW s \in D, NEW f \in [D -> BOOLEAN], NEW g \in [D -> BOOLEAN],
                        \A e \in D : depth[e] < depth[s] => f[e] = g[e]
                 PROVE  F[s][f] = F[s][g]
      BY DEF Grounded
    <2>1. ExitsBy(f, s) <=> ExitsBy(g, s)
      BY <1>1, ExitsByGrounded
    <2>2. ExitsBy(f, s) = ExitsBy(g, s)
      BY <1>2, <2>1
    <2> QED
      BY <2>2
  <1>5. PICK h \in [D -> BOOLEAN] : \A s \in D : h[s] = F[s][h]
    <2> HIDE DEF D, depth, F
    <2>1. Recursive(F, D, BOOLEAN, depth)
      BY <1>1, <1>3, <1>4 DEF Recursive
    <2>2. \E h \in [D -> BOOLEAN] : \A d \in D : h[d] = F[d][h]
      BY <2>1, Recursion
    <2> QED
      BY <2>2
  <1>6. \A s \in D : h[s] = ExitsBy(h, s)
    BY <1>5
  <1>7. Defines(h)
    BY <1>5, <1>6
  <1>8. PICK f : f = CHOOSE g : Defines(g)
    OBVIOUS
  <1>9. Defines(f)
    BY <1>7, <1>8
  <1>10. ControlExits = f
    BY <1>8, Zenon DEF ControlExits, ExitsBy, Ended
  <1>11. f[stmt] = ExitsBy(f, stmt)
    BY <1>9
  <1> QED
    BY <1>10, <1>11

LEMMA EndingsIs ==
  ASSUME NEW stmt \in AllStatements
  PROVE  Endings[stmt] <=> EndsBy(Endings, stmt)
  <1> DEFINE D == AllStatements
             depth == DepthsOf(D)
             F == [s \in D |-> [f \in [D -> BOOLEAN] |-> EndsBy(f, s)]]
             Defines(f) == f = [s \in D |-> EndsBy(f, s)]
  <1>1. depth \in [D -> Nat] /\ \A s \in D : depth[s] = s.depth
    BY BlocksBelow DEF DepthsOf
  <1>2. \A f, s : EndsBy(f, s) \in BOOLEAN
    BY DEF EndsBy, Ended
  <1>3. F \in [D -> [[D -> BOOLEAN] -> BOOLEAN]]
    BY <1>2
  <1>4. Grounded(F, D, BOOLEAN, depth)
    <2> SUFFICES ASSUME NEW s \in D, NEW f \in [D -> BOOLEAN], NEW g \in [D -> BOOLEAN],
                        \A e \in D : depth[e] < depth[s] => f[e] = g[e]
                 PROVE  F[s][f] = F[s][g]
      BY DEF Grounded
    <2>1. EndsBy(f, s) <=> EndsBy(g, s)
      BY <1>1, ExitsByGrounded
    <2>2. EndsBy(f, s) = EndsBy(g, s)
      BY <1>2, <2>1
    <2> QED
      BY <2>2
  <1>5. PICK h \in [D -> BOOLEAN] : \A s \in D : h[s] = F[s][h]
    <2> HIDE DEF D, depth, F
    <2>1. Recursive(F, D, BOOLEAN, depth)
      BY <1>1, <1>3, <1>4 DEF Recursive
    <2>2. \E h \in [D -> BOOLEAN] : \A d \in D : h[d] = F[d][h]
      BY <2>1, Recursion
    <2> QED
      BY <2>2
  <1>6. \A s \in D : h[s] = EndsBy(h, s)
    BY <1>5
  <1>7. Defines(h)
    BY <1>5, <1>6
  <1>8. PICK f : f = CHOOSE g : Defines(g)
    OBVIOUS
  <1>9. Defines(f)
    BY <1>7, <1>8
  <1>10. Endings = f
    BY <1>8, Zenon DEF Endings, EndsBy, Ended
  <1>11. f[stmt] = EndsBy(f, stmt)
    BY <1>9
  <1> QED
    BY <1>10, <1>11

-----------------------------------------------------------------------------
(* What a condition says of x *)

LEMMA OperandsBelow ==
  ASSUME NEW c \in Conditions
  PROVE  /\ c.depth \in Nat
         /\ c.op = "is" => c.type \in DOMAIN Instances
         /\ c.op = "not" => c.of \in Conditions /\ c.of.depth < c.depth
         /\ c.op \in {"and", "or"} => /\ c.left \in Conditions /\ c.left.depth < c.depth
                                      /\ c.right \in Conditions /\ c.right.depth < c.depth
  <1>1. /\ c.depth \in Nat
        /\ c.op = "is" => c.type \in DOMAIN Instances
        /\ \A d \in Operands(c) : d \in Conditions /\ d.depth < c.depth
    BY ConditionAssumption, Zenon
  <1>2. CASE c.op = "not"
    <2>1. c.of \in Operands(c)
      BY <1>2 DEF Operands
    <2> QED
      BY <1>1, <1>2, <2>1
  <1>3. CASE c.op \in {"and", "or"}
    <2>1. c.left \in Operands(c) /\ c.right \in Operands(c)
      BY <1>3 DEF Operands
    <2> QED
      BY <1>1, <1>3, <2>1
  <1> QED
    BY <1>1, <1>2, <1>3

TypesBy(f, q) ==
  LET c == q[1] isTrue == q[2] IN
  IF c.op = "is" THEN IF isTrue THEN <<c.type>> ELSE << >>
  ELSE IF c.op = "not" THEN f[<<c.of, ~isTrue>>]
  ELSE IF <<c.op, isTrue>> \in {<<"and", TRUE>>, <<"or", FALSE>>}
  THEN f[<<c.left, isTrue>>] \o f[<<c.right, isTrue>>]
  ELSE << >>

LoweredBy(f, q) ==
  LET c == q[1] isTrue == q[2] IN
  IF c.op = "is" THEN IF isTrue THEN <<c.type>> ELSE << >>
  ELSE IF c.op = "not" THEN f[<<c.of, ~isTrue>>]
  ELSE << >>

OutcomesBy(v, f, c) ==
  LET after(b) == IF (c.op = "and") = b THEN f[c.right] ELSE {b} IN
  IF c.op = "is" THEN {(v \in Instances[c.type])}
  ELSE IF c.op = "not" THEN {~b : b \in f[c.of]}
  ELSE IF c.op \in {"and", "or"} THEN UNION {after(b) : b \in f[c.left]}
  ELSE BOOLEAN

ReadsBy(v, f, c) ==
  LET onTheRight(T) == Narrowed(T, c.left, c.op = "and") IN
  IF c.op = "reads" THEN {T \in DOMAIN Instances : v \in Instances[T]}
  ELSE IF c.op = "not" THEN f[c.of]
  ELSE IF c.op \in {"and", "or"}
  THEN {T \in f[c.left] :
          (c.op = "and") \in OutcomesOf(v)[c.left] => onTheRight(T) \in f[c.right]}
  ELSE DOMAIN Instances

NarrowedTypes == Seq(DOMAIN Instances)

LEMMA TypesTyped ==
  ASSUME NEW q \in Questions, NEW f \in [Questions -> NarrowedTypes]
  PROVE  TypesBy(f, q) \in NarrowedTypes /\ LoweredBy(f, q) \in NarrowedTypes
  <1>1. PICK c \in Conditions, b \in BOOLEAN : q = <<c, b>>
    BY DEF Questions
  <1>2. q[1] = c /\ (q[2] <=> b)
    BY <1>1
  <1>3. << >> \in NarrowedTypes
    BY DEF NarrowedTypes
  <1>4. \A d \in Conditions : \A a \in BOOLEAN : f[<<d, a>>] \in NarrowedTypes
    BY DEF Questions
  <1>5. CASE c.op = "is"
    <2>1. <<c.type>> \in NarrowedTypes
      BY <1>5, OperandsBelow DEF NarrowedTypes
    <2> QED
      BY <1>2, <1>3, <1>5, <2>1, Zenon DEF TypesBy, LoweredBy
  <1>6. CASE c.op = "not"
    <2>1. c.of \in Conditions /\ (~q[2]) \in BOOLEAN
      BY <1>6, OperandsBelow
    <2>2. f[<<c.of, ~q[2]>>] \in NarrowedTypes
      BY <1>4, <2>1, Zenon
    <2>3. "not" # "is"
      OBVIOUS
    <2> QED
      BY <1>2, <1>6, <2>2, <2>3, Zenon DEF TypesBy, LoweredBy
  <1>7. CASE c.op \in {"and", "or"}
    <2>1. c.left \in Conditions /\ c.right \in Conditions /\ q[2] \in BOOLEAN
      BY <1>2, <1>7, OperandsBelow
    <2>2. f[<<c.left, q[2]>>] \in NarrowedTypes /\ f[<<c.right, q[2]>>] \in NarrowedTypes
      BY <1>4, <2>1, Zenon
    <2>3. f[<<c.left, q[2]>>] \o f[<<c.right, q[2]>>] \in NarrowedTypes
      BY <2>2 DEF NarrowedTypes
    <2>4. c.op # "is" /\ c.op # "not"
      BY <1>7
    <2> QED
      BY <1>2, <1>3, <2>3, <2>4, Zenon DEF TypesBy, LoweredBy
  <1>8. CASE c.op \notin {"is", "not", "and", "or"}
    <2>1. <<c.op, q[2]>> \notin {<<"and", TRUE>>, <<"or", FALSE>>}
      BY <1>8
    <2> QED
      BY <1>2, <1>3, <1>8, <2>1, Zenon DEF TypesBy, LoweredBy
  <1> QED
    BY <1>5, <1>6, <1>7, <1>8

LEMMA TypesGrounded ==
  ASSUME NEW q \in Questions, NEW f, NEW g,
         \A p \in Questions : p[1].depth < q[1].depth => f[p] = g[p]
  PROVE  TypesBy(f, q) = TypesBy(g, q) /\ LoweredBy(f, q) = LoweredBy(g, q)
  <1>1. PICK c \in Conditions, b \in BOOLEAN : q = <<c, b>>
    BY DEF Questions
  <1>2. q[1] = c /\ (q[2] <=> b) /\ q[2] \in BOOLEAN
    BY <1>1
  <1>3. ASSUME NEW d \in Conditions, d.depth < c.depth, NEW a \in BOOLEAN
        PROVE  f[<<d, a>>] = g[<<d, a>>]
    <2>1. <<d, a>> \in Questions /\ <<d, a>>[1] = d
      BY DEF Questions
    <2> QED
      BY <1>2, <1>3, <2>1
  <1>4. CASE c.op = "not"
    <2>1. f[<<c.of, ~q[2]>>] = g[<<c.of, ~q[2]>>]
      <3>1. c.of \in Conditions /\ c.of.depth < c.depth /\ (~q[2]) \in BOOLEAN
        BY <1>4, OperandsBelow
      <3> QED
        BY <1>3, <3>1, Zenon
    <2> QED
      BY <1>2, <1>4, <2>1, Zenon DEF TypesBy, LoweredBy
  <1>5. CASE c.op \in {"and", "or"}
    <2>1. f[<<c.left, q[2]>>] = g[<<c.left, q[2]>>] /\ f[<<c.right, q[2]>>] = g[<<c.right, q[2]>>]
      <3>1. /\ c.left \in Conditions /\ c.left.depth < c.depth
            /\ c.right \in Conditions /\ c.right.depth < c.depth
        BY <1>5, OperandsBelow
      <3> QED
        BY <1>2, <1>3, <3>1, Zenon
    <2>2. c.op # "not"
      BY <1>5
    <2> QED
      BY <1>2, <2>1, <2>2, Zenon DEF TypesBy, LoweredBy
  <1>6. CASE c.op \notin {"not", "and", "or"}
    <2>1. <<c.op, q[2]>> \notin {<<"and", TRUE>>, <<"or", FALSE>>}
      BY <1>6
    <2> QED
      BY <1>2, <1>6, <2>1, Zenon DEF TypesBy, LoweredBy
  <1> QED
    BY <1>4, <1>5, <1>6

LEMMA Agree ==
  ASSUME NEW D, NEW depth \in [D -> Nat], NEW f, NEW g,
         \A d \in D : (\A e \in D : depth[e] < depth[d] => f[e] = g[e]) => f[d] = g[d]
  PROVE  \A d \in D : f[d] = g[d]
  <1> DEFINE T == {n \in Nat : \A d \in D : depth[d] < n => f[d] = g[d]}
  <1>1. 0 \in T
    OBVIOUS
  <1>2. ASSUME NEW n \in Nat, n \in T PROVE n + 1 \in T
    BY <1>2
  <1>3. Nat \subseteq T
    <2> HIDE DEF T
    <2> QED
      BY <1>1, <1>2, NatInduct
  <1>4. ASSUME NEW d \in D PROVE f[d] = g[d]
    <2>1. depth[d] + 1 \in T
      BY <1>3
    <2> QED
      BY <2>1
  <1> QED
    BY <1>4

LEMMA TypeNarrowingsIs ==
  /\ TypeNarrowings \in [Questions -> NarrowedTypes]
  /\ \A c \in Questions : TypeNarrowings[c] = TypesBy(TypeNarrowings, c)
  <1> DEFINE D == Questions
             depth == [c \in D |-> c[1].depth]
             F == [c \in D |-> [f \in [D -> NarrowedTypes] |-> TypesBy(f, c)]]
             Defines(f) == f = [c \in D |-> TypesBy(f, c)]
  <1>1. depth \in [D -> Nat] /\ \A c \in D : depth[c] = c[1].depth
    BY OperandsBelow DEF Questions
  <1>2. \A f \in [D -> NarrowedTypes] : \A c \in D : TypesBy(f, c) \in NarrowedTypes
    BY TypesTyped
  <1>3. F \in [D -> [[D -> NarrowedTypes] -> NarrowedTypes]]
    BY <1>2
  <1>4. Grounded(F, D, NarrowedTypes, depth)
    <2> SUFFICES ASSUME NEW c \in D, NEW f \in [D -> NarrowedTypes], NEW g \in [D -> NarrowedTypes],
                        \A e \in D : depth[e] < depth[c] => f[e] = g[e]
                 PROVE  F[c][f] = F[c][g]
      BY DEF Grounded
    <2>1. TypesBy(f, c) = TypesBy(g, c)
      BY <1>1, TypesGrounded
    <2> QED
      BY <2>1
  <1>5. PICK h \in [D -> NarrowedTypes] : \A c \in D : h[c] = F[c][h]
    <2>0. NarrowedTypes # {}
      <3>1. << >> \in NarrowedTypes
        BY DEF NarrowedTypes
      <3> QED
        BY <3>1
    <2> HIDE DEF D, depth, F
    <2>1. Recursive(F, D, NarrowedTypes, depth)
      BY <1>1, <1>3, <1>4, <2>0 DEF Recursive
    <2>2. \E h \in [D -> NarrowedTypes] : \A d \in D : h[d] = F[d][h]
      BY <2>1, Recursion
    <2> QED
      BY <2>2
  <1>6. \A c \in D : h[c] = TypesBy(h, c)
    BY <1>5
  <1>7. Defines(h)
    BY <1>5, <1>6
  <1>8. PICK f : f = CHOOSE g : Defines(g)
    OBVIOUS
  <1>9. Defines(f)
    BY <1>7, <1>8
  <1>10. TypeNarrowings = f
    BY <1>8, Zenon DEF TypeNarrowings, TypesBy
  <1>11. \A c \in D : f[c] = TypesBy(f, c)
    BY <1>9
  <1>12. \A c \in D : (\A e \in D : depth[e] < depth[c] => f[e] = h[e]) => f[c] = h[c]
    <2> SUFFICES ASSUME NEW c \in D, \A e \in D : depth[e] < depth[c] => f[e] = h[e]
                 PROVE  f[c] = h[c]
      OBVIOUS
    <2>1. TypesBy(f, c) = TypesBy(h, c)
      BY <1>1, TypesGrounded
    <2> QED
      BY <1>6, <1>11, <2>1
  <1>13. \A c \in D : f[c] = h[c]
    <2>1. depth \in [D -> Nat]
      BY <1>1
    <2> HIDE DEF D, depth
    <2> QED
      BY <1>12, <2>1, Agree
  <1>14. f \in [D -> NarrowedTypes]
    <2>1. \A c \in D : f[c] \in NarrowedTypes
      BY <1>13
    <2>2. f = [c \in D |-> f[c]]
      BY <1>9
    <2> QED
      BY <2>1, <2>2
  <1> QED
    BY <1>10, <1>11, <1>14

LEMMA LoweredNarrowingsIs ==
  /\ LoweredNarrowings \in [Questions -> NarrowedTypes]
  /\ \A c \in Questions : LoweredNarrowings[c] = LoweredBy(LoweredNarrowings, c)
  <1> DEFINE D == Questions
             depth == [c \in D |-> c[1].depth]
             F == [c \in D |-> [f \in [D -> NarrowedTypes] |-> LoweredBy(f, c)]]
             Defines(f) == f = [c \in D |-> LoweredBy(f, c)]
  <1>1. depth \in [D -> Nat] /\ \A c \in D : depth[c] = c[1].depth
    BY OperandsBelow DEF Questions
  <1>2. \A f \in [D -> NarrowedTypes] : \A c \in D : LoweredBy(f, c) \in NarrowedTypes
    BY TypesTyped
  <1>3. F \in [D -> [[D -> NarrowedTypes] -> NarrowedTypes]]
    BY <1>2
  <1>4. Grounded(F, D, NarrowedTypes, depth)
    <2> SUFFICES ASSUME NEW c \in D, NEW f \in [D -> NarrowedTypes], NEW g \in [D -> NarrowedTypes],
                        \A e \in D : depth[e] < depth[c] => f[e] = g[e]
                 PROVE  F[c][f] = F[c][g]
      BY DEF Grounded
    <2>1. LoweredBy(f, c) = LoweredBy(g, c)
      BY <1>1, TypesGrounded
    <2> QED
      BY <2>1
  <1>5. PICK h \in [D -> NarrowedTypes] : \A c \in D : h[c] = F[c][h]
    <2>0. NarrowedTypes # {}
      <3>1. << >> \in NarrowedTypes
        BY DEF NarrowedTypes
      <3> QED
        BY <3>1
    <2> HIDE DEF D, depth, F
    <2>1. Recursive(F, D, NarrowedTypes, depth)
      BY <1>1, <1>3, <1>4, <2>0 DEF Recursive
    <2>2. \E h \in [D -> NarrowedTypes] : \A d \in D : h[d] = F[d][h]
      BY <2>1, Recursion
    <2> QED
      BY <2>2
  <1>6. \A c \in D : h[c] = LoweredBy(h, c)
    BY <1>5
  <1>7. Defines(h)
    BY <1>5, <1>6
  <1>8. PICK f : f = CHOOSE g : Defines(g)
    OBVIOUS
  <1>9. Defines(f)
    BY <1>7, <1>8
  <1>10. LoweredNarrowings = f
    BY <1>8, Zenon DEF LoweredNarrowings, LoweredBy
  <1>11. \A c \in D : f[c] = LoweredBy(f, c)
    BY <1>9
  <1>12. \A c \in D : (\A e \in D : depth[e] < depth[c] => f[e] = h[e]) => f[c] = h[c]
    <2> SUFFICES ASSUME NEW c \in D, \A e \in D : depth[e] < depth[c] => f[e] = h[e]
                 PROVE  f[c] = h[c]
      OBVIOUS
    <2>1. LoweredBy(f, c) = LoweredBy(h, c)
      BY <1>1, TypesGrounded
    <2> QED
      BY <1>6, <1>11, <2>1
  <1>13. \A c \in D : f[c] = h[c]
    <2>1. depth \in [D -> Nat]
      BY <1>1
    <2> HIDE DEF D, depth
    <2> QED
      BY <1>12, <2>1, Agree
  <1>14. f \in [D -> NarrowedTypes]
    <2>1. \A c \in D : f[c] \in NarrowedTypes
      BY <1>13
    <2>2. f = [c \in D |-> f[c]]
      BY <1>9
    <2> QED
      BY <2>1, <2>2
  <1> QED
    BY <1>10, <1>11, <1>14

LEMMA OutcomesTyped ==
  ASSUME NEW v, NEW c \in Conditions, NEW f \in [Conditions -> SUBSET BOOLEAN]
  PROVE  OutcomesBy(v, f, c) \in SUBSET BOOLEAN
  <1>1. \A d \in Conditions : f[d] \subseteq BOOLEAN
    OBVIOUS
  <1>2. CASE c.op = "is"
    <2>1. PICK says : says = (v \in Instances[c.type])
      OBVIOUS
    <2>2. OutcomesBy(v, f, c) = {says}
      BY <1>2, <2>1, Zenon DEF OutcomesBy
    <2>3. says \in BOOLEAN
      BY <2>1
    <2> QED
      BY <2>2, <2>3
  <1>3. CASE c.op = "not"
    <2>1. {~b : b \in f[c.of]} \subseteq BOOLEAN
      OBVIOUS
    <2> QED
      BY <1>3, <2>1 DEF OutcomesBy
  <1>4. CASE c.op \in {"and", "or"}
    <2>1. c.left \in Conditions /\ c.right \in Conditions
      BY <1>4, OperandsBelow
    <2>2. f[c.left] \subseteq BOOLEAN /\ f[c.right] \subseteq BOOLEAN
      BY <1>1, <2>1
    <2>3. UNION {IF (c.op = "and") = b THEN f[c.right] ELSE {b} : b \in f[c.left]} \subseteq BOOLEAN
      <3>1. \A b \in f[c.left] : (IF (c.op = "and") = b THEN f[c.right] ELSE {b}) \subseteq BOOLEAN
        <4> SUFFICES ASSUME NEW b \in f[c.left]
                     PROVE  (IF (c.op = "and") = b THEN f[c.right] ELSE {b}) \subseteq BOOLEAN
          OBVIOUS
        <4>1. b \in BOOLEAN
          BY <2>2
        <4>2. {b} \subseteq BOOLEAN
          BY <4>1
        <4> QED
          BY <2>2, <4>2, Zenon
      <3>2. ASSUME NEW a \in UNION {IF (c.op = "and") = b THEN f[c.right] ELSE {b} : b \in f[c.left]}
            PROVE  a \in BOOLEAN
        <4>1. PICK b \in f[c.left] : a \in (IF (c.op = "and") = b THEN f[c.right] ELSE {b})
          BY <3>2, Zenon
        <4> QED
          BY <3>1, <4>1, Zenon
      <3> QED
        BY <3>2, Zenon
    <2>4. c.op # "is" /\ c.op # "not"
      BY <1>4
    <2> QED
      BY <1>4, <2>3, <2>4, Zenon DEF OutcomesBy
  <1>5. CASE c.op \notin {"is", "not", "and", "or"}
    BY <1>5, Zenon DEF OutcomesBy
  <1> QED
    BY <1>2, <1>3, <1>4, <1>5

LEMMA OutcomesGrounded ==
  ASSUME NEW v, NEW c \in Conditions, NEW f, NEW g,
         \A d \in Conditions : d.depth < c.depth => f[d] = g[d]
  PROVE  OutcomesBy(v, f, c) = OutcomesBy(v, g, c)
  <1>1. CASE c.op = "not"
    <2>1. f[c.of] = g[c.of]
      BY <1>1, OperandsBelow
    <2>2. "not" # "is"
      OBVIOUS
    <2> QED
      BY <1>1, <2>1, <2>2, Zenon DEF OutcomesBy
  <1>2. CASE c.op \in {"and", "or"}
    <2>1. f[c.left] = g[c.left] /\ f[c.right] = g[c.right]
      BY <1>2, OperandsBelow
    <2>2. c.op # "is" /\ c.op # "not"
      BY <1>2
    <2>3. {IF (c.op = "and") = b THEN f[c.right] ELSE {b} : b \in f[c.left]}
            = {IF (c.op = "and") = b THEN g[c.right] ELSE {b} : b \in g[c.left]}
      BY <2>1, Zenon
    <2> QED
      BY <1>2, <2>2, <2>3, Zenon DEF OutcomesBy
  <1>3. CASE c.op \notin {"not", "and", "or"}
    BY <1>3, Zenon DEF OutcomesBy
  <1> QED
    BY <1>1, <1>2, <1>3

LEMMA ReadsTyped ==
  ASSUME NEW v, NEW c \in Conditions, NEW f \in [Conditions -> SUBSET DOMAIN Instances]
  PROVE  ReadsBy(v, f, c) \in SUBSET DOMAIN Instances
  <1>1. \A d \in Conditions : f[d] \subseteq DOMAIN Instances
    OBVIOUS
  <1>2. CASE c.op = "reads"
    BY <1>2 DEF ReadsBy
  <1>3. CASE c.op = "not"
    <2>1. f[c.of] \subseteq DOMAIN Instances
      BY <1>1, <1>3, OperandsBelow
    <2> QED
      BY <1>3, <2>1 DEF ReadsBy
  <1>4. CASE c.op \in {"and", "or"}
    <2>1. f[c.left] \subseteq DOMAIN Instances
      BY <1>1, <1>4, OperandsBelow
    <2>2. c.op # "reads" /\ c.op # "not"
      BY <1>4
    <2> QED
      BY <1>4, <2>1, <2>2, Zenon DEF ReadsBy
  <1>5. CASE c.op \notin {"reads", "not", "and", "or"}
    BY <1>5, Zenon DEF ReadsBy
  <1> QED
    BY <1>2, <1>3, <1>4, <1>5

LEMMA ReadsGrounded ==
  ASSUME NEW v, NEW c \in Conditions, NEW f, NEW g,
         \A d \in Conditions : d.depth < c.depth => f[d] = g[d]
  PROVE  ReadsBy(v, f, c) = ReadsBy(v, g, c)
  <1>1. CASE c.op = "not"
    <2>1. f[c.of] = g[c.of]
      BY <1>1, OperandsBelow
    <2>2. "not" # "reads"
      OBVIOUS
    <2> QED
      BY <1>1, <2>1, <2>2, Zenon DEF ReadsBy
  <1>2. CASE c.op \in {"and", "or"}
    <2>1. f[c.left] = g[c.left] /\ f[c.right] = g[c.right]
      BY <1>2, OperandsBelow
    <2>2. c.op # "reads" /\ c.op # "not"
      BY <1>2
    <2> QED
      BY <1>2, <2>1, <2>2, Zenon DEF ReadsBy
  <1>3. CASE c.op \notin {"not", "and", "or"}
    BY <1>3, Zenon DEF ReadsBy
  <1> QED
    BY <1>1, <1>2, <1>3

LEMMA OutcomesAre ==
  ASSUME NEW v
  PROVE  /\ OutcomesOf(v) \in [Conditions -> SUBSET BOOLEAN]
         /\ \A c \in Conditions : OutcomesOf(v)[c] = OutcomesBy(v, OutcomesOf(v), c)
  <1> DEFINE D == Conditions
             depth == [c \in D |-> c.depth]
             F == [c \in D |-> [f \in [D -> SUBSET BOOLEAN] |-> OutcomesBy(v, f, c)]]
             Defines(f) == f = [c \in D |-> OutcomesBy(v, f, c)]
  <1>1. depth \in [D -> Nat] /\ \A c \in D : depth[c] = c.depth
    BY OperandsBelow
  <1>2. \A f \in [D -> SUBSET BOOLEAN] : \A c \in D : OutcomesBy(v, f, c) \in SUBSET BOOLEAN
    BY OutcomesTyped
  <1>3. F \in [D -> [[D -> SUBSET BOOLEAN] -> SUBSET BOOLEAN]]
    BY <1>2
  <1>4. Grounded(F, D, SUBSET BOOLEAN, depth)
    <2> SUFFICES ASSUME NEW c \in D, NEW f \in [D -> SUBSET BOOLEAN], NEW g \in [D -> SUBSET BOOLEAN],
                        \A e \in D : depth[e] < depth[c] => f[e] = g[e]
                 PROVE  F[c][f] = F[c][g]
      BY DEF Grounded
    <2>1. OutcomesBy(v, f, c) = OutcomesBy(v, g, c)
      BY <1>1, OutcomesGrounded
    <2> QED
      BY <2>1
  <1>5. PICK h \in [D -> SUBSET BOOLEAN] : \A c \in D : h[c] = F[c][h]
    <2>0. SUBSET BOOLEAN # {}
      <3>1. {} \in SUBSET BOOLEAN
        OBVIOUS
      <3> QED
        BY <3>1
    <2> HIDE DEF D, depth, F
    <2>1. Recursive(F, D, SUBSET BOOLEAN, depth)
      BY <1>1, <1>3, <1>4, <2>0 DEF Recursive
    <2>2. \E h \in [D -> SUBSET BOOLEAN] : \A d \in D : h[d] = F[d][h]
      BY <2>1, Recursion
    <2> QED
      BY <2>2
  <1>6. \A c \in D : h[c] = OutcomesBy(v, h, c)
    BY <1>5
  <1>7. Defines(h)
    BY <1>5, <1>6
  <1>8. PICK f : f = CHOOSE g : Defines(g)
    OBVIOUS
  <1>9. Defines(f)
    BY <1>7, <1>8
  <1>10. OutcomesOf(v) = f
    BY <1>8, Zenon DEF OutcomesOf, OutcomesBy
  <1>11. \A c \in D : f[c] = OutcomesBy(v, f, c)
    BY <1>9
  <1>12. \A c \in D : (\A e \in D : depth[e] < depth[c] => f[e] = h[e]) => f[c] = h[c]
    <2> SUFFICES ASSUME NEW c \in D, \A e \in D : depth[e] < depth[c] => f[e] = h[e]
                 PROVE  f[c] = h[c]
      OBVIOUS
    <2>1. OutcomesBy(v, f, c) = OutcomesBy(v, h, c)
      BY <1>1, OutcomesGrounded
    <2> QED
      BY <1>6, <1>11, <2>1
  <1>13. \A c \in D : f[c] = h[c]
    <2>1. depth \in [D -> Nat]
      BY <1>1
    <2> HIDE DEF D, depth
    <2> QED
      BY <1>12, <2>1, Agree
  <1>14. f \in [D -> SUBSET BOOLEAN]
    <2>1. \A c \in D : f[c] \in SUBSET BOOLEAN
      BY <1>13
    <2>2. f = [c \in D |-> f[c]]
      BY <1>9
    <2> QED
      BY <2>1, <2>2
  <1> QED
    BY <1>10, <1>11, <1>14

LEMMA ReadsAre ==
  ASSUME NEW v
  PROVE  /\ ReadsHoldOf(v) \in [Conditions -> SUBSET DOMAIN Instances]
         /\ \A c \in Conditions : ReadsHoldOf(v)[c] = ReadsBy(v, ReadsHoldOf(v), c)
  <1> DEFINE D == Conditions
             depth == [c \in D |-> c.depth]
             F == [c \in D |-> [f \in [D -> SUBSET DOMAIN Instances] |-> ReadsBy(v, f, c)]]
             Defines(f) == f = [c \in D |-> ReadsBy(v, f, c)]
  <1>1. depth \in [D -> Nat] /\ \A c \in D : depth[c] = c.depth
    BY OperandsBelow
  <1>2. \A f \in [D -> SUBSET DOMAIN Instances] : \A c \in D : ReadsBy(v, f, c) \in SUBSET DOMAIN Instances
    BY ReadsTyped
  <1>3. F \in [D -> [[D -> SUBSET DOMAIN Instances] -> SUBSET DOMAIN Instances]]
    BY <1>2
  <1>4. Grounded(F, D, SUBSET DOMAIN Instances, depth)
    <2> SUFFICES ASSUME NEW c \in D, NEW f \in [D -> SUBSET DOMAIN Instances], NEW g \in [D -> SUBSET DOMAIN Instances],
                        \A e \in D : depth[e] < depth[c] => f[e] = g[e]
                 PROVE  F[c][f] = F[c][g]
      BY DEF Grounded
    <2>1. ReadsBy(v, f, c) = ReadsBy(v, g, c)
      BY <1>1, ReadsGrounded
    <2> QED
      BY <2>1
  <1>5. PICK h \in [D -> SUBSET DOMAIN Instances] : \A c \in D : h[c] = F[c][h]
    <2>0. SUBSET DOMAIN Instances # {}
      <3>1. {} \in SUBSET DOMAIN Instances
        OBVIOUS
      <3> QED
        BY <3>1
    <2> HIDE DEF D, depth, F
    <2>1. Recursive(F, D, SUBSET DOMAIN Instances, depth)
      BY <1>1, <1>3, <1>4, <2>0 DEF Recursive
    <2>2. \E h \in [D -> SUBSET DOMAIN Instances] : \A d \in D : h[d] = F[d][h]
      BY <2>1, Recursion
    <2> QED
      BY <2>2
  <1>6. \A c \in D : h[c] = ReadsBy(v, h, c)
    BY <1>5
  <1>7. Defines(h)
    BY <1>5, <1>6
  <1>8. PICK f : f = CHOOSE g : Defines(g)
    OBVIOUS
  <1>9. Defines(f)
    BY <1>7, <1>8
  <1>10. ReadsHoldOf(v) = f
    BY <1>8, Zenon DEF ReadsHoldOf, ReadsBy
  <1>11. \A c \in D : f[c] = ReadsBy(v, f, c)
    BY <1>9
  <1>12. \A c \in D : (\A e \in D : depth[e] < depth[c] => f[e] = h[e]) => f[c] = h[c]
    <2> SUFFICES ASSUME NEW c \in D, \A e \in D : depth[e] < depth[c] => f[e] = h[e]
                 PROVE  f[c] = h[c]
      OBVIOUS
    <2>1. ReadsBy(v, f, c) = ReadsBy(v, h, c)
      BY <1>1, ReadsGrounded
    <2> QED
      BY <1>6, <1>11, <2>1
  <1>13. \A c \in D : f[c] = h[c]
    <2>1. depth \in [D -> Nat]
      BY <1>1
    <2> HIDE DEF D, depth
    <2> QED
      BY <1>12, <2>1, Agree
  <1>14. f \in [D -> SUBSET DOMAIN Instances]
    <2>1. \A c \in D : f[c] \in SUBSET DOMAIN Instances
      BY <1>13
    <2>2. f = [c \in D |-> f[c]]
      BY <1>9
    <2> QED
      BY <2>1, <2>2
  <1> QED
    BY <1>10, <1>11, <1>14

Says(v, types) == \A i \in DOMAIN types : v \in Instances[types[i]]

\* What the narrowings say of v when c yields b.
Tells(v, narrowings, c) ==
  \A b \in BOOLEAN : b \in OutcomesOf(v)[c] => Says(v, narrowings[<<c, b>>])

LEMMA OutcomesOfCompound ==
  ASSUME NEW v, NEW c \in Conditions, c.op \in {"and", "or"}, NEW b \in BOOLEAN,
         b <=> (c.op = "and"), b \in OutcomesOf(v)[c]
  PROVE  b \in OutcomesOf(v)[c.left] /\ b \in OutcomesOf(v)[c.right]
  <1>1. PICK f : f = OutcomesOf(v)
    OBVIOUS
  <1>2. f \in [Conditions -> SUBSET BOOLEAN] /\ f[c] = OutcomesBy(v, f, c)
    BY <1>1, OutcomesAre
  <1>3. c.left \in Conditions /\ c.right \in Conditions
    BY OperandsBelow
  <1>4. f[c.left] \subseteq BOOLEAN /\ f[c.right] \subseteq BOOLEAN
    BY <1>2, <1>3
  <1>5. c.op # "is" /\ c.op # "not"
    OBVIOUS
  <1>6. b \in UNION {IF (c.op = "and") = a THEN f[c.right] ELSE {a} : a \in f[c.left]}
    BY <1>1, <1>2, <1>5, Zenon DEF OutcomesBy
  <1>7. PICK a \in f[c.left] : b \in (IF (c.op = "and") = a THEN f[c.right] ELSE {a})
    BY <1>6, Zenon
  <1>8. a \in BOOLEAN
    BY <1>4, <1>7
  <1>9. CASE a <=> (c.op = "and")
    <2>1. a = b
      BY <1>8, <1>9
    <2>2. b \in f[c.right]
      BY <1>7, <1>8, <1>9, Zenon
    <2> QED
      BY <1>1, <1>7, <2>1, <2>2
  <1>10. CASE ~(a <=> (c.op = "and"))
    <2>1. b \in {a}
      BY <1>7, <1>8, <1>10, Zenon
    <2> QED
      BY <1>10, <2>1
  <1> QED
    BY <1>9, <1>10

LEMMA OutcomesOfNot ==
  ASSUME NEW v, NEW c \in Conditions, c.op = "not", NEW b \in BOOLEAN, b \in OutcomesOf(v)[c]
  PROVE  (~b) \in OutcomesOf(v)[c.of]
  <1>1. PICK f : f = OutcomesOf(v)
    OBVIOUS
  <1>2. f \in [Conditions -> SUBSET BOOLEAN] /\ f[c] = OutcomesBy(v, f, c)
    BY <1>1, OutcomesAre
  <1>3. c.of \in Conditions
    BY OperandsBelow
  <1>4. f[c.of] \subseteq BOOLEAN
    BY <1>2, <1>3
  <1>5. b \in {~a : a \in f[c.of]}
    <2>1. "not" # "is"
      OBVIOUS
    <2> QED
      BY <1>1, <1>2, <2>1, Zenon DEF OutcomesBy
  <1>6. PICK a \in f[c.of] : b = ~a
    BY <1>5
  <1>7. a \in BOOLEAN
    BY <1>4, <1>6
  <1>8. a = ~b
    BY <1>6, <1>7
  <1> QED
    BY <1>1, <1>6, <1>8

LEMMA OutcomesOfTest ==
  ASSUME NEW v, NEW c \in Conditions, c.op = "is", TRUE \in OutcomesOf(v)[c]
  PROVE  v \in Instances[c.type]
  <1>1. PICK f : f = OutcomesOf(v)
    OBVIOUS
  <1>2. f[c] = OutcomesBy(v, f, c)
    BY <1>1, OutcomesAre
  <1>3. PICK says : says = (v \in Instances[c.type])
    OBVIOUS
  <1>4. TRUE \in {says}
    BY <1>1, <1>2, <1>3, Zenon DEF OutcomesBy
  <1> QED
    BY <1>3, <1>4

LEMMA SaysBoth ==
  ASSUME NEW v, NEW s \in NarrowedTypes, NEW t \in NarrowedTypes, Says(v, s), Says(v, t)
  PROVE  Says(v, s \o t)
  <1> SUFFICES ASSUME NEW i \in DOMAIN (s \o t) PROVE v \in Instances[(s \o t)[i]]
    BY DEF Says
  <1>1. Len(s) \in Nat /\ Len(t) \in Nat /\ DOMAIN s = 1 .. Len(s) /\ DOMAIN t = 1 .. Len(t)
    BY DEF NarrowedTypes
  <1>2. i \in 1 .. Len(s) + Len(t)
    BY <1>1 DEF NarrowedTypes
  <1>3. CASE i <= Len(s)
    <2>1. i \in DOMAIN s /\ (s \o t)[i] = s[i]
      BY <1>1, <1>2, <1>3 DEF NarrowedTypes
    <2> QED
      BY <2>1 DEF Says
  <1>4. CASE i > Len(s)
    <2>1. PICK j : j = i - Len(s)
      OBVIOUS
    <2>2. j \in DOMAIN t /\ (s \o t)[i] = t[j]
      BY <1>1, <1>2, <1>4, <2>1 DEF NarrowedTypes
    <2> QED
      BY <2>2 DEF Says
  <1> QED
    BY <1>1, <1>2, <1>3, <1>4

LEMMA TypesTell ==
  ASSUME NEW v, NEW c \in Conditions,
         \A d \in Conditions : d.depth < c.depth => Tells(v, TypeNarrowings, d)
  PROVE  Tells(v, TypeNarrowings, c)
  <1> SUFFICES ASSUME NEW b \in BOOLEAN, b \in OutcomesOf(v)[c]
               PROVE  Says(v, TypeNarrowings[<<c, b>>])
    BY DEF Tells
  <1>1. PICK f : f = TypeNarrowings
    OBVIOUS
  <1>2. PICK q : q = <<c, b>>
    OBVIOUS
  <1>3. q \in Questions /\ q[1] = c /\ q[2] = b
    BY <1>2 DEF Questions
  <1>4. f \in [Questions -> NarrowedTypes] /\ f[q] = TypesBy(f, q)
    BY <1>1, <1>3, TypeNarrowingsIs
  <1>5. \A d \in Conditions : \A a \in BOOLEAN : f[<<d, a>>] \in NarrowedTypes
    BY <1>4 DEF Questions
  <1>6. \A d \in Conditions : d.depth < c.depth =>
          \A a \in BOOLEAN : a \in OutcomesOf(v)[d] => Says(v, f[<<d, a>>])
    BY <1>1 DEF Tells
  <1>7. Says(v, << >>)
    BY DEF Says
  <1>8. CASE c.op = "is"
    <2>1. CASE b
      <3>1. v \in Instances[c.type]
        BY <1>8, <2>1, OutcomesOfTest
      <3>2. Says(v, <<c.type>>)
        BY <3>1 DEF Says
      <3>3. f[q] = <<c.type>>
        BY <1>3, <1>4, <1>8, <2>1, Zenon DEF TypesBy
      <3> QED
        BY <1>1, <1>2, <3>2, <3>3
    <2>2. CASE ~b
      <3>1. f[q] = << >>
        BY <1>3, <1>4, <1>8, <2>2, Zenon DEF TypesBy
      <3> QED
        BY <1>1, <1>2, <1>7, <3>1
    <2> QED
      BY <2>1, <2>2
  <1>9. CASE c.op = "not"
    <2>1. c.of \in Conditions /\ c.of.depth < c.depth /\ (~b) \in BOOLEAN
      BY <1>9, OperandsBelow
    <2>2. (~b) \in OutcomesOf(v)[c.of]
      BY <1>9, OutcomesOfNot
    <2>3. Says(v, f[<<c.of, ~b>>])
      BY <1>6, <2>1, <2>2, Zenon
    <2>4. f[q] = f[<<c.of, ~b>>]
      <3>1. "not" # "is"
        OBVIOUS
      <3> QED
        BY <1>3, <1>4, <1>9, <3>1, Zenon DEF TypesBy
    <2> QED
      BY <1>1, <1>2, <2>3, <2>4
  <1>10. CASE <<c.op, b>> \in {<<"and", TRUE>>, <<"or", FALSE>>}
    <2>1. c.op \in {"and", "or"} /\ (b <=> (c.op = "and")) /\ c.op # "is" /\ c.op # "not"
      BY <1>10
    <2>2. b \in OutcomesOf(v)[c.left] /\ b \in OutcomesOf(v)[c.right]
      BY <2>1, OutcomesOfCompound
    <2>3. /\ c.left \in Conditions /\ c.left.depth < c.depth
          /\ c.right \in Conditions /\ c.right.depth < c.depth
      BY <2>1, OperandsBelow
    <2>4. PICK s, t : s = f[<<c.left, b>>] /\ t = f[<<c.right, b>>]
      OBVIOUS
    <2>5. s \in NarrowedTypes /\ t \in NarrowedTypes /\ Says(v, s) /\ Says(v, t)
      BY <1>5, <1>6, <2>2, <2>3, <2>4, Zenon
    <2>6. f[q] = s \o t
      BY <1>3, <1>4, <1>10, <2>1, <2>4, Zenon DEF TypesBy
    <2> QED
      BY <1>1, <1>2, <2>5, <2>6, SaysBoth
  <1>11. CASE c.op \notin {"is", "not"} /\ <<c.op, b>> \notin {<<"and", TRUE>>, <<"or", FALSE>>}
    <2>1. c.op # "is" /\ c.op # "not"
      BY <1>11
    <2>2. f[q] = << >>
      BY <1>3, <1>4, <1>11, <2>1, Zenon DEF TypesBy
    <2> QED
      BY <1>1, <1>2, <1>7, <2>2
  <1> QED
    BY <1>8, <1>9, <1>10, <1>11

LEMMA LoweredTell ==
  ASSUME NEW v, NEW c \in Conditions,
         \A d \in Conditions : d.depth < c.depth => Tells(v, LoweredNarrowings, d)
  PROVE  Tells(v, LoweredNarrowings, c)
  <1> SUFFICES ASSUME NEW b \in BOOLEAN, b \in OutcomesOf(v)[c]
               PROVE  Says(v, LoweredNarrowings[<<c, b>>])
    BY DEF Tells
  <1>1. PICK f : f = LoweredNarrowings
    OBVIOUS
  <1>2. PICK q : q = <<c, b>>
    OBVIOUS
  <1>3. q \in Questions /\ q[1] = c /\ q[2] = b
    BY <1>2 DEF Questions
  <1>4. f[q] = LoweredBy(f, q)
    BY <1>1, <1>3, LoweredNarrowingsIs
  <1>6. \A d \in Conditions : d.depth < c.depth =>
          \A a \in BOOLEAN : a \in OutcomesOf(v)[d] => Says(v, f[<<d, a>>])
    BY <1>1 DEF Tells
  <1>7. Says(v, << >>)
    BY DEF Says
  <1>8. CASE c.op = "is"
    <2>1. CASE b
      <3>1. v \in Instances[c.type]
        BY <1>8, <2>1, OutcomesOfTest
      <3>2. Says(v, <<c.type>>)
        BY <3>1 DEF Says
      <3>3. f[q] = <<c.type>>
        BY <1>3, <1>4, <1>8, <2>1, Zenon DEF LoweredBy
      <3> QED
        BY <1>1, <1>2, <3>2, <3>3
    <2>2. CASE ~b
      <3>1. f[q] = << >>
        BY <1>3, <1>4, <1>8, <2>2, Zenon DEF LoweredBy
      <3> QED
        BY <1>1, <1>2, <1>7, <3>1
    <2> QED
      BY <2>1, <2>2
  <1>9. CASE c.op = "not"
    <2>1. c.of \in Conditions /\ c.of.depth < c.depth /\ (~b) \in BOOLEAN
      BY <1>9, OperandsBelow
    <2>2. (~b) \in OutcomesOf(v)[c.of]
      BY <1>9, OutcomesOfNot
    <2>3. Says(v, f[<<c.of, ~b>>])
      BY <1>6, <2>1, <2>2, Zenon
    <2>4. f[q] = f[<<c.of, ~b>>]
      <3>1. "not" # "is"
        OBVIOUS
      <3> QED
        BY <1>3, <1>4, <1>9, <3>1, Zenon DEF LoweredBy
    <2> QED
      BY <1>1, <1>2, <2>3, <2>4
  <1>10. CASE c.op \notin {"is", "not"}
    <2>1. c.op # "is" /\ c.op # "not"
      BY <1>10
    <2>2. f[q] = << >>
      BY <1>3, <1>4, <2>1, Zenon DEF LoweredBy
    <2> QED
      BY <1>1, <1>2, <1>7, <2>2
  <1> QED
    BY <1>8, <1>9, <1>10

\* What holds of a condition when it does of the less deep ones holds of all.
LEMMA ByDepth ==
  ASSUME NEW S, S \subseteq Conditions,
         \A c \in Conditions : (\A d \in Conditions : d.depth < c.depth => d \in S) => c \in S
  PROVE  S = Conditions
  <1>1. \A c \in Conditions : c.depth \in Nat
    BY OperandsBelow
  <1> DEFINE T == {n \in Nat : \A c \in Conditions : c.depth < n => c \in S}
  <1>2. 0 \in T
    BY <1>1
  <1>3. ASSUME NEW n \in Nat, n \in T PROVE n + 1 \in T
    BY <1>1, <1>3
  <1>4. Nat \subseteq T
    <2> HIDE DEF T
    <2> QED
      BY <1>2, <1>3, NatInduct
  <1>5. ASSUME NEW c \in Conditions PROVE c \in S
    <2>1. c.depth + 1 \in T /\ c.depth \in Nat
      BY <1>1, <1>4
    <2> QED
      BY <2>1
  <1> QED
    BY <1>5

LEMMA NarrowingsTell ==
  ASSUME NEW v, NEW c \in Conditions
  PROVE  Tells(v, TypeNarrowings, c) /\ Tells(v, LoweredNarrowings, c)
  <1>1. PICK S : S = {d \in Conditions : Tells(v, TypeNarrowings, d)}
    OBVIOUS
  <1>2. S = Conditions
    <2>1. ASSUME NEW d \in Conditions, \A e \in Conditions : e.depth < d.depth => e \in S
          PROVE  d \in S
      BY <1>1, <2>1, TypesTell
    <2> QED
      BY <1>1, <2>1, ByDepth
  <1>3. PICK U : U = {d \in Conditions : Tells(v, LoweredNarrowings, d)}
    OBVIOUS
  <1>4. U = Conditions
    <2>1. ASSUME NEW d \in Conditions, \A e \in Conditions : e.depth < d.depth => e \in U
          PROVE  d \in U
      BY <1>3, <2>1, LoweredTell
    <2> QED
      BY <1>3, <2>1, ByDepth
  <1> QED
    BY <1>1, <1>2, <1>3, <1>4

LEMMA NarrowIs ==
  ASSUME NEW T \in DOMAIN Instances, NEW types \in NarrowedTypes
  PROVE  /\ Narrow(T, types) \in DOMAIN Instances
         /\ \A v : v \in Instances[T] /\ Says(v, types) => v \in Instances[Narrow(T, types)]
  <1>1. CASE types = << >>
    BY <1>1 DEF Narrow
  <1>2. CASE types # << >>
    <2>1. PICK n : n = Len(types)
      OBVIOUS
    <2>2. n \in DOMAIN types /\ types[n] \in DOMAIN Instances
      BY <1>2, <2>1 DEF NarrowedTypes
    <2>3. Narrow(T, types) = types[n]
      BY <1>2, <2>1 DEF Narrow, Last
    <2> QED
      BY <2>2, <2>3 DEF Says
  <1> QED
    BY <1>1, <1>2

LEMMA Knows ==
  ASSUME NEW T \in DOMAIN Instances, NEW c \in Conditions, NEW b \in BOOLEAN
  PROVE  /\ Narrowed(T, c, b) \in DOMAIN Instances /\ Cast(T, c, b) \in DOMAIN Instances
         /\ \A v : v \in Instances[T] /\ b \in OutcomesOf(v)[c] =>
              v \in Instances[Narrowed(T, c, b)] /\ v \in Instances[Cast(T, c, b)]
  <1>1. PICK s, t : s = TypeNarrowings[<<c, b>>] /\ t = LoweredNarrowings[<<c, b>>]
    OBVIOUS
  <1>2. <<c, b>> \in Questions
    BY DEF Questions
  <1>3. s \in NarrowedTypes /\ t \in NarrowedTypes
    BY <1>1, <1>2, TypeNarrowingsIs, LoweredNarrowingsIs
  <1>4. Narrowed(T, c, b) = Narrow(T, s) /\ Cast(T, c, b) = Narrow(T, t)
    BY <1>1, Zenon DEF Narrowed, Cast, TypeNarrowingsForCondition, TypeNarrowingForCondition
  <1>5. \A v : b \in OutcomesOf(v)[c] => Says(v, s) /\ Says(v, t)
    BY <1>1, NarrowingsTell DEF Tells
  <1> QED
    BY <1>3, <1>4, <1>5, NarrowIs

\* Whatever the type x is given in front of a condition, if it has the value
\* of x, reading x in the condition finds a type that has it.
Readable(v, c) == \A T \in DOMAIN Instances : v \in Instances[T] => T \in ReadsHoldOf(v)[c]

LEMMA ReadableByOperands ==
  ASSUME NEW v, NEW c \in Conditions,
         \A d \in Conditions : d.depth < c.depth => Readable(v, d)
  PROVE  Readable(v, c)
  <1> SUFFICES ASSUME NEW T \in DOMAIN Instances, v \in Instances[T]
               PROVE  T \in ReadsHoldOf(v)[c]
    BY DEF Readable
  <1>1. PICK f : f = ReadsHoldOf(v)
    OBVIOUS
  <1>2. f[c] = ReadsBy(v, f, c)
    BY <1>1, ReadsAre
  <1>3. \A d \in Conditions : d.depth < c.depth =>
          \A U \in DOMAIN Instances : v \in Instances[U] => U \in f[d]
    BY <1>1 DEF Readable
  <1>4. CASE c.op = "reads"
    <2>1. T \in {U \in DOMAIN Instances : v \in Instances[U]}
      OBVIOUS
    <2> QED
      BY <1>1, <1>2, <1>4, <2>1, Zenon DEF ReadsBy
  <1>5. CASE c.op = "not"
    <2>1. T \in f[c.of]
      BY <1>3, <1>5, OperandsBelow
    <2>2. "not" # "reads"
      OBVIOUS
    <2> QED
      BY <1>1, <1>2, <1>5, <2>1, <2>2, Zenon DEF ReadsBy
  <1>6. CASE c.op \in {"and", "or"}
    <2>1. PICK b \in BOOLEAN : b = (c.op = "and")
      OBVIOUS
    <2>2. /\ c.left \in Conditions /\ c.left.depth < c.depth
          /\ c.right \in Conditions /\ c.right.depth < c.depth
      BY <1>6, OperandsBelow
    <2>3. T \in f[c.left]
      BY <1>3, <2>2
    <2>4. b \in OutcomesOf(v)[c.left] => Narrowed(T, c.left, b) \in f[c.right]
      <3> SUFFICES ASSUME b \in OutcomesOf(v)[c.left]
                   PROVE  Narrowed(T, c.left, b) \in f[c.right]
        OBVIOUS
      <3>1. PICK U : U = Narrowed(T, c.left, b)
        OBVIOUS
      <3>2. U \in DOMAIN Instances /\ v \in Instances[U]
        BY <2>2, <3>1, Knows
      <3>3. U \in f[c.right]
        BY <1>3, <2>2, <3>2
      <3> QED
        BY <3>1, <3>3
    <2>5. T \in {U \in f[c.left] : (c.op = "and") \in OutcomesOf(v)[c.left] =>
                                     Narrowed(U, c.left, c.op = "and") \in f[c.right]}
      BY <2>1, <2>3, <2>4, Zenon
    <2>6. c.op # "reads" /\ c.op # "not"
      BY <1>6
    <2> QED
      BY <1>1, <1>2, <1>6, <2>5, <2>6, Zenon DEF ReadsBy
  <1>7. CASE c.op \notin {"reads", "not", "and", "or"}
    BY <1>1, <1>2, <1>7, Zenon DEF ReadsBy
  <1> QED
    BY <1>4, <1>5, <1>6, <1>7

LEMMA AlwaysReadable ==
  ASSUME NEW v, NEW c \in Conditions
  PROVE  Readable(v, c)
  <1>1. PICK S : S = {d \in Conditions : Readable(v, d)}
    OBVIOUS
  <1>2. S = Conditions
    <2>1. ASSUME NEW d \in Conditions, \A e \in Conditions : e.depth < d.depth => e \in S
          PROVE  d \in S
      BY <1>1, <2>1, ReadableByOperands
    <2> QED
      BY <1>1, <2>1, ByDepth
  <1> QED
    BY <1>1, <1>2

-----------------------------------------------------------------------------
(* The blocks under way *)

AllScopes ==
  [rest : Seq(AllStatements), narrowed : DOMAIN Instances, cast : DOMAIN Instances, isLoop : BOOLEAN]

\* In the body of a loop there may be break and continue.
StmtsAt(s, n) == IF \E k \in 1 .. n : s[k].isLoop THEN LoopStatements ELSE Statements

\* The block around the body of a loop is at the loop.
ScopesOK(s) ==
  /\ s \in Seq(AllScopes)
  /\ \A n \in 1 .. Len(s) : s[n].rest \in Seq(StmtsAt(s, n))
  /\ \A n \in 1 .. Len(s) : s[n].isLoop =>
       n > 1 /\ s[n - 1].rest # << >> /\ Head(s[n - 1].rest).do = "while"

\* Control will not come back to block n before it leaves the function or
\* the loop: some block inside it ends so.
Left(s, n, ends) ==
  \E m \in n + 1 .. Len(s) : Ended(ends, s[m].rest) /\ \A k \in n + 1 .. m : ~s[k].isLoop

Held(v, accepted, s) ==
  \A n \in 1 .. Len(s) :
    /\ v \in Instances[s[n].cast] \/ Left(s, n, Endings)
    /\ accepted \/ v \in Instances[s[n].narrowed] \/ Left(s, n, ControlExits)

NarrowingInv ==
  /\ valueOfX \in Instances[Declared] /\ unmatched \in BOOLEAN
  /\ ScopesOK(scopes)
  /\ Held(valueOfX, unmatched, scopes)

Prefix(s, t, n) == t \in Seq(AllScopes) /\ Len(t) = n /\ \A i \in 1 .. n : t[i] = s[i]

Replaces(s, t, p) ==
  /\ t \in Seq(AllScopes) /\ Len(t) = Len(s)
  /\ \A i \in 1 .. Len(s) - 1 : t[i] = s[i]
  /\ t[Len(s)] = p

Pushes(s, t, q) ==
  /\ t \in Seq(AllScopes) /\ Len(t) = Len(s) + 1
  /\ \A i \in 1 .. Len(s) : t[i] = s[i]
  /\ t[Len(t)] = q

LEMMA PrefixIs ==
  ASSUME NEW s \in Seq(AllScopes), NEW n \in 0 .. Len(s), NEW t, t = SubSeq(s, 1, n)
  PROVE  Prefix(s, t, n)
  BY DEF Prefix

LEMMA PushIs ==
  ASSUME NEW s \in Seq(AllScopes), NEW q \in AllScopes, NEW t, t = Append(s, q)
  PROVE  Pushes(s, t, q)
  BY DEF Pushes

LEMMA ReplaceIs ==
  ASSUME NEW s \in Seq(AllScopes), s # << >>, NEW p \in AllScopes, NEW t, t = Append(Front(s), p)
  PROVE  Replaces(s, t, p)
  <1>1. PICK n : n = Len(s)
    OBVIOUS
  <1>2. n \in Nat /\ n # 0
    BY <1>1
  <1>3. PICK u : u = Front(s)
    OBVIOUS
  <1>4. Prefix(s, u, n - 1)
    <2>1. PICK k : k = n - 1
      OBVIOUS
    <2>2. k \in 0 .. Len(s) /\ u = SubSeq(s, 1, k)
      BY <1>1, <1>2, <1>3, <2>1 DEF Front
    <2> QED
      BY <2>1, <2>2, PrefixIs
  <1>5. Pushes(u, t, p)
    BY <1>3, <1>4, PushIs DEF Prefix
  <1> QED
    BY <1>1, <1>2, <1>4, <1>5 DEF Prefix, Pushes, Replaces

LEMMA StmtsAtSame ==
  ASSUME NEW s, NEW t, NEW n \in Nat, \A k \in 1 .. n : s[k].isLoop = t[k].isLoop
  PROVE  StmtsAt(s, n) = StmtsAt(t, n)
  <1>1. (\E k \in 1 .. n : s[k].isLoop) <=> (\E k \in 1 .. n : t[k].isLoop)
    OBVIOUS
  <1> QED
    BY <1>1, Zenon DEF StmtsAt

LEMMA PrefixOK ==
  ASSUME NEW s, ScopesOK(s), NEW n \in 0 .. Len(s), NEW t, Prefix(s, t, n)
  PROVE  ScopesOK(t)
  <1>1. t \in Seq(AllScopes) /\ Len(t) = n /\ \A i \in 1 .. n : t[i] = s[i]
    BY DEF Prefix
  <1>2. s \in Seq(AllScopes) /\ Len(s) \in Nat /\ n \in Nat
    BY DEF ScopesOK
  <1>3. ASSUME NEW m \in 1 .. n PROVE t[m].rest \in Seq(StmtsAt(t, m))
    <2>1. m \in Nat /\ m \in 1 .. Len(s) /\ \A k \in 1 .. m : s[k].isLoop = t[k].isLoop
      BY <1>1, <1>2
    <2>2. StmtsAt(s, m) = StmtsAt(t, m)
      BY <2>1, StmtsAtSame
    <2>3. s[m].rest \in Seq(StmtsAt(s, m))
      BY <2>1 DEF ScopesOK
    <2> QED
      BY <1>1, <2>2, <2>3
  <1>4. ASSUME NEW m \in 1 .. n, t[m].isLoop
        PROVE  m > 1 /\ t[m - 1].rest # << >> /\ Head(t[m - 1].rest).do = "while"
    <2>1. m \in 1 .. Len(s) /\ s[m].isLoop
      BY <1>1, <1>2, <1>4
    <2>2. m > 1 /\ s[m - 1].rest # << >> /\ Head(s[m - 1].rest).do = "while"
      BY <2>1 DEF ScopesOK
    <2>3. m - 1 \in 1 .. n
      BY <1>2, <2>2
    <2> QED
      BY <1>1, <2>2, <2>3
  <1> QED
    BY <1>1, <1>3, <1>4 DEF ScopesOK

LEMMA ReplaceOK ==
  ASSUME NEW s, ScopesOK(s), s # << >>, NEW p \in AllScopes, NEW t, Replaces(s, t, p),
         p.isLoop = s[Len(s)].isLoop, p.rest \in Seq(StmtsAt(s, Len(s)))
  PROVE  ScopesOK(t)
  <1>1. PICK n : n = Len(s)
    OBVIOUS
  <1>2. s \in Seq(AllScopes)
    BY DEF ScopesOK
  <1>3. n \in Nat /\ n # 0
    BY <1>1, <1>2
  <1>4. /\ t \in Seq(AllScopes) /\ Len(t) = n /\ t[n] = p
        /\ \A i \in 1 .. n - 1 : t[i] = s[i]
    BY <1>1 DEF Replaces
  <1>5. \A i \in 1 .. n : s[i].isLoop = t[i].isLoop
    BY <1>1, <1>3, <1>4
  <1>6. ASSUME NEW m \in 1 .. n PROVE t[m].rest \in Seq(StmtsAt(t, m))
    <2>1. m \in Nat /\ \A k \in 1 .. m : s[k].isLoop = t[k].isLoop
      BY <1>3, <1>5
    <2>2. StmtsAt(s, m) = StmtsAt(t, m)
      BY <2>1, StmtsAtSame
    <2>3. s[m].rest \in Seq(StmtsAt(s, m))
      BY <1>1 DEF ScopesOK
    <2>4. CASE m = n
      BY <1>1, <1>4, <2>2, <2>4
    <2>5. CASE m # n
      <3>1. t[m] = s[m]
        BY <1>3, <1>4, <2>5
      <3> QED
        BY <2>2, <2>3, <3>1
    <2> QED
      BY <2>4, <2>5
  <1>7. ASSUME NEW m \in 1 .. n, t[m].isLoop
        PROVE  m > 1 /\ t[m - 1].rest # << >> /\ Head(t[m - 1].rest).do = "while"
    <2>1. s[m].isLoop
      BY <1>5, <1>7
    <2>2. m > 1 /\ s[m - 1].rest # << >> /\ Head(s[m - 1].rest).do = "while"
      BY <1>1, <2>1 DEF ScopesOK
    <2>3. m - 1 \in 1 .. n - 1
      BY <1>3, <2>2
    <2> QED
      BY <1>4, <2>2, <2>3
  <1> QED
    BY <1>4, <1>6, <1>7 DEF ScopesOK

LEMMA PushOK ==
  ASSUME NEW s, ScopesOK(s), NEW q \in AllScopes, NEW t, Pushes(s, t, q),
         q.rest \in Seq(IF q.isLoop THEN LoopStatements ELSE StmtsAt(s, Len(s))),
         q.isLoop => s # << >> /\ s[Len(s)].rest # << >> /\ Head(s[Len(s)].rest).do = "while"
  PROVE  ScopesOK(t)
  <1>1. PICK n : n = Len(s)
    OBVIOUS
  <1>2. s \in Seq(AllScopes)
    BY DEF ScopesOK
  <1>3. n \in Nat /\ (s # << >> => n # 0)
    BY <1>1, <1>2
  <1>4. /\ t \in Seq(AllScopes) /\ Len(t) = n + 1 /\ t[n + 1] = q
        /\ \A i \in 1 .. n : t[i] = s[i]
    BY <1>1 DEF Pushes
  <1>5. ASSUME NEW m \in 1 .. n PROVE t[m].rest \in Seq(StmtsAt(t, m))
    <2>1. m \in Nat /\ \A k \in 1 .. m : s[k].isLoop = t[k].isLoop
      BY <1>3, <1>4
    <2>2. StmtsAt(s, m) = StmtsAt(t, m)
      BY <2>1, StmtsAtSame
    <2>3. s[m].rest \in Seq(StmtsAt(s, m))
      BY <1>1 DEF ScopesOK
    <2> QED
      BY <1>4, <2>2, <2>3
  <1>6. t[n + 1].rest \in Seq(StmtsAt(t, n + 1))
    <2>1. \A k \in 1 .. n : s[k].isLoop = t[k].isLoop
      BY <1>4
    <2>2. StmtsAt(s, n) = StmtsAt(t, n)
      BY <1>3, <2>1, StmtsAtSame
    <2>3. CASE q.isLoop
      <3>1. \E k \in 1 .. n + 1 : t[k].isLoop
        BY <1>3, <1>4, <2>3
      <3>2. StmtsAt(t, n + 1) = LoopStatements
        BY <3>1, Zenon DEF StmtsAt
      <3> QED
        BY <1>4, <2>3, <3>2, Zenon
    <2>4. CASE ~q.isLoop
      <3>1. (\E k \in 1 .. n + 1 : t[k].isLoop) <=> (\E k \in 1 .. n : t[k].isLoop)
        <4>1. \A k \in 1 .. n + 1 : k \in 1 .. n \/ k = n + 1
          BY <1>3
        <4>2. \A k \in 1 .. n : k \in 1 .. n + 1
          BY <1>3
        <4> QED
          BY <1>4, <2>4, <4>1, <4>2
      <3>2. StmtsAt(t, n + 1) = StmtsAt(t, n)
        BY <3>1, Zenon DEF StmtsAt
      <3>3. q.rest \in Seq(StmtsAt(s, n))
        BY <1>1, <2>4, Zenon
      <3> QED
        BY <1>4, <2>2, <3>2, <3>3
    <2> QED
      BY <2>3, <2>4
  <1>7. ASSUME NEW m \in 1 .. n + 1, t[m].isLoop
        PROVE  m > 1 /\ t[m - 1].rest # << >> /\ Head(t[m - 1].rest).do = "while"
    <2>1. CASE m = n + 1
      <3>1. n # 0 /\ s[n].rest # << >> /\ Head(s[n].rest).do = "while"
        BY <1>1, <1>3, <1>4, <1>7, <2>1
      <3>2. m > 1 /\ m - 1 = n /\ n \in 1 .. n
        BY <1>3, <2>1, <3>1
      <3>3. t[m - 1] = s[n]
        BY <1>4, <3>2
      <3> QED
        BY <3>1, <3>2, <3>3
    <2>2. CASE m # n + 1
      <3>1. m \in 1 .. n
        BY <1>3, <2>2
      <3>2. s[m].isLoop
        BY <1>4, <1>7, <3>1
      <3>3. m > 1 /\ s[m - 1].rest # << >> /\ Head(s[m - 1].rest).do = "while"
        BY <1>1, <3>1, <3>2 DEF ScopesOK
      <3>4. m - 1 \in 1 .. n
        BY <1>3, <3>1, <3>3
      <3> QED
        BY <1>4, <3>3, <3>4
    <2> QED
      BY <2>1, <2>2
  <1>8. \A m \in 1 .. n + 1 : m \in 1 .. n \/ m = n + 1
    BY <1>3
  <1> QED
    BY <1>4, <1>5, <1>6, <1>7, <1>8 DEF ScopesOK

-----------------------------------------------------------------------------
(* What a step keeps *)

\* t has the blocks around block K of s; what block K would have left, t
\* leaves in K or in a block inside it.
Follows(s, t, K, ends) ==
  /\ K \in 1 .. Len(s) /\ (K = Len(s) \/ s[K + 1].isLoop)
  /\ \A m \in 1 .. K - 1 : m <= Len(t) /\ t[m] = s[m]
  /\ Ended(ends, s[K].rest) =>
       /\ K <= Len(t) /\ t[K].isLoop = s[K].isLoop
       /\ \/ Ended(ends, t[K].rest)
          \/ K + 1 <= Len(t) /\ ~t[K + 1].isLoop /\ Ended(ends, t[K + 1].rest)

LEMMA LeftStays ==
  ASSUME NEW s, NEW t, NEW ends, NEW K, Follows(s, t, K, ends),
         Len(s) \in Nat, Len(t) \in Nat,
         NEW n \in 1 .. K - 1, Left(s, n, ends)
  PROVE  Left(t, n, ends)
  <1>1. K \in 1 .. Len(s) /\ (K = Len(s) \/ s[K + 1].isLoop) /\ K \in Nat /\ n \in Nat
    BY DEF Follows
  <1>2. PICK m \in n + 1 .. Len(s) : Ended(ends, s[m].rest) /\ \A k \in n + 1 .. m : ~s[k].isLoop
    BY DEF Left
  <1>3. m <= K
    <2> SUFFICES ASSUME m > K PROVE FALSE
      BY <1>1
    <2>1. K + 1 \in n + 1 .. m /\ K # Len(s)
      BY <1>1
    <2> QED
      BY <1>1, <1>2, <2>1
  <1>4. \A k \in 1 .. K - 1 : k <= Len(t) /\ t[k] = s[k]
    BY DEF Follows
  <1>5. CASE m < K
    <2>1. m \in 1 .. K - 1 /\ \A k \in n + 1 .. m : k \in 1 .. K - 1
      BY <1>1, <1>5
    <2>2. Ended(ends, t[m].rest) /\ \A k \in n + 1 .. m : ~t[k].isLoop
      BY <1>2, <1>4, <2>1
    <2>3. m \in n + 1 .. Len(t)
      BY <1>4, <2>1
    <2> QED
      BY <2>2, <2>3 DEF Left
  <1>6. CASE m = K
    <2>1. /\ K <= Len(t) /\ t[K].isLoop = s[K].isLoop
          /\ \/ Ended(ends, t[K].rest)
             \/ K + 1 <= Len(t) /\ ~t[K + 1].isLoop /\ Ended(ends, t[K + 1].rest)
      BY <1>2, <1>6 DEF Follows
    <2>2. \A k \in n + 1 .. K : k \in 1 .. K - 1 \/ k = K
      BY <1>1
    <2>3. \A k \in n + 1 .. K : ~t[k].isLoop
      BY <1>2, <1>4, <1>6, <2>1, <2>2
    <2>4. CASE Ended(ends, t[K].rest)
      <3>1. K \in n + 1 .. Len(t)
        BY <1>1, <2>1
      <3> QED
        BY <2>3, <2>4, <3>1 DEF Left
    <2>5. CASE K + 1 <= Len(t) /\ ~t[K + 1].isLoop /\ Ended(ends, t[K + 1].rest)
      <3>1. K + 1 \in n + 1 .. Len(t) /\ \A k \in n + 1 .. K + 1 : k \in n + 1 .. K \/ k = K + 1
        BY <1>1, <2>5
      <3>2. \A k \in n + 1 .. K + 1 : ~t[k].isLoop
        BY <2>3, <2>5, <3>1
      <3> QED
        BY <2>5, <3>1, <3>2 DEF Left
    <2> QED
      BY <2>1, <2>4, <2>5
  <1> QED
    BY <1>1, <1>3, <1>5, <1>6

LEMMA HeldStays ==
  ASSUME NEW v, NEW accepted, NEW acceptedAfter, accepted => acceptedAfter,
         NEW s, NEW t, Len(s) \in Nat, Len(t) \in Nat, Held(v, accepted, s),
         NEW K, Follows(s, t, K, Endings), acceptedAfter \/ Follows(s, t, K, ControlExits),
         \A n \in K .. Len(t) :
           /\ v \in Instances[t[n].cast] \/ Left(t, n, Endings)
           /\ acceptedAfter \/ v \in Instances[t[n].narrowed] \/ Left(t, n, ControlExits)
  PROVE  Held(v, acceptedAfter, t)
  <1>1. K \in 1 .. Len(s) /\ K \in Nat /\ \A m \in 1 .. K - 1 : t[m] = s[m]
    BY DEF Follows
  <1>2. ASSUME NEW n \in 1 .. Len(t), n < K
        PROVE  /\ v \in Instances[t[n].cast] \/ Left(t, n, Endings)
               /\ acceptedAfter \/ v \in Instances[t[n].narrowed] \/ Left(t, n, ControlExits)
    <2>1. n \in 1 .. K - 1 /\ n \in 1 .. Len(s) /\ t[n] = s[n]
      BY <1>1, <1>2
    <2>2. /\ v \in Instances[s[n].cast] \/ Left(s, n, Endings)
          /\ accepted \/ v \in Instances[s[n].narrowed] \/ Left(s, n, ControlExits)
      BY <2>1 DEF Held
    <2>3. Left(s, n, Endings) => Left(t, n, Endings)
      BY <2>1, LeftStays
    <2>4. acceptedAfter \/ (Left(s, n, ControlExits) => Left(t, n, ControlExits))
      BY <2>1, LeftStays
    <2> QED
      BY <2>1, <2>2, <2>3, <2>4
  <1>3. \A n \in 1 .. Len(t) : n < K \/ n \in K .. Len(t)
    BY <1>1
  <1> QED
    BY <1>2, <1>3 DEF Held

LEMMA InnermostHeld ==
  ASSUME NEW v, NEW accepted, NEW s, Len(s) \in Nat, s # << >>, Len(s) # 0, Held(v, accepted, s)
  PROVE  v \in Instances[s[Len(s)].cast] /\ (accepted \/ v \in Instances[s[Len(s)].narrowed])
  <1>1. PICK n : n = Len(s)
    OBVIOUS
  <1>2. n \in 1 .. n /\ n + 1 .. n = {}
    BY <1>1
  <1>3. /\ v \in Instances[s[n].cast] \/ Left(s, n, Endings)
        /\ accepted \/ v \in Instances[s[n].narrowed] \/ Left(s, n, ControlExits)
    BY <1>1, <1>2 DEF Held
  <1>4. ~Left(s, n, Endings) /\ ~Left(s, n, ControlExits)
    BY <1>1, <1>2 DEF Left
  <1> QED
    BY <1>1, <1>3, <1>4

LEMMA EndsAre ==
  ASSUME NEW stmt \in AllStatements
  PROVE  /\ stmt.do \in {"reads", "while"} => ~Endings[stmt] /\ ~ControlExits[stmt]
         /\ stmt.do = "match" => /\ ~Endings[stmt]
                                 /\ ControlExits[stmt] =>
                                      \A k \in DOMAIN stmt.bodies : Ended(ControlExits, stmt.bodies[k])
         /\ stmt.do = "if" => /\ Endings[stmt] => Ended(Endings, stmt.then) /\ Ended(Endings, stmt.else)
                              /\ ControlExits[stmt] =>
                                   Ended(ControlExits, stmt.then) /\ Ended(ControlExits, stmt.else)
  <1>1. Endings[stmt] <=> EndsBy(Endings, stmt)
    BY EndingsIs
  <1>2. ControlExits[stmt] <=> ExitsBy(ControlExits, stmt)
    BY ControlExitsIs
  <1>3. CASE stmt.do \in {"reads", "while"}
    BY <1>1, <1>2, <1>3 DEF EndsBy, ExitsBy
  <1>4. CASE stmt.do = "match"
    BY <1>1, <1>2, <1>4 DEF EndsBy, ExitsBy
  <1>5. CASE stmt.do = "if"
    BY <1>1, <1>2, <1>5 DEF EndsBy, ExitsBy
  <1>6. CASE stmt.do \notin {"reads", "while", "match", "if"}
    BY <1>6
  <1> QED
    BY <1>3, <1>4, <1>5, <1>6

LEMMA StmtTyped ==
  ASSUME NEW stmts \in {Statements, LoopStatements}, NEW stmt \in stmts
  PROVE  /\ stmt \in AllStatements
         /\ stmt.do \in {"if", "while"} => stmt.condition \in Conditions
         /\ stmt.do = "while" => stmt.body \in Seq(LoopStatements)
         /\ stmt.do = "if" => stmt.then \in Seq(stmts) /\ stmt.else \in Seq(stmts)
         /\ stmt.do = "match" => \A k \in DOMAIN stmt.bodies : stmt.bodies[k] \in Seq(stmts)
  <1>1. stmt \in AllStatements
    BY DEF AllStatements
  <1>2. /\ stmt.do \in {"if", "while"} => stmt.condition \in Conditions
        /\ stmt.do = "while" => stmt.body \in Seq(LoopStatements)
        /\ \A block \in Blocks(stmt) : block \in Seq(stmts)
    BY StatementAssumption, Zenon
  <1>3. ASSUME stmt.do = "if" PROVE stmt.then \in Seq(stmts) /\ stmt.else \in Seq(stmts)
    <2>1. stmt.then \in Blocks(stmt) /\ stmt.else \in Blocks(stmt)
      BY <1>3 DEF Blocks
    <2> QED
      BY <1>2, <2>1
  <1>4. ASSUME stmt.do = "match", NEW k \in DOMAIN stmt.bodies PROVE stmt.bodies[k] \in Seq(stmts)
    <2>1. stmt.bodies[k] \in Blocks(stmt)
      BY <1>4 DEF Blocks, Range
    <2> QED
      BY <1>2, <2>1
  <1> QED
    BY <1>1, <1>2, <1>3, <1>4

LEMMA EndedBy ==
  ASSUME NEW S, NEW rest \in Seq(S), rest # << >>, NEW ends
  PROVE  Ended(ends, rest) => ends[Head(rest)] \/ Ended(ends, Tail(rest))
  <1> SUFFICES ASSUME Ended(ends, rest), ~ends[Head(rest)] PROVE Ended(ends, Tail(rest))
    OBVIOUS
  <1>1. PICK i \in DOMAIN rest : ends[rest[i]]
    BY DEF Ended
  <1>2. i \in 1 .. Len(rest) /\ i # 1
    BY <1>1
  <1>3. PICK j : j = i - 1
    OBVIOUS
  <1>4. j \in DOMAIN Tail(rest) /\ Tail(rest)[j] = rest[i]
    BY <1>2, <1>3
  <1> QED
    BY <1>1, <1>4 DEF Ended

StmtsOf(stmts) == stmts \in {Statements, LoopStatements}

\* What block n is at.
LEMMA AtStmt ==
  ASSUME NEW s, ScopesOK(s), NEW n \in 1 .. Len(s), s[n].rest # << >>
  PROVE  /\ s[n] \in AllScopes /\ Len(s) \in Nat
         /\ StmtsOf(StmtsAt(s, n))
         /\ Head(s[n].rest) \in StmtsAt(s, n)
         /\ Tail(s[n].rest) \in Seq(StmtsAt(s, n)) /\ Tail(s[n].rest) \in Seq(AllStatements)
         /\ \A ends : Ended(ends, s[n].rest) => ends[Head(s[n].rest)] \/ Ended(ends, Tail(s[n].rest))
  <1>1. PICK r, stmts : r = s[n].rest /\ stmts = StmtsAt(s, n)
    OBVIOUS
  <1>2. s \in Seq(AllScopes) /\ r \in Seq(stmts) /\ r # << >>
    BY <1>1 DEF ScopesOK
  <1>3. s[n] \in AllScopes /\ Len(s) \in Nat /\ r \in Seq(AllStatements)
    <2>1. PICK scope : scope = s[n]
      OBVIOUS
    <2>2. scope \in AllScopes /\ Len(s) \in Nat
      BY <1>2, <2>1
    <2>3. scope.rest \in Seq(AllStatements)
      BY <2>2 DEF AllScopes
    <2> QED
      BY <1>1, <2>1, <2>2, <2>3
  <1>4. StmtsOf(stmts)
    BY <1>1, Zenon DEF StmtsOf, StmtsAt
  <1>5. Head(r) \in stmts /\ Tail(r) \in Seq(stmts) /\ Tail(r) \in Seq(AllStatements)
    BY <1>2, <1>3
  <1>6. \A ends : Ended(ends, r) => ends[Head(r)] \/ Ended(ends, Tail(r))
    BY <1>2, EndedBy
  <1> QED
    BY <1>1, <1>3, <1>4, <1>5, <1>6

\* t is s past the next statement of its innermost block, p when it is past it.
PassesOn(accepted, after, s, t, p) ==
  /\ accepted => after
  /\ s # << >> /\ s[Len(s)].rest # << >>
  /\ ~Endings[Head(s[Len(s)].rest)] /\ (after \/ ~ControlExits[Head(s[Len(s)].rest)])
  /\ p = [s[Len(s)] EXCEPT !.rest = Tail(@)]
  /\ Replaces(s, t, p)

LEMMA PassKeeps ==
  ASSUME NEW v, NEW accepted, NEW after, NEW s, ScopesOK(s), Held(v, accepted, s),
         NEW t, NEW p, PassesOn(accepted, after, s, t, p)
  PROVE  ScopesOK(t) /\ Held(v, after, t)
  <1> PICK n : n = Len(s)
    OBVIOUS
  <1> PICK stmt : stmt = Head(s[n].rest)
    OBVIOUS
  <1>0. /\ n = Len(s) /\ (accepted => after)
        /\ s # << >> /\ s[n].rest # << >>
        /\ ~Endings[stmt] /\ (after \/ ~ControlExits[stmt])
        /\ p = [s[n] EXCEPT !.rest = Tail(@)]
        /\ Replaces(s, t, p)
    BY Zenon DEF PassesOn
  <1>1. s \in Seq(AllScopes) /\ n \in Nat /\ n # 0 /\ n \in 1 .. Len(s)
    BY <1>0 DEF ScopesOK
  <1>2. /\ s[n] \in AllScopes
        /\ Tail(s[n].rest) \in Seq(StmtsAt(s, n)) /\ Tail(s[n].rest) \in Seq(AllStatements)
        /\ \A ends : Ended(ends, s[n].rest) => ends[stmt] \/ Ended(ends, Tail(s[n].rest))
    BY <1>0, <1>1, AtStmt
  <1>3. /\ p \in AllScopes /\ p.isLoop = s[n].isLoop /\ p.rest = Tail(s[n].rest)
        /\ p.cast = s[n].cast /\ p.narrowed = s[n].narrowed
    BY <1>0, <1>2 DEF AllScopes
  <1>4. ScopesOK(t)
    BY <1>0, <1>2, <1>3, ReplaceOK
  <1>5. /\ Len(t) = n /\ t[n] = p /\ \A i \in 1 .. n - 1 : t[i] = s[i]
    BY <1>0 DEF Replaces
  <1>6. Follows(s, t, n, Endings)
    BY <1>0, <1>1, <1>2, <1>3, <1>5 DEF Follows
  <1>7. after \/ Follows(s, t, n, ControlExits)
    BY <1>0, <1>1, <1>2, <1>3, <1>5 DEF Follows
  <1>8. v \in Instances[s[n].cast] /\ (accepted \/ v \in Instances[s[n].narrowed])
    BY <1>0, <1>1, InnermostHeld
  <1>9. \A m \in n .. Len(t) : m = n
    BY <1>1, <1>5
  <1>10. \A m \in n .. Len(t) :
           /\ v \in Instances[t[m].cast] \/ Left(t, m, Endings)
           /\ after \/ v \in Instances[t[m].narrowed] \/ Left(t, m, ControlExits)
    BY <1>0, <1>3, <1>5, <1>8, <1>9
  <1>11. Held(v, after, t)
    BY <1>0, <1>1, <1>5, <1>6, <1>7, <1>10, HeldStays
  <1> QED
    BY <1>4, <1>11

\* The innermost block of t is one that control just entered; the one around
\* it may have been given other types.
Enters(v, accepted, s, t, n) ==
  /\ Len(t) = n + 1 /\ \A i \in 1 .. n - 1 : t[i] = s[i]
  /\ t[n].isLoop = s[n].isLoop
  /\ \/ Ended(Endings, s[n].rest) => Ended(Endings, t[n].rest)
     \/ Ended(Endings, t[n + 1].rest) /\ ~t[n + 1].isLoop
  /\ \/ accepted
     \/ Ended(ControlExits, s[n].rest) => Ended(ControlExits, t[n].rest)
     \/ Ended(ControlExits, t[n + 1].rest) /\ ~t[n + 1].isLoop
  /\ \/ v \in Instances[t[n].cast]
     \/ Ended(Endings, t[n + 1].rest) /\ ~t[n + 1].isLoop
  /\ \/ accepted
     \/ v \in Instances[t[n].narrowed]
     \/ Ended(ControlExits, t[n + 1].rest) /\ ~t[n + 1].isLoop
  /\ v \in Instances[t[n + 1].cast] /\ (accepted \/ v \in Instances[t[n + 1].narrowed])

LEMMA EnterKeeps ==
  ASSUME NEW v, NEW accepted,
         NEW s, Len(s) \in Nat, Len(s) # 0, Held(v, accepted, s), NEW n, n = Len(s),
         NEW t, Enters(v, accepted, s, t, n)
  PROVE  Held(v, accepted, t)
  <1>1. n \in Nat /\ n # 0 /\ Len(t) = n + 1 /\ n \in 1 .. Len(s) /\ n + 1 \in Nat
    BY DEF Enters
  <1>2. Follows(s, t, n, Endings)
    BY <1>1 DEF Follows, Enters
  <1>3. accepted \/ Follows(s, t, n, ControlExits)
    BY <1>1 DEF Follows, Enters
  <1>4. \A ends : Ended(ends, t[n + 1].rest) /\ ~t[n + 1].isLoop => Left(t, n, ends)
    <2> SUFFICES ASSUME NEW ends, Ended(ends, t[n + 1].rest), ~t[n + 1].isLoop
                 PROVE  Left(t, n, ends)
      OBVIOUS
    <2>1. n + 1 \in n + 1 .. Len(t) /\ \A k \in n + 1 .. n + 1 : k = n + 1
      BY <1>1
    <2> QED
      BY <2>1 DEF Left
  <1>5. v \in Instances[t[n].cast] \/ Left(t, n, Endings)
    BY <1>4 DEF Enters
  <1>6. accepted \/ v \in Instances[t[n].narrowed] \/ Left(t, n, ControlExits)
    BY <1>4 DEF Enters
  <1>7. \A m \in n .. Len(t) : m = n \/ m = n + 1
    BY <1>1
  <1>8. \A m \in n .. Len(t) :
           /\ v \in Instances[t[m].cast] \/ Left(t, m, Endings)
           /\ accepted \/ v \in Instances[t[m].narrowed] \/ Left(t, m, ControlExits)
    BY <1>5, <1>6, <1>7 DEF Enters
  <1> QED
    BY <1>1, <1>2, <1>3, <1>8, HeldStays

\* t is s with another innermost block, or with one more.
Exchanged(s, t, p) == t = Append(Front(s), p)
Entered(s, t, q) == t = Append(s, q)

LEMMA ExchangedIs ==
  ASSUME NEW s \in Seq(AllScopes), s # << >>, NEW p \in AllScopes, NEW t, Exchanged(s, t, p)
  PROVE  Replaces(s, t, p)
  BY ReplaceIs DEF Exchanged

LEMMA EnteredIs ==
  ASSUME NEW s \in Seq(AllScopes), NEW q \in AllScopes, NEW t, Entered(s, t, q)
  PROVE  Pushes(s, t, q)
  BY PushIs DEF Entered

LEMMA IfKeeps ==
  ASSUME NEW v, NEW accepted, NEW s, ScopesOK(s), Held(v, accepted, s), s # << >>,
         NEW n, n = Len(s), s[n].rest # << >>, NEW stmt, stmt = Head(s[n].rest), stmt.do = "if",
         NEW b \in BOOLEAN, b \in OutcomesOf(v)[stmt.condition],
         NEW p, p = AfterIf(s[n], stmt), NEW u, Exchanged(s, u, p),
         NEW q, q = Scope(IF b THEN stmt.then ELSE stmt.else,
                          Narrowed(s[n].narrowed, stmt.condition, b),
                          Cast(s[n].cast, stmt.condition, b), FALSE),
         NEW t, Entered(u, t, q)
  PROVE  ScopesOK(t) /\ Held(v, accepted, t)
  <1>0. s \in Seq(AllScopes) /\ n \in Nat /\ n # 0 /\ n \in 1 .. Len(s) /\ Len(s) \in Nat
    BY DEF ScopesOK
  <1>1. PICK stmts, rest : stmts = StmtsAt(s, n) /\ rest = Tail(s[n].rest)
    OBVIOUS
  <1>2. /\ s[n] \in AllScopes /\ StmtsOf(stmts) /\ stmt \in stmts
        /\ rest \in Seq(stmts) /\ rest \in Seq(AllStatements)
        /\ \A ends : Ended(ends, s[n].rest) => ends[stmt] \/ Ended(ends, rest)
    BY <1>0, <1>1, AtStmt
  <1>3. /\ stmt \in AllStatements /\ stmt.condition \in Conditions
        /\ stmt.then \in Seq(stmts) /\ stmt.else \in Seq(stmts)
    BY <1>2, StmtTyped DEF StmtsOf
  <1>4. stmts \subseteq AllStatements
    BY <1>2 DEF StmtsOf, AllStatements
  <1>5. PICK c, N, C : c = stmt.condition /\ N = s[n].narrowed /\ C = s[n].cast
    OBVIOUS
  <1>6. c \in Conditions /\ N \in DOMAIN Instances /\ C \in DOMAIN Instances /\ s[n].isLoop \in BOOLEAN
    BY <1>2, <1>3, <1>5 DEF AllScopes
  <1>7. v \in Instances[C] /\ (accepted \/ v \in Instances[N])
    BY <1>0, <1>5, InnermostHeld
  <1>8. /\ Cast(C, c, b) \in DOMAIN Instances /\ v \in Instances[Cast(C, c, b)]
        /\ Narrowed(N, c, b) \in DOMAIN Instances
        /\ accepted \/ v \in Instances[Narrowed(N, c, b)]
    BY <1>5, <1>6, <1>7, Knows
  <1>9. /\ \A a \in BOOLEAN : Cast(C, c, a) \in DOMAIN Instances
        /\ \A a \in BOOLEAN : Narrowed(N, c, a) \in DOMAIN Instances
    BY <1>6, Knows
  <1>10. PICK taken : taken = IF b THEN stmt.then ELSE stmt.else
    OBVIOUS
  <1>11. taken \in Seq(stmts) /\ taken \in Seq(AllStatements)
    BY <1>3, <1>4, <1>10
  <1>12. q = Scope(taken, Narrowed(N, c, b), Cast(C, c, b), FALSE)
    BY <1>5, <1>10, Zenon
  <1>13. PICK exits, elseExits, left, elseLeft :
           /\ exits = Ended(ControlExits, stmt.then) /\ elseExits = Ended(ControlExits, stmt.else)
           /\ left = Ended(Endings, stmt.then) /\ elseLeft = Ended(Endings, stmt.else)
    OBVIOUS
  <1>14. exits \in BOOLEAN /\ elseExits \in BOOLEAN /\ left \in BOOLEAN /\ elseLeft \in BOOLEAN
    BY <1>13 DEF Ended
  <1>15. PICK N2, C2 : /\ N2 = IF exits = elseExits THEN N ELSE Narrowed(N, c, elseExits)
                       /\ C2 = IF left = elseLeft THEN C ELSE Cast(C, c, elseLeft)
    OBVIOUS
  <1>16. p = [s[n] EXCEPT !.rest = rest, !.narrowed = N2, !.cast = C2]
    BY <1>1, <1>5, <1>13, <1>15, Zenon DEF AfterIf, GuaranteesControlExit, LeavesNoBlock, Ended
  <1>17. N2 \in DOMAIN Instances /\ C2 \in DOMAIN Instances
    BY <1>6, <1>9, <1>14, <1>15
  <1>18. /\ p \in AllScopes /\ p.rest = rest /\ p.narrowed = N2 /\ p.cast = C2
         /\ p.isLoop = s[n].isLoop
    BY <1>2, <1>16, <1>17 DEF AllScopes
  <1>19. q \in AllScopes /\ q.isLoop = FALSE /\ q.rest = taken /\ q.cast = Cast(C, c, b)
         /\ q.narrowed = Narrowed(N, c, b)
    <2>1. PICK Nb, Cb : Nb = Narrowed(N, c, b) /\ Cb = Cast(C, c, b)
      OBVIOUS
    <2>2. q = Scope(taken, Nb, Cb, FALSE)
      BY <1>12, <2>1, Zenon
    <2>3. taken \in Seq(AllStatements) /\ Nb \in DOMAIN Instances /\ Cb \in DOMAIN Instances
      BY <1>8, <1>11, <2>1
    <2>4. q \in AllScopes /\ q.rest = taken /\ q.narrowed = Nb /\ q.cast = Cb /\ q.isLoop = FALSE
      BY <2>2, <2>3 DEF Scope, AllScopes
    <2> QED
      BY <2>1, <2>4
  <1>20. Replaces(s, u, p) /\ ScopesOK(u)
    <2>1. Replaces(s, u, p)
      BY <1>0, <1>18, ExchangedIs
    <2> QED
      BY <1>1, <1>2, <1>18, <2>1, ReplaceOK
  <1>21. Len(u) = n /\ u[n] = p /\ \A i \in 1 .. n - 1 : u[i] = s[i]
    BY <1>20 DEF Replaces
  <1>pushed. Pushes(u, t, q)
    <2>1. u \in Seq(AllScopes)
      BY <1>20 DEF ScopesOK
    <2> QED
      BY <1>19, <2>1, EnteredIs
  <1>22. Len(t) = n + 1 /\ t[n + 1] = q /\ \A i \in 1 .. n : t[i] = u[i]
    BY <1>21, <1>pushed DEF Pushes
  <1>23. \A k \in 1 .. n : s[k].isLoop = u[k].isLoop
    BY <1>0, <1>18, <1>21
  <1>24. StmtsAt(u, n) = stmts
    BY <1>0, <1>1, <1>23, StmtsAtSame
  <1>25. ScopesOK(t)
    <2>1. q.rest \in Seq(IF q.isLoop THEN LoopStatements ELSE StmtsAt(u, Len(u)))
      BY <1>11, <1>19, <1>21, <1>24
    <2> QED
      BY <1>19, <1>20, <1>pushed, <2>1, PushOK
  <1>26. t[n] = p /\ \A i \in 1 .. n - 1 : t[i] = s[i]
    BY <1>0, <1>21, <1>22
  <1>27. /\ Endings[stmt] => left /\ elseLeft
         /\ ControlExits[stmt] => exits /\ elseExits
    BY <1>3, <1>13, EndsAre
  <1>28. /\ b => (left <=> Ended(Endings, taken)) /\ (exits <=> Ended(ControlExits, taken))
         /\ ~b => (elseLeft <=> Ended(Endings, taken)) /\ (elseExits <=> Ended(ControlExits, taken))
    BY <1>10, <1>13
  <1>29. Ended(Endings, s[n].rest) => Ended(Endings, rest) \/ Ended(Endings, taken)
    BY <1>2, <1>27, <1>28
  <1>30. Ended(ControlExits, s[n].rest) => Ended(ControlExits, rest) \/ Ended(ControlExits, taken)
    BY <1>2, <1>27, <1>28
  <1>31. v \in Instances[C2] \/ Ended(Endings, taken)
    <2>1. CASE left = elseLeft
      BY <1>7, <1>15, <2>1
    <2>2. CASE left # elseLeft /\ (elseLeft <=> b)
      <3>1. elseLeft = b
        BY <1>14, <2>2
      <3> QED
        BY <1>8, <1>15, <2>2, <3>1
    <2>3. CASE left # elseLeft /\ ~(elseLeft <=> b)
      BY <1>14, <1>28, <2>3
    <2> QED
      BY <2>1, <2>2, <2>3
  <1>32. accepted \/ v \in Instances[N2] \/ Ended(ControlExits, taken)
    <2>1. CASE exits = elseExits
      BY <1>7, <1>15, <2>1
    <2>2. CASE exits # elseExits /\ (elseExits <=> b)
      <3>1. elseExits = b
        BY <1>14, <2>2
      <3> QED
        BY <1>8, <1>15, <2>2, <3>1
    <2>3. CASE exits # elseExits /\ ~(elseExits <=> b)
      BY <1>14, <1>28, <2>3
    <2> QED
      BY <2>1, <2>2, <2>3
  <1>33. Held(v, accepted, t)
    <2>1. t[n].isLoop = s[n].isLoop /\ ~t[n + 1].isLoop
      BY <1>18, <1>19, <1>22, <1>26
    <2>2. \/ Ended(Endings, s[n].rest) => Ended(Endings, t[n].rest)
          \/ Ended(Endings, t[n + 1].rest) /\ ~t[n + 1].isLoop
      BY <1>18, <1>19, <1>22, <1>26, <1>29, <2>1
    <2>3. \/ accepted
          \/ Ended(ControlExits, s[n].rest) => Ended(ControlExits, t[n].rest)
          \/ Ended(ControlExits, t[n + 1].rest) /\ ~t[n + 1].isLoop
      BY <1>18, <1>19, <1>22, <1>26, <1>30, <2>1
    <2>4. \/ v \in Instances[t[n].cast]
          \/ Ended(Endings, t[n + 1].rest) /\ ~t[n + 1].isLoop
      BY <1>18, <1>19, <1>22, <1>26, <1>31, <2>1
    <2>5. \/ accepted
          \/ v \in Instances[t[n].narrowed]
          \/ Ended(ControlExits, t[n + 1].rest) /\ ~t[n + 1].isLoop
      BY <1>18, <1>19, <1>22, <1>26, <1>32, <2>1
    <2>6. v \in Instances[t[n + 1].cast] /\ (accepted \/ v \in Instances[t[n + 1].narrowed])
      BY <1>8, <1>19, <1>22
    <2>7. Enters(v, accepted, s, t, n)
      BY <1>22, <1>26, <2>1, <2>2, <2>3, <2>4, <2>5, <2>6 DEF Enters
    <2> QED
      BY <1>0, <2>7, EnterKeeps
  <1> QED
    BY <1>25, <1>33

\* What a block begins with.
Begins(q, body, N, C, b) ==
  q \in AllScopes /\ q.rest = body /\ q.narrowed = N /\ q.cast = C /\ q.isLoop = b

LEMMA ScopeIs ==
  ASSUME NEW body \in Seq(AllStatements), NEW N \in DOMAIN Instances, NEW C \in DOMAIN Instances,
         NEW b \in BOOLEAN
  PROVE  Begins(Scope(body, N, C, b), body, N, C, b)
  BY DEF Scope, AllScopes, Begins

LEMMA WhileKeeps ==
  ASSUME NEW v, NEW accepted, NEW s, ScopesOK(s), Held(v, accepted, s), s # << >>,
         NEW n, n = Len(s), s[n].rest # << >>, NEW stmt, stmt = Head(s[n].rest), stmt.do = "while",
         TRUE \in OutcomesOf(v)[stmt.condition],
         NEW q, q = Scope(stmt.body, Narrowed(s[n].narrowed, stmt.condition, TRUE),
                          Cast(s[n].cast, stmt.condition, TRUE), TRUE),
         NEW t, t = Append(s, q)
  PROVE  ScopesOK(t) /\ Held(v, accepted, t)
  <1>0. s \in Seq(AllScopes) /\ n \in Nat /\ n # 0 /\ n \in 1 .. Len(s) /\ Len(s) \in Nat
    BY DEF ScopesOK
  <1>1. s[n] \in AllScopes /\ StmtsOf(StmtsAt(s, n)) /\ stmt \in StmtsAt(s, n)
    BY <1>0, AtStmt
  <1>2. stmt.condition \in Conditions /\ stmt.body \in Seq(LoopStatements)
    BY <1>1, StmtTyped DEF StmtsOf
  <1>3. stmt.body \in Seq(AllStatements)
    BY <1>2 DEF AllStatements
  <1>4. s[n].narrowed \in DOMAIN Instances /\ s[n].cast \in DOMAIN Instances
    BY <1>1 DEF AllScopes
  <1>5. v \in Instances[s[n].cast] /\ (accepted \/ v \in Instances[s[n].narrowed])
    BY <1>0, InnermostHeld
  <1>6. PICK Nb, Cb : /\ Nb = Narrowed(s[n].narrowed, stmt.condition, TRUE)
                      /\ Cb = Cast(s[n].cast, stmt.condition, TRUE)
    OBVIOUS
  <1>7. /\ Nb \in DOMAIN Instances /\ Cb \in DOMAIN Instances
        /\ v \in Instances[Cb] /\ (accepted \/ v \in Instances[Nb])
    BY <1>2, <1>4, <1>5, <1>6, Knows
  <1>8. q = Scope(stmt.body, Nb, Cb, TRUE)
    BY <1>6, Zenon
  <1>9. q \in AllScopes /\ q.rest = stmt.body /\ q.narrowed = Nb /\ q.cast = Cb /\ q.isLoop = TRUE
    <2>1. PICK body : body = stmt.body
      OBVIOUS
    <2>2. q = Scope(body, Nb, Cb, TRUE)
      BY <1>8, <2>1, Zenon
    <2>3. body \in Seq(AllStatements)
      BY <1>3, <2>1
    <2>4. Nb \in DOMAIN Instances /\ Cb \in DOMAIN Instances /\ TRUE \in BOOLEAN
      BY <1>7
    <2>5. Begins(Scope(body, Nb, Cb, TRUE), body, Nb, Cb, TRUE)
      BY <2>3, <2>4, ScopeIs, Zenon
    <2>6. Begins(q, body, Nb, Cb, TRUE)
      BY <2>2, <2>5, Zenon
    <2>7. q \in AllScopes /\ q.rest = body /\ q.narrowed = Nb /\ q.cast = Cb /\ q.isLoop = TRUE
      BY ONLY <2>6, Zenon DEF Begins
    <2> QED
      BY ONLY <2>1, <2>7, Zenon
  <1>10. Pushes(s, t, q)
    <2>1. s \in Seq(AllScopes)
      BY <1>0
    <2>2. q \in AllScopes
      BY ONLY <1>9, Zenon
    <2> QED
      BY <2>1, <2>2, PushIs, Zenon
  <1>11. ScopesOK(t)
    <2>1. q.rest \in Seq(IF q.isLoop THEN LoopStatements ELSE StmtsAt(s, Len(s)))
      BY <1>2, <1>9
    <2> QED
      BY <1>9, <1>10, <2>1, PushOK
  <1>12. Len(t) = n + 1 /\ t[n + 1] = q /\ \A i \in 1 .. n : t[i] = s[i]
    BY <1>10 DEF Pushes
  <1>13. t[n] = s[n] /\ \A i \in 1 .. n - 1 : t[i] = s[i]
    <2>1. n \in 1 .. n /\ \A i \in 1 .. n - 1 : i \in 1 .. n
      BY <1>0
    <2> QED
      BY <1>12, <2>1
  <1>14. Enters(v, accepted, s, t, n)
    BY <1>5, <1>7, <1>9, <1>12, <1>13 DEF Enters
  <1> QED
    BY <1>0, <1>11, <1>14, EnterKeeps

LEMMA MatchKeeps ==
  ASSUME NEW v, NEW accepted, NEW s, ScopesOK(s), Held(v, accepted, s), s # << >>,
         NEW n, n = Len(s), s[n].rest # << >>, NEW stmt, stmt = Head(s[n].rest), stmt.do = "match",
         NEW k \in DOMAIN stmt.bodies,
         NEW p, p = [s[n] EXCEPT !.rest = Tail(@)], NEW u, Exchanged(s, u, p),
         NEW q, q = Scope(stmt.bodies[k], s[n].narrowed, s[n].cast, FALSE),
         NEW t, Entered(u, t, q)
  PROVE  ScopesOK(t) /\ Held(v, accepted, t)
  <1>0. s \in Seq(AllScopes) /\ n \in Nat /\ n # 0 /\ n \in 1 .. Len(s) /\ Len(s) \in Nat
    BY DEF ScopesOK
  <1>1. PICK stmts, rest, body : stmts = StmtsAt(s, n) /\ rest = Tail(s[n].rest) /\ body = stmt.bodies[k]
    OBVIOUS
  <1>2. /\ s[n] \in AllScopes /\ StmtsOf(stmts) /\ stmt \in stmts
        /\ rest \in Seq(stmts) /\ rest \in Seq(AllStatements)
        /\ \A ends : Ended(ends, s[n].rest) => ends[stmt] \/ Ended(ends, rest)
    BY <1>0, <1>1, AtStmt
  <1>3. stmt \in AllStatements /\ body \in Seq(stmts)
    BY <1>1, <1>2, StmtTyped DEF StmtsOf
  <1>4. stmts \subseteq AllStatements
    BY <1>2 DEF StmtsOf, AllStatements
  <1>5. body \in Seq(AllStatements)
    BY <1>3, <1>4
  <1>6. /\ p \in AllScopes /\ p.rest = rest /\ p.narrowed = s[n].narrowed /\ p.cast = s[n].cast
        /\ p.isLoop = s[n].isLoop
    BY <1>1, <1>2 DEF AllScopes
  <1>7. /\ q \in AllScopes /\ q.rest = body /\ q.narrowed = s[n].narrowed /\ q.cast = s[n].cast
        /\ q.isLoop = FALSE
    BY <1>1, <1>2, <1>5 DEF Scope, AllScopes
  <1>8. Replaces(s, u, p) /\ ScopesOK(u)
    <2>1. Replaces(s, u, p)
      BY <1>0, <1>6, ExchangedIs
    <2> QED
      BY <1>1, <1>2, <1>6, <2>1, ReplaceOK
  <1>9. Len(u) = n /\ u[n] = p /\ \A i \in 1 .. n - 1 : u[i] = s[i]
    BY <1>8 DEF Replaces
  <1>pushed. Pushes(u, t, q)
    <2>1. u \in Seq(AllScopes)
      BY <1>8 DEF ScopesOK
    <2> QED
      BY <1>7, <2>1, EnteredIs
  <1>10. Len(t) = n + 1 /\ t[n + 1] = q /\ \A i \in 1 .. n : t[i] = u[i]
    BY <1>9, <1>pushed DEF Pushes
  <1>11. \A i \in 1 .. n : s[i].isLoop = u[i].isLoop
    <2>1. \A i \in 1 .. n : i \in 1 .. n - 1 \/ i = n
      BY <1>0
    <2> QED
      BY <1>6, <1>9, <2>1
  <1>12. StmtsAt(u, n) = stmts
    BY <1>0, <1>1, <1>11, StmtsAtSame
  <1>13. ScopesOK(t)
    <2>1. q.rest \in Seq(IF q.isLoop THEN LoopStatements ELSE StmtsAt(u, Len(u)))
      BY <1>3, <1>7, <1>9, <1>12
    <2> QED
      BY <1>7, <1>8, <1>pushed, <2>1, PushOK
  <1>14. t[n] = p /\ \A i \in 1 .. n - 1 : t[i] = s[i]
    BY <1>0, <1>9, <1>10
  <1>15. v \in Instances[s[n].cast] /\ (accepted \/ v \in Instances[s[n].narrowed])
    BY <1>0, InnermostHeld
  <1>16. ~Endings[stmt] /\ (ControlExits[stmt] => Ended(ControlExits, body))
    BY <1>1, <1>3, EndsAre
  <1>17. Ended(Endings, s[n].rest) => Ended(Endings, rest)
    BY <1>2, <1>16
  <1>18. Ended(ControlExits, s[n].rest) => Ended(ControlExits, rest) \/ Ended(ControlExits, body)
    BY <1>2, <1>16
  <1>19. Enters(v, accepted, s, t, n)
    BY <1>6, <1>7, <1>10, <1>14, <1>15, <1>17, <1>18 DEF Enters
  <1> QED
    BY <1>0, <1>13, <1>19, EnterKeeps

LEMMA EndKeeps ==
  ASSUME NEW v, NEW accepted, NEW s, ScopesOK(s), Held(v, accepted, s), s # << >>,
         NEW n, n = Len(s), s[n].rest = << >>, NEW t, t = Front(s)
  PROVE  ScopesOK(t) /\ Held(v, accepted, t)
  <1>0. s \in Seq(AllScopes) /\ n \in Nat /\ n # 0 /\ n \in 1 .. Len(s) /\ Len(s) \in Nat
    BY DEF ScopesOK
  <1>1. PICK m : m = n - 1
    OBVIOUS
  <1>2. m \in 0 .. Len(s) /\ t = SubSeq(s, 1, m)
    BY <1>0, <1>1 DEF Front
  <1>3. Prefix(s, t, m)
    BY <1>0, <1>2, PrefixIs
  <1>4. ScopesOK(t)
    BY <1>2, <1>3, PrefixOK
  <1>5. Len(t) = m /\ \A i \in 1 .. m : t[i] = s[i]
    BY <1>3 DEF Prefix
  <1>6. \A ends : ~Ended(ends, s[n].rest)
    BY DEF Ended
  <1>7. \A ends : Follows(s, t, n, ends)
    BY <1>0, <1>1, <1>5, <1>6 DEF Follows
  <1>8. n .. Len(t) = {}
    BY <1>0, <1>1, <1>5
  <1>9. Held(v, accepted, t)
    <2>1. Follows(s, t, n, Endings) /\ Follows(s, t, n, ControlExits) /\ Len(t) \in Nat
      BY <1>0, <1>1, <1>5, <1>7
    <2>2. \A k \in n .. Len(t) :
            /\ v \in Instances[t[k].cast] \/ Left(t, k, Endings)
            /\ accepted \/ v \in Instances[t[k].narrowed] \/ Left(t, k, ControlExits)
      BY <1>8
    <2> QED
      BY <1>0, <2>1, <2>2, HeldStays
  <1> QED
    BY <1>4, <1>9

\* t is the blocks around a loop's body.
AtLoop(s, t, n) == n \in 1 .. Len(s) - 1 /\ s[n + 1].isLoop /\ t = SubSeq(s, 1, n)

\* The block around the innermost loop's body is at that loop, and is held to
\* its types.
LEMMA LoopKeeps ==
  ASSUME NEW v, NEW accepted, NEW s, ScopesOK(s), Held(v, accepted, s),
         NEW n, NEW t, AtLoop(s, t, n)
  PROVE  /\ ScopesOK(t) /\ Held(v, accepted, t) /\ t # << >> /\ Len(t) = n /\ t \in Seq(AllScopes)
         /\ t[n].rest # << >> /\ Head(t[n].rest).do = "while"
  <1>0. s \in Seq(AllScopes) /\ Len(s) \in Nat /\ n \in Nat /\ n # 0 /\ n \in 1 .. Len(s)
        /\ n + 1 \in 1 .. Len(s) /\ s[n + 1].isLoop /\ t = SubSeq(s, 1, n)
    BY DEF ScopesOK, AtLoop
  <1>1. Prefix(s, t, n)
    <2>1. n \in 0 .. Len(s)
      BY <1>0
    <2> QED
      BY <1>0, <2>1, PrefixIs
  <1>2. ScopesOK(t)
    BY <1>0, <1>1, PrefixOK
  <1>3. Len(t) = n /\ t \in Seq(AllScopes) /\ \A i \in 1 .. n : t[i] = s[i]
    BY <1>1 DEF Prefix
  <1>4. t[n] = s[n]
    BY <1>0, <1>3
  <1>5. s[n].rest # << >> /\ Head(s[n].rest).do = "while"
    <2>1. PICK m : m = n + 1
      OBVIOUS
    <2>2. m \in 1 .. Len(s) /\ s[m].isLoop /\ m - 1 = n
      BY <1>0, <2>1
    <2>3. s[m - 1].rest # << >> /\ Head(s[m - 1].rest).do = "while"
      BY <2>2 DEF ScopesOK
    <2> QED
      BY <2>2, <2>3
  <1>6. \A ends : ~Left(s, n, ends)
    <2> SUFFICES ASSUME NEW ends, Left(s, n, ends) PROVE FALSE
      OBVIOUS
    <2>1. PICK m \in n + 1 .. Len(s) : \A k \in n + 1 .. m : ~s[k].isLoop
      BY DEF Left
    <2>2. n + 1 \in n + 1 .. m
      BY <1>0
    <2> QED
      BY <1>0, <2>1, <2>2
  <1>7. v \in Instances[t[n].cast] /\ (accepted \/ v \in Instances[t[n].narrowed])
    BY <1>0, <1>4, <1>6 DEF Held
  <1>8. \A ends : Follows(s, t, n, ends)
    BY <1>0, <1>3, <1>4 DEF Follows
  <1>9. \A m \in n .. Len(t) : m = n
    BY <1>0, <1>3
  <1>10. \A m \in n .. Len(t) :
           /\ v \in Instances[t[m].cast] \/ Left(t, m, Endings)
           /\ accepted \/ v \in Instances[t[m].narrowed] \/ Left(t, m, ControlExits)
    BY <1>7, <1>9
  <1>11. Held(v, accepted, t)
    <2>1. Follows(s, t, n, Endings) /\ Follows(s, t, n, ControlExits) /\ Len(t) \in Nat
      BY <1>0, <1>3, <1>8
    <2> QED
      BY <1>0, <1>10, <2>1, HeldStays
  <1> QED
    BY <1>0, <1>2, <1>3, <1>4, <1>5, <1>11

-----------------------------------------------------------------------------
(* Jumps *)

\* The block before the innermost body of a loop is n.
IsAroundLoop(s, n) ==
  /\ n \in 1 .. Len(s) - 1 /\ s[n + 1].isLoop
  /\ \A m \in n + 2 .. Len(s) : ~s[m].isLoop

LEMMA InnermostLoop ==
  ASSUME NEW s, ScopesOK(s), NEW k \in 1 .. Len(s), s[k].isLoop
  PROVE  \E n \in 1 .. Len(s) - 1 : IsAroundLoop(s, n)
  <1>1. PICK l : l = Len(s)
    OBVIOUS
  <1>2. s \in Seq(AllScopes) /\ l \in Nat /\ k \in Nat /\ k <= l
    BY <1>1 DEF ScopesOK
  <1> DEFINE T == {j \in Nat : \A i \in 1 .. l : s[i].isLoop /\ l - i < j =>
                                 \E m \in 1 .. l : s[m].isLoop /\ \A h \in m + 1 .. l : ~s[h].isLoop}
  <1>3. 0 \in T
    BY <1>2
  <1>4. ASSUME NEW j \in Nat, j \in T PROVE j + 1 \in T
    <2> SUFFICES ASSUME NEW i \in 1 .. l, s[i].isLoop, l - i < j + 1
                 PROVE  \E m \in 1 .. l : s[m].isLoop /\ \A h \in m + 1 .. l : ~s[h].isLoop
      BY <1>4
    <2>1. CASE \A h \in i + 1 .. l : ~s[h].isLoop
      BY <2>1
    <2>2. ASSUME NEW h \in i + 1 .. l, s[h].isLoop
          PROVE  \E m \in 1 .. l : s[m].isLoop /\ \A g \in m + 1 .. l : ~s[g].isLoop
      <3>1. h \in 1 .. l /\ l - h < j
        BY <1>2, <2>2
      <3> QED
        BY <1>4, <2>2, <3>1
    <2> QED
      BY <2>1, <2>2
  <1>5. Nat \subseteq T
    <2> HIDE DEF T
    <2> QED
      BY <1>3, <1>4, NatInduct
  <1>6. l + 1 \in T
    <2>1. l + 1 \in Nat
      BY <1>2
    <2> HIDE DEF T
    <2> QED
      BY <1>5, <2>1
  <1>7. PICK m \in 1 .. l : s[m].isLoop /\ \A h \in m + 1 .. l : ~s[h].isLoop
    <2>1. l - k < l + 1 /\ k \in 1 .. l
      BY <1>1, <1>2
    <2> QED
      BY <1>6, <2>1
  <1>8. m > 1
    BY <1>1, <1>7 DEF ScopesOK
  <1>9. PICK n : n = m - 1
    OBVIOUS
  <1>10. n \in 1 .. l - 1 /\ n + 1 = m /\ n + 2 = m + 1
    BY <1>2, <1>7, <1>8, <1>9
  <1>11. IsAroundLoop(s, n)
    <2>1. s[n + 1].isLoop
      BY <1>7, <1>10
    <2>2. \A h \in n + 2 .. l : ~s[h].isLoop
      BY <1>7, <1>10
    <2> QED
      BY <1>1, <1>10, <2>1, <2>2 DEF IsAroundLoop
  <1> QED
    BY <1>1, <1>10, <1>11

\* break and continue stand in a loop.
LEMMA JumpsInLoop ==
  ASSUME NEW s, ScopesOK(s), s # << >>, s[Len(s)].rest # << >>,
         Head(s[Len(s)].rest).do \in {"break", "continue"}
  PROVE  \E n \in 1 .. Len(s) - 1 : IsAroundLoop(s, n)
  <1>1. PICK n, stmt : n = Len(s) /\ stmt = Head(s[n].rest)
    OBVIOUS
  <1>2. n \in 1 .. Len(s) /\ n \in Nat
    BY <1>1 DEF ScopesOK
  <1>3. stmt \in StmtsAt(s, n)
    BY <1>1, <1>2, AtStmt
  <1>4. stmt.do \in {"break", "continue"}
    BY <1>1
  <1>5. stmt \notin Statements
    BY <1>4, StatementAssumption
  <1>6. StmtsAt(s, n) # Statements
    BY <1>3, <1>5
  <1>7. \E k \in 1 .. n : s[k].isLoop
    BY <1>6, Zenon DEF StmtsAt
  <1>8. PICK k \in 1 .. Len(s) : s[k].isLoop
    BY <1>1, <1>7
  <1> QED
    BY <1>8, InnermostLoop

LEMMA AroundLoopIs ==
  ASSUME NEW s, s = scopes, NEW u, u = AroundLoop, \E n \in 1 .. Len(s) - 1 : IsAroundLoop(s, n)
  PROVE  \E n \in 1 .. Len(s) - 1 : AtLoop(s, u, n)
  <1>1. PICK n : n = CHOOSE k \in 1 .. Len(s) - 1 :
                       s[k + 1].isLoop /\ \A m \in k + 2 .. Len(s) : ~s[m].isLoop
    OBVIOUS
  <1>2. u = SubSeq(s, 1, n)
    BY <1>1, Zenon DEF AroundLoop
  <1>3. \E k \in 1 .. Len(s) - 1 : s[k + 1].isLoop /\ \A m \in k + 2 .. Len(s) : ~s[m].isLoop
    BY Zenon DEF IsAroundLoop
  <1>4. n \in 1 .. Len(s) - 1 /\ s[n + 1].isLoop
    BY <1>1, <1>3, Zenon
  <1> QED
    BY <1>2, <1>4 DEF AtLoop

LEMMA ConditionOf ==
  ASSUME NEW stmt \in AllStatements, stmt.do \in {"if", "while"}
  PROVE  stmt.condition \in Conditions
  BY StmtTyped DEF AllStatements

LEMMA ExceptIs ==
  ASSUME NEW s \in Seq(AllScopes), NEW n, n = Len(s), n # 0, NEW p \in AllScopes,
         NEW t, t = [s EXCEPT ![n] = p]
  PROVE  Replaces(s, t, p)
  BY DEF Replaces

\* The values a condition can have are Booleans.
LEMMA OutcomeIs ==
  ASSUME NEW v, NEW c \in Conditions, NEW b \in OutcomesOf(v)[c]
  PROVE  b \in BOOLEAN
  BY OutcomesAre

\* A loop left by break is passed.
LEMMA BreakKeeps ==
  ASSUME NEW v, NEW accepted, NEW u, ScopesOK(u), Held(v, accepted, u), u # << >>,
         u \in Seq(AllScopes), u[Len(u)].rest # << >>, Head(u[Len(u)].rest).do = "while",
         NEW t, t = [u EXCEPT ![Len(u)].rest = Tail(@)]
  PROVE  ScopesOK(t) /\ Held(v, accepted, t)
  <1>1. PICK n, stmt, p : /\ n = Len(u) /\ stmt = Head(u[n].rest)
                          /\ p = [u[n] EXCEPT !.rest = Tail(@)]
    OBVIOUS
  <1>2. n \in Nat /\ n # 0 /\ n \in 1 .. Len(u)
    BY <1>1
  <1>3. /\ u[n] \in AllScopes /\ StmtsOf(StmtsAt(u, n)) /\ stmt \in StmtsAt(u, n)
        /\ Tail(u[n].rest) \in Seq(AllStatements)
    BY <1>1, <1>2, AtStmt
  <1>4. stmt \in AllStatements /\ stmt.do = "while"
    BY <1>1, <1>3 DEF StmtsOf, AllStatements
  <1>5. ~Endings[stmt] /\ ~ControlExits[stmt]
    BY <1>4, EndsAre
  <1>6. p \in AllScopes
    BY <1>1, <1>3 DEF AllScopes
  <1>7. t = [u EXCEPT ![n] = p]
    BY <1>1, Zenon
  <1>8. Replaces(u, t, p)
    BY <1>1, <1>2, <1>6, <1>7, ExceptIs, Zenon
  <1>9. PassesOn(accepted, accepted, u, t, p)
    BY <1>1, <1>5, <1>8, Zenon DEF PassesOn
  <1> QED
    BY <1>9, PassKeeps

-----------------------------------------------------------------------------
(* The steps *)

LEMMA NarrowingInitially == NarrowingInit => NarrowingInv
  <1> SUFFICES ASSUME NarrowingInit PROVE NarrowingInv
    OBVIOUS
  <1>1. PICK body \in Bodies : scopes = <<Scope(body, Declared, Declared, FALSE)>>
    BY DEF NarrowingInit
  <1>2. PICK q : q = Scope(body, Declared, Declared, FALSE)
    OBVIOUS
  <1>3. PICK s : s = <<q>>
    OBVIOUS
  <1>4. s = scopes /\ Len(s) = 1 /\ s[1] = q /\ 1 .. 1 = {1} /\ 2 .. 1 = {}
    BY <1>1, <1>2, <1>3
  <1>5. body \in Seq(Statements) /\ body \in Seq(AllStatements) /\ Declared \in DOMAIN Instances
    BY StatementAssumption DEF AllStatements
  <1>6. Begins(q, body, Declared, Declared, FALSE)
    BY <1>2, <1>5, ScopeIs, Zenon
  <1>7. q \in AllScopes /\ q.rest = body /\ q.narrowed = Declared /\ q.cast = Declared
        /\ q.isLoop = FALSE
    BY ONLY <1>6, Zenon DEF Begins
  <1>8. PICK v : v = valueOfX
    OBVIOUS
  <1>9. v \in Instances[Declared] /\ unmatched = FALSE
    BY <1>8 DEF NarrowingInit
  <1>10. s \in Seq(AllScopes)
    BY <1>3, <1>7
  <1>11. StmtsAt(s, 1) = Statements
    <2>1. ~(\E k \in 1 .. 1 : s[k].isLoop)
      BY <1>4, <1>7
    <2> QED
      BY <2>1, Zenon DEF StmtsAt
  <1>12. ScopesOK(s)
    BY <1>4, <1>5, <1>7, <1>10, <1>11 DEF ScopesOK
  <1>13. Held(v, FALSE, s)
    BY <1>4, <1>7, <1>9 DEF Held
  <1> QED
    BY <1>4, <1>8, <1>9, <1>12, <1>13 DEF NarrowingInv

LEMMA NarrowingStep == NarrowingInv /\ NarrowingNext => NarrowingInv'
  <1> SUFFICES ASSUME NarrowingInv, NarrowingNext PROVE NarrowingInv'
    OBVIOUS
  <1>1. PICK s, t, v, accepted, after :
          s = scopes /\ t = scopes' /\ v = valueOfX /\ accepted = unmatched /\ after = unmatched'
    OBVIOUS
  <1>2. v \in Instances[Declared] /\ accepted \in BOOLEAN /\ ScopesOK(s) /\ Held(v, accepted, s)
    BY <1>1 DEF NarrowingInv
  <1>3. PICK n, stmt : n = Len(s) /\ stmt = Head(s[n].rest)
    OBVIOUS
  <1>4. s \in Seq(AllScopes) /\ n \in Nat /\ (s # << >> => n # 0 /\ n \in 1 .. Len(s))
    BY <1>2, <1>3 DEF ScopesOK
  <1>5. ASSUME valueOfX' = v, after \in BOOLEAN, ScopesOK(t), Held(v, after, t)
        PROVE  NarrowingInv'
    BY <1>1, <1>2, <1>5 DEF NarrowingInv
  <1>6. Innermost = s[n]
    BY <1>1, <1>3 DEF Innermost, Last
  <1>7. Stmt = stmt
    BY <1>3, <1>6, Zenon DEF Stmt
  <1>8. ASSUME NEW what, At(what)
        PROVE  s # << >> /\ s[n].rest # << >> /\ stmt.do = what /\ stmt \in AllStatements
    <2>1. s # << >> /\ s[n].rest # << >> /\ stmt.do = what
      BY <1>1, <1>3, <1>6, <1>8 DEF At
    <2>2. StmtsOf(StmtsAt(s, n)) /\ stmt \in StmtsAt(s, n)
      BY <1>2, <1>3, <1>4, <2>1, AtStmt
    <2> QED
      BY <2>1, <2>2 DEF StmtsOf, AllStatements
  <1>9. PICK p : p = [s[n] EXCEPT !.rest = Tail(@)]
    OBVIOUS
  <1>10. ASSUME s # << >>, s[n].rest # << >>
         PROVE  p \in AllScopes
    <2>1. s[n] \in AllScopes /\ Tail(s[n].rest) \in Seq(AllStatements)
      BY <1>2, <1>3, <1>4, <1>10, AtStmt
    <2> QED
      BY <1>9, <2>1 DEF AllScopes
  <1>11. Passed = p
    BY <1>6, <1>9, Zenon DEF Passed
  <1>12. ASSUME NEW q, s # << >>
         PROVE  Exchanged(s, Around(q), q)
    BY <1>1 DEF Around, Exchanged
  <1>13. ASSUME accepted => after, s # << >>, s[n].rest # << >>, ~Endings[stmt],
                after \/ ~ControlExits[stmt], t = Around(p)
         PROVE  ScopesOK(t) /\ Held(v, after, t)
    <2>1. Replaces(s, t, p)
      BY <1>4, <1>10, <1>12, <1>13, ExchangedIs
    <2>2. PassesOn(accepted, after, s, t, p)
      BY <1>3, <1>9, <1>13, <2>1, Zenon DEF PassesOn
    <2> QED
      BY <1>2, <2>2, PassKeeps
  <1>14. CASE Reads
    <2>1. At("reads") /\ t = Around(Passed) /\ valueOfX' = v /\ after = accepted
      BY <1>1, <1>14 DEF Reads
    <2>2. s # << >> /\ s[n].rest # << >> /\ ~Endings[stmt] /\ ~ControlExits[stmt]
      BY <1>8, <2>1, EndsAre
    <2>3. ScopesOK(t) /\ Held(v, after, t)
      BY <1>11, <1>13, <2>1, <2>2
    <2> QED
      BY <1>2, <1>5, <2>1, <2>3
  <1>15. CASE If
    <2>1. At("if") /\ valueOfX' = v /\ after = accepted
      BY <1>1, <1>15 DEF If
    <2>2. s # << >> /\ s[n].rest # << >> /\ stmt.do = "if"
      BY <1>8, <2>1
    <2>3. PICK b \in Outcomes(Stmt.condition) :
            scopes' = Append(Around(AfterIf(Innermost, Stmt)),
                             Scope(IF b THEN Stmt.then ELSE Stmt.else,
                                   Narrowed(Innermost.narrowed, Stmt.condition, b),
                                   Cast(Innermost.cast, Stmt.condition, b), FALSE))
      BY <1>15, Zenon DEF If
    <2>4. b \in OutcomesOf(v)[stmt.condition]
      BY <1>1, <1>7, <2>3, Zenon DEF Outcomes
    <2>5. b \in BOOLEAN
      <3>1. stmt \in AllStatements /\ stmt.do \in {"if", "while"}
        BY <1>8, <2>1
      <3>2. stmt.condition \in Conditions
        BY <3>1, ConditionOf
      <3> QED
        BY <2>4, <3>2, OutcomeIs, Zenon
    <2>6. PICK r, q, u :
            /\ r = AfterIf(s[n], stmt)
            /\ q = Scope(IF b THEN stmt.then ELSE stmt.else,
                         Narrowed(s[n].narrowed, stmt.condition, b),
                         Cast(s[n].cast, stmt.condition, b), FALSE)
            /\ u = Around(r)
      OBVIOUS
    <2>7. t = Append(u, q)
      BY <1>1, <1>6, <1>7, <2>3, <2>6, Zenon
    <2>8. Exchanged(s, u, r) /\ Entered(u, t, q)
      BY <1>12, <2>2, <2>6, <2>7 DEF Entered
    <2>9. ScopesOK(t) /\ Held(v, accepted, t)
      BY <1>2, <1>3, <2>2, <2>4, <2>5, <2>6, <2>8, IfKeeps
    <2> QED
      BY <1>2, <1>5, <2>1, <2>9
  <1>16. CASE While
    <2>1. At("while") /\ valueOfX' = v /\ after = accepted
      BY <1>1, <1>16 DEF While
    <2>2. s # << >> /\ s[n].rest # << >> /\ stmt.do = "while" /\ stmt \in AllStatements
      BY <1>8, <2>1
    <2>3. PICK b \in Outcomes(Stmt.condition) :
            scopes' = IF b THEN Append(scopes, Scope(Stmt.body,
                                         Narrowed(Innermost.narrowed, Stmt.condition, TRUE),
                                         Cast(Innermost.cast, Stmt.condition, TRUE), TRUE))
                      ELSE Around(Passed)
      BY <1>16, Zenon DEF While
    <2>4. b \in OutcomesOf(v)[stmt.condition]
      BY <1>1, <1>7, <2>3, Zenon DEF Outcomes
    <2>5. b \in BOOLEAN
      <3>1. stmt \in AllStatements /\ stmt.do \in {"if", "while"}
        BY <1>8, <2>1
      <3>2. stmt.condition \in Conditions
        BY <3>1, ConditionOf
      <3> QED
        BY <2>4, <3>2, OutcomeIs, Zenon
    <2>6. CASE b
      <3>1. PICK q : q = Scope(stmt.body, Narrowed(s[n].narrowed, stmt.condition, TRUE),
                               Cast(s[n].cast, stmt.condition, TRUE), TRUE)
        OBVIOUS
      <3>2. t = Append(s, q)
        BY <1>1, <1>6, <1>7, <2>3, <2>6, <3>1, Zenon
      <3>3. b = TRUE
        BY <2>5, <2>6
      <3>4. TRUE \in OutcomesOf(v)[stmt.condition]
        BY <2>4, <3>3, Zenon
      <3>5. ScopesOK(t) /\ Held(v, accepted, t)
        BY <1>2, <1>3, <2>2, <3>1, <3>2, <3>4, WhileKeeps
      <3> QED
        BY <1>2, <1>5, <2>1, <3>5
    <2>7. CASE ~b
      <3>1. t = Around(p)
        BY <1>1, <1>11, <2>3, <2>7, Zenon
      <3>2. ~Endings[stmt] /\ ~ControlExits[stmt]
        BY <2>2, EndsAre
      <3>3. ScopesOK(t) /\ Held(v, after, t)
        BY <1>13, <2>1, <2>2, <3>1, <3>2
      <3> QED
        BY <1>2, <1>5, <2>1, <3>3
    <2> QED
      BY <2>6, <2>7
  <1>17. CASE Match
    <2>1. At("match") /\ valueOfX' = v
      BY <1>1, <1>17 DEF Match
    <2>2. s # << >> /\ s[n].rest # << >> /\ stmt.do = "match" /\ ~Endings[stmt]
      BY <1>8, <2>1, EndsAre
    <2>3. CASE after = accepted /\ \E k \in DOMAIN stmt.bodies :
                 t = Append(Around(p), Scope(stmt.bodies[k], s[n].narrowed, s[n].cast, FALSE))
      <3>1. PICK k \in DOMAIN stmt.bodies :
              t = Append(Around(p), Scope(stmt.bodies[k], s[n].narrowed, s[n].cast, FALSE))
        BY <2>3
      <3>2. PICK q, u : q = Scope(stmt.bodies[k], s[n].narrowed, s[n].cast, FALSE) /\ u = Around(p)
        OBVIOUS
      <3>3. Exchanged(s, u, p) /\ Entered(u, t, q)
        BY <1>12, <2>2, <3>1, <3>2 DEF Entered
      <3>4. ScopesOK(t) /\ Held(v, accepted, t)
        BY <1>2, <1>3, <1>9, <2>2, <3>2, <3>3, MatchKeeps
      <3> QED
        BY <1>2, <1>5, <2>1, <2>3, <3>4
    <2>4. CASE after = TRUE /\ t = Around(p)
      <3>1. ScopesOK(t) /\ Held(v, after, t)
        BY <1>13, <2>2, <2>4
      <3> QED
        BY <1>5, <2>1, <2>4, <3>1
    <2>5. \/ after = accepted /\ \E k \in DOMAIN stmt.bodies :
               t = Append(Around(p), Scope(stmt.bodies[k], s[n].narrowed, s[n].cast, FALSE))
          \/ after = TRUE /\ t = Around(p)
      BY <1>1, <1>6, <1>7, <1>11, <1>17, Zenon DEF Match
    <2> QED
      BY <2>3, <2>4, <2>5
  <1>18. CASE EndOfBlock
    <2>1. s # << >> /\ s[n].rest = << >> /\ t = Front(s) /\ valueOfX' = v /\ after = accepted
      BY <1>1, <1>6, <1>18 DEF EndOfBlock
    <2>2. ScopesOK(t) /\ Held(v, accepted, t)
      BY <1>2, <1>3, <2>1, EndKeeps
    <2> QED
      BY <1>2, <1>5, <2>1, <2>2
  <1>19. ASSUME s # << >>, s[n].rest # << >>, stmt.do \in {"break", "continue"}, NEW u, u = AroundLoop
         PROVE  /\ ScopesOK(u) /\ Held(v, accepted, u) /\ u # << >> /\ u \in Seq(AllScopes)
                /\ u[Len(u)].rest # << >> /\ Head(u[Len(u)].rest).do = "while"
    <2>1. \E m \in 1 .. Len(s) - 1 : IsAroundLoop(s, m)
      BY <1>2, <1>3, <1>19, JumpsInLoop
    <2>2. PICK m \in 1 .. Len(s) - 1 : AtLoop(s, u, m)
      BY <1>1, <1>19, <2>1, AroundLoopIs
    <2>3. /\ ScopesOK(u) /\ Held(v, accepted, u) /\ u # << >> /\ Len(u) = m /\ u \in Seq(AllScopes)
          /\ u[m].rest # << >> /\ Head(u[m].rest).do = "while"
      BY <1>2, <2>2, LoopKeeps
    <2> QED
      BY <2>3
  <1>20. CASE Continue
    <2>1. At("continue") /\ t = AroundLoop /\ valueOfX' = v /\ after = accepted
      BY <1>1, <1>20 DEF Continue
    <2>2. s # << >> /\ s[n].rest # << >> /\ stmt.do \in {"break", "continue"}
      BY <1>8, <2>1
    <2>3. ScopesOK(t) /\ Held(v, accepted, t)
      BY <1>19, <2>1, <2>2
    <2> QED
      BY <1>2, <1>5, <2>1, <2>3
  <1>21. CASE Break
    <2>1. At("break") /\ t = [AroundLoop EXCEPT ![Len(AroundLoop)].rest = Tail(@)]
          /\ valueOfX' = v /\ after = accepted
      BY <1>1, <1>21 DEF Break
    <2>2. s # << >> /\ s[n].rest # << >> /\ stmt.do \in {"break", "continue"}
      BY <1>8, <2>1
    <2>3. PICK u : u = AroundLoop
      OBVIOUS
    <2>4. /\ ScopesOK(u) /\ Held(v, accepted, u) /\ u # << >> /\ u \in Seq(AllScopes)
          /\ u[Len(u)].rest # << >> /\ Head(u[Len(u)].rest).do = "while"
      BY <1>19, <2>2, <2>3
    <2>5. ScopesOK(t) /\ Held(v, accepted, t)
      BY <2>1, <2>3, <2>4, BreakKeeps
    <2> QED
      BY <1>2, <1>5, <2>1, <2>5
  <1>22. CASE LeaveFunction
    <2>1. t = << >> /\ valueOfX' = v /\ after = accepted
      BY <1>1, <1>22 DEF LeaveFunction
    <2>2. ScopesOK(t) /\ Held(v, accepted, t)
      BY <2>1 DEF ScopesOK, Held
    <2> QED
      BY <1>2, <1>5, <2>1, <2>2
  <1> QED
    BY <1>14, <1>15, <1>16, <1>17, <1>18, <1>20, <1>21, <1>22 DEF NarrowingNext

\* Each block on the way has the types the tests gave it, or an inner block
\* will leave it.
THEOREM NarrowingInvariant == NarrowingSpec => []NarrowingInv
  <1>1. NarrowingInit => NarrowingInv
    BY NarrowingInitially
  <1>2. NarrowingInv /\ [NarrowingNext]_narrowingVars => NarrowingInv'
    <2> SUFFICES ASSUME NarrowingInv, [NarrowingNext]_narrowingVars PROVE NarrowingInv'
      OBVIOUS
    <2>1. CASE NarrowingNext
      BY <2>1, NarrowingStep
    <2>2. CASE UNCHANGED narrowingVars
      BY <2>2 DEF narrowingVars, NarrowingInv
    <2> QED
      BY <2>1, <2>2
  <1> QED
    BY <1>1, <1>2, PTL DEF NarrowingSpec

LEMMA InvIsSound == NarrowingInv => NarrowingSound
  <1> SUFFICES ASSUME NarrowingInv, scopes # << >> PROVE NarrowingSound
    BY DEF NarrowingSound
  <1>1. PICK s, v, accepted : s = scopes /\ v = valueOfX /\ accepted = unmatched
    OBVIOUS
  <1>2. ScopesOK(s) /\ Held(v, accepted, s) /\ s # << >>
    BY <1>1 DEF NarrowingInv
  <1>3. PICK n, stmt : n = Len(s) /\ stmt = Head(s[n].rest)
    OBVIOUS
  <1>4. s \in Seq(AllScopes) /\ n \in 1 .. Len(s) /\ Len(s) \in Nat /\ Len(s) # 0
    BY <1>2, <1>3 DEF ScopesOK
  <1>5. Innermost = s[n]
    BY <1>1, <1>3 DEF Innermost, Last
  <1>6. v \in Instances[s[n].cast] /\ (accepted \/ v \in Instances[s[n].narrowed])
    BY <1>2, <1>3, <1>4, InnermostHeld
  <1>7. ASSUME At("if") \/ At("while"), ~accepted PROVE ReadsHold(Stmt.condition, Innermost.narrowed)
    <2>1. s[n].rest # << >> /\ stmt.do \in {"if", "while"} /\ Stmt = stmt
      BY <1>1, <1>3, <1>5, <1>7 DEF At, Stmt
    <2>2. s[n] \in AllScopes /\ StmtsOf(StmtsAt(s, n)) /\ stmt \in StmtsAt(s, n)
      BY <1>2, <1>3, <1>4, <2>1, AtStmt
    <2>3. stmt \in AllStatements
      BY <2>2 DEF StmtsOf, AllStatements
    <2>4. PICK c, T : c = stmt.condition /\ T = s[n].narrowed
      OBVIOUS
    <2>5. c \in Conditions /\ T \in DOMAIN Instances /\ v \in Instances[T]
      BY <1>6, <1>7, <2>1, <2>2, <2>3, <2>4, ConditionOf DEF AllScopes
    <2>6. Readable(v, c)
      BY <2>5, AlwaysReadable
    <2>7. T \in ReadsHoldOf(v)[c]
      BY <2>5, <2>6 DEF Readable
    <2> QED
      BY <1>1, <1>5, <2>1, <2>4, <2>7, Zenon DEF ReadsHold
  <1> QED
    BY <1>1, <1>5, <1>6, <1>7, Zenon DEF NarrowingSound

\* syntax.md:4092, typecheck.rs:10202 and lower.rs:6157: wherever execution
\* gets, the value of x has the type the lowering casts it to there, and, when
\* no match accepted as exhaustive took none of its cases, the type the checker
\* gives it, also wherever a condition reads it behind a test.
THEOREM NarrowingIsSound == NarrowingSpec => []NarrowingSound
  <1>1. NarrowingInv => NarrowingSound
    BY InvIsSound
  <1> QED
    BY <1>1, NarrowingInvariant, PTL

=============================================================================
