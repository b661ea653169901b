------------------------------ MODULE Narrowing ------------------------------
(***************************************************************************)
(* Flow narrowing of an immutable variable x by type tests, as the type    *)
(* checker does it (rust/crates/lume/src/typecheck.rs) and as the lowering *)
(* does it once more with casts (lower.rs), along an execution of the       *)
(* statements around the tests.                                            *)
(*                                                                         *)
(* A condition is [op |-> "is", type], "not" of one, "and" or "or" of two,  *)
(* "reads", a use of x, or "opaque".  A statement is "reads", "return",     *)
(* "break", "continue", [do |-> "if", condition, then, else],               *)
(* [do |-> "while", condition, body] or [do |-> "match", bodies, complete],  *)
(* whose cases the checker took for exhaustive, rightly when it is complete. *)
(* Both have a depth, which is more than the depth of what they consist of. *)
(* Let clauses, if expressions and variables captured by lambdas are left   *)
(* out.                                                                    *)
(***************************************************************************)
EXTENDS Naturals, Sequences, SequencesExt

CONSTANTS
  Conditions,       \* conditions and all that they consist of
  Statements,       \* the statements of Bodies, those of nested blocks included,
  LoopStatements,   \* and those of the bodies of loops
  Bodies,           \* the bodies of functions, sequences of statements
  Instances,        \* type -> the values it has
  Declared          \* the type x is declared with

Operands(c) ==
  CASE c.op = "not" -> {c.of}
    [] c.op \in {"and", "or"} -> {c.left, c.right}
    [] OTHER -> {}

ASSUME ConditionAssumption ==
  \A c \in Conditions :
    /\ c.depth \in Nat
    /\ c.op = "is" => c.type \in DOMAIN Instances
    /\ \A d \in Operands(c) : d \in Conditions /\ d.depth < c.depth

(* The blocks nested in a statement, but the body of a loop. *)
Blocks(stmt) ==
  CASE stmt.do = "if" -> {stmt.then, stmt.else}
    [] stmt.do = "match" -> Range(stmt.bodies)
    [] OTHER -> {}

AllStatements == Statements \cup LoopStatements

(* break and continue only stand in loops. *)
ASSUME StatementAssumption ==
  /\ Declared \in DOMAIN Instances
  /\ Bodies \subseteq Seq(Statements)
  /\ \A stmt \in Statements : stmt.do \notin {"break", "continue"}
  /\ \A stmts \in {Statements, LoopStatements} : \A stmt \in stmts :
       /\ stmt.depth \in Nat
       /\ stmt.do \in {"if", "while"} => stmt.condition \in Conditions
       /\ stmt.do = "while" => stmt.body \in Seq(LoopStatements)
       /\ \A block \in Blocks(stmt) :
            block \in Seq(stmts) /\ \A i \in DOMAIN block : block[i].depth < stmt.depth

VARIABLES
  valueOfX,     \* the value of x
  scopes,       \* the blocks under way, the innermost last
  unmatched     \* a match has taken none of its cases

narrowingVars == <<valueOfX, scopes, unmatched>>

(* In a block x has the narrowed type for the checker and the cast one for
   the lowering. *)
Scope(rest, narrowed, cast, isLoop) ==
  [rest |-> rest, narrowed |-> narrowed, cast |-> cast, isLoop |-> isLoop]

Innermost == Last(scopes)

----------------------------------------------------------------------------
(* Which branches leave *)

ControlExits ==
  LET exits[stmt \in AllStatements] ==
        LET guaranteed(block) == \E i \in DOMAIN block : exits[block[i]] IN
        CASE stmt.do \in {"return", "break", "continue"} -> TRUE
          [] stmt.do = "if" -> guaranteed(stmt.then) /\ guaranteed(stmt.else)
          [] stmt.do = "match" -> \A k \in DOMAIN stmt.bodies : guaranteed(stmt.bodies[k])
          [] OTHER -> FALSE
  IN exits

GuaranteesControlExit(block) == \E i \in DOMAIN block : ControlExits[block[i]]

(* The lowering has no current block after these; a match always has one. *)
Endings ==
  LET ends[stmt \in AllStatements] ==
        LET leaves(block) == \E i \in DOMAIN block : ends[block[i]] IN
        CASE stmt.do \in {"return", "break", "continue"} -> TRUE
          [] stmt.do = "if" -> leaves(stmt.then) /\ leaves(stmt.else)
          [] OTHER -> FALSE
  IN ends

LeavesNoBlock(block) == \E i \in DOMAIN block : Endings[block[i]]

----------------------------------------------------------------------------
(* What a condition says of x when it holds, or does not *)

Questions == Conditions \X BOOLEAN   \* a condition and what it is taken to yield

\* Mutant: an operand of && is taken to be true whatever && yields.
NarrowedByEither(condition, outcome) ==
  LET narrowings[q \in Questions] ==
        LET c == q[1] isTrue == q[2] IN
        IF c.op = "is" THEN IF isTrue THEN <<c.type>> ELSE << >>
        ELSE IF c.op = "not" THEN narrowings[<<c.of, ~isTrue>>]
        ELSE IF c.op \in {"and", "or"}
        THEN narrowings[<<c.left, isTrue>>] \o narrowings[<<c.right, isTrue>>]
        ELSE << >>
  IN narrowings[<<condition, outcome>>]

(* The types, of which the last defined hides the others. *)
TypeNarrowings ==
  LET narrowings[q \in Questions] ==
        LET c == q[1] isTrue == q[2] IN
        IF c.op = "is" THEN IF isTrue THEN <<c.type>> ELSE << >>
        ELSE IF c.op = "not" THEN narrowings[<<c.of, ~isTrue>>]
        ELSE IF <<c.op, isTrue>> \in {<<"and", TRUE>>, <<"or", FALSE>>}
        THEN narrowings[<<c.left, isTrue>>] \o narrowings[<<c.right, isTrue>>]
        ELSE << >>
  IN narrowings

TypeNarrowingsForCondition(c, isTrue) == TypeNarrowings[<<c, isTrue>>]

(* The lowering looks through ! only. *)
LoweredNarrowings ==
  LET narrowings[q \in Questions] ==
        LET c == q[1] isTrue == q[2] IN
        IF c.op = "is" THEN IF isTrue THEN <<c.type>> ELSE << >>
        ELSE IF c.op = "not" THEN narrowings[<<c.of, ~isTrue>>]
        ELSE << >>
  IN narrowings

TypeNarrowingForCondition(c, isTrue) == LoweredNarrowings[<<c, isTrue>>]

Narrow(type, narrowings) == IF narrowings = << >> THEN type ELSE Last(narrowings)
Narrowed(type, c, isTrue) == Narrow(type, TypeNarrowingsForCondition(c, isTrue))
Cast(type, c, isTrue) == Narrow(type, TypeNarrowingForCondition(c, isTrue))

(* The block after an if: when one branch leaves, what the other one knows
   goes on to hold. *)
AfterIf(scope, stmt) ==
  LET exits == GuaranteesControlExit(stmt.then)
      elseExits == GuaranteesControlExit(stmt.else)
      left == LeavesNoBlock(stmt.then)
      elseLeft == LeavesNoBlock(stmt.else)
  IN [scope EXCEPT
        !.rest = Tail(@),
        !.narrowed = IF exits = elseExits THEN @ ELSE Narrowed(@, stmt.condition, elseExits),
        !.cast = IF left = elseLeft THEN @ ELSE Cast(@, stmt.condition, elseLeft)]

----------------------------------------------------------------------------
(* The statements *)

(* The values a condition can have when x is v, right operands only evaluated
   when the left ones ask for them. *)
OutcomesOf(v) ==
  LET outcomes[c \in Conditions] ==
        LET after(b) == IF (c.op = "and") = b THEN outcomes[c.right] ELSE {b} IN
        IF c.op = "is" THEN {(v \in Instances[c.type])}
        ELSE IF c.op = "not" THEN {~b : b \in outcomes[c.of]}
        ELSE IF c.op \in {"and", "or"} THEN UNION {after(b) : b \in outcomes[c.left]}
        ELSE BOOLEAN
  IN outcomes

Outcomes(c) == OutcomesOf(valueOfX)[c]

At(what) ==
  /\ scopes # << >>
  /\ Innermost.rest # << >> /\ Head(Innermost.rest).do = what

Stmt == Head(Innermost.rest)
Passed == [Innermost EXCEPT !.rest = Tail(@)]
Around(scope) == Append(Front(scopes), scope)

Reads ==
  /\ At("reads")
  /\ scopes' = Around(Passed)
  /\ UNCHANGED <<valueOfX, unmatched>>

If ==
  /\ At("if")
  /\ \E b \in Outcomes(Stmt.condition) :
       scopes' = Append(Around(AfterIf(Innermost, Stmt)),
                        Scope(IF b THEN Stmt.then ELSE Stmt.else,
                              Narrowed(Innermost.narrowed, Stmt.condition, b),
                              Cast(Innermost.cast, Stmt.condition, b), FALSE))
  /\ UNCHANGED <<valueOfX, unmatched>>

While ==
  /\ At("while")
  /\ \E b \in Outcomes(Stmt.condition) :
       scopes' = IF b THEN Append(scopes, Scope(Stmt.body,
                                    Narrowed(Innermost.narrowed, Stmt.condition, TRUE),
                                    Cast(Innermost.cast, Stmt.condition, TRUE), TRUE))
                 ELSE Around(Passed)
  /\ UNCHANGED <<valueOfX, unmatched>>

Match ==
  /\ At("match")
  /\ \/ /\ \E k \in DOMAIN Stmt.bodies :
             scopes' = Append(Around(Passed),
                              Scope(Stmt.bodies[k], Innermost.narrowed, Innermost.cast, FALSE))
        /\ UNCHANGED unmatched
     \/ ~Stmt.complete /\ scopes' = Around(Passed) /\ unmatched' = TRUE
  /\ UNCHANGED valueOfX

EndOfBlock ==
  /\ scopes # << >> /\ Innermost.rest = << >>
  /\ scopes' = Front(scopes)
  /\ UNCHANGED <<valueOfX, unmatched>>

(* The blocks around the innermost loop's body, the last of them at the loop. *)
AroundLoop ==
  SubSeq(scopes, 1, CHOOSE n \in 1 .. Len(scopes) - 1 :
                      scopes[n + 1].isLoop /\ \A m \in n + 2 .. Len(scopes) : ~scopes[m].isLoop)

Break ==
  /\ At("break")
  /\ scopes' = [AroundLoop EXCEPT ![Len(AroundLoop)].rest = Tail(@)]
  /\ UNCHANGED <<valueOfX, unmatched>>

Continue ==
  /\ At("continue")
  /\ scopes' = AroundLoop
  /\ UNCHANGED <<valueOfX, unmatched>>

LeaveFunction ==
  /\ At("return")
  /\ scopes' = << >>
  /\ UNCHANGED <<valueOfX, unmatched>>

----------------------------------------------------------------------------

NarrowingIdle == valueOfX = "none" /\ scopes = << >> /\ unmatched = FALSE

NarrowingInit ==
  /\ valueOfX \in Instances[Declared]
  /\ \E body \in Bodies : scopes = <<Scope(body, Declared, Declared, FALSE)>>
  /\ unmatched = FALSE

NarrowingNext ==
  Reads \/ If \/ While \/ Match \/ EndOfBlock \/ Break \/ Continue \/ LeaveFunction

NarrowingSpec == NarrowingInit /\ [][NarrowingNext]_narrowingVars

----------------------------------------------------------------------------

NarrowingTypeOK ==
  /\ valueOfX \in Instances[Declared] \cup {"none"}
  /\ unmatched \in BOOLEAN
  /\ \A n \in DOMAIN scopes :
       {scopes[n].narrowed, scopes[n].cast} \subseteq DOMAIN Instances /\ scopes[n].isLoop \in BOOLEAN

(* When x is v and the checker gives it the type T in front of c, v has the
   type that x is given wherever evaluating c reads x: for which T this holds. *)
ReadsHoldOf(v) ==
  LET holds[c \in Conditions] ==
        LET onTheRight(T) == Narrowed(T, c.left, c.op = "and") IN
        IF c.op = "reads" THEN {T \in DOMAIN Instances : v \in Instances[T]}
        ELSE IF c.op = "not" THEN holds[c.of]
        ELSE IF c.op \in {"and", "or"}
        THEN {T \in holds[c.left] :
                (c.op = "and") \in OutcomesOf(v)[c.left] => onTheRight(T) \in holds[c.right]}
        ELSE DOMAIN Instances
  IN holds

ReadsHold(c, type) == type \in ReadsHoldOf(valueOfX)[c]

(* syntax.md:4092 a variable tested is narrowed in the branch where the test
   succeeded and after a branch that exits: wherever execution gets, the value
   of x has the type the checker gives x there, unless a match was accepted
   that took no case, and the type the lowering cast it to even then. *)
NarrowingSound ==
  scopes # << >> =>
    /\ valueOfX \in Instances[Innermost.cast]
    /\ unmatched \/ valueOfX \in Instances[Innermost.narrowed]
    /\ At("if") \/ At("while") => unmatched \/ ReadsHold(Stmt.condition, Innermost.narrowed)
=============================================================================
