-------------------------------- MODULE Ints --------------------------------
(***************************************************************************)
(* Int arithmetic of both runtimes: the interpreter                        *)
(* (rust/crates/lume/src/interpreter.rs, numeric.rs) and the Java library  *)
(* (lume/core/.../LumeRuntime.java).  Int is 64 bits wide; the width is a  *)
(* constant here.  A checked operation returns << >> when the mathematical *)
(* result does not fit and <<result>> when it does.                        *)
(***************************************************************************)
EXTENDS Integers, Sequences

CONSTANT IntMax

ASSUME WidthAssumption == IntMax \in Nat \ {0}

(* Two's complement: one more negative value than positive ones. *)
IntMin == -IntMax - 1

Int64 == IntMin..IntMax

Fits(n) == n \in Int64

Checked(n) == IF Fits(n) THEN <<n>> ELSE << >>

Abs(n) == IF n < 0 THEN -n ELSE n

Sign(n) == IF n < 0 THEN -1 ELSE IF n = 0 THEN 0 ELSE 1

(* Division truncates toward zero, for big integers as for machine ones. *)
Quot(a, b) == IF (a < 0 <=> b < 0) THEN Abs(a) \div Abs(b) ELSE -(Abs(a) \div Abs(b))

Rem(a, b) == IF a < 0 THEN -(Abs(a) % Abs(b)) ELSE a % Abs(b)

CheckedAdd(a, b) == Checked(a + b)

CheckedMul(a, b) == Checked(a * b)

(* Both panic on zero; the one quotient that does not fit panics too, while
   its remainder is zero. *)

CheckedDiv(a, b) == IF b = 0 THEN << >> ELSE Checked(Quot(a, b))
CheckedRem(a, b) == IF b = 0 THEN << >> ELSE Checked(Rem(a, b))
=============================================================================
