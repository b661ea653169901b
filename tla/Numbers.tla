------------------------------ MODULE Numbers -------------------------------
(***************************************************************************)
(* Int powers and Decimal arithmetic, which the interpreter                *)
(* (rust/crates/lume/src/numeric.rs, decimal.rs) and the Java library      *)
(* (lume/core/.../LumeRuntime.java, LumeDecimal.java) compute in the same  *)
(* steps.  A Decimal is a coefficient without bound and a scale of 32 bits *)
(* (ScaleMax here); a power of ten beyond MaxAlignment is refused.         *)
(***************************************************************************)
EXTENDS Ints, FiniteSetsExt

CONSTANTS
  MaxAlignment,   \* decimal.rs MAX_ALIGNMENT
  ScaleMax,       \* the largest scale
  IntDigits,      \* decimal digits of IntMax
  PowInputs,      \* values and exponents: <<value, exponent>>
  IntPairs,       \* dividends and divisors: <<dividend, divisor>>
  Decimals,       \* left operands
  Operands,       \* right operands
  Scales          \* scales asked of `divide`

ASSUME AlignmentAssumption == MaxAlignment \in Nat /\ ScaleMax \in Nat

(* v multiplied n times, n \in Nat: 0.pow(0) is 1. *)
PowerOf(v, n) ==
  LET power[k \in Nat] == IF k = 0 THEN 1 ELSE v * power[k - 1] IN power[n]

TenTo(k) == PowerOf(10, k)

(* Numbers of more digits than IntDigits do not fit, and the limit of powers
   lies beyond. *)
ASSUME DigitsAssumption ==
  /\ IntDigits \in 0..MaxAlignment
  /\ TenTo(IntDigits) > IntMax + 1

ASSUME OperandAssumption ==
  /\ PowInputs \subseteq Int64 \X Int64 /\ IntPairs \subseteq Int64 \X Int64 /\ Scales \subseteq Int
  /\ \A a \in Decimals \cup Operands : a.coefficient \in Int /\ a.scale \in Int

VARIABLES
  task,     \* the computation under way
  loop,     \* the locals of checked_int_pow
  answer    \* << >> until the computation ends, then its result or its panic

numberVars == <<task, loop, answer>>

Panic(why) == [kind |-> "panic", why |-> why]
AnInt(n) == [kind |-> "int", value |-> n]
None == [kind |-> "none"]
Decimal(c, s) == [kind |-> "decimal", coefficient |-> c, scale |-> s]

ScaleFits(s) == s \in (-ScaleMax - 1)..ScaleMax

----------------------------------------------------------------------------
(* Decimal *)

Power(e) == IF e \in 0..MaxAlignment THEN <<TenTo(e)>> ELSE << >>

LimitsExceeded == Panic("decimal arithmetic exceeds implementation resource limits")

(* Both coefficients at the larger of the two scales. *)
Aligned(a, b) ==
  LET scale == Max({a.scale, b.scale})
      left == Power(scale - a.scale)
      right == Power(scale - b.scale)
  IN IF left = << >> \/ right = << >> THEN << >>
     ELSE <<[left |-> a.coefficient * Head(left), right |-> b.coefficient * Head(right), scale |-> scale]>>

Add(a, b) ==
  IF Aligned(a, b) = << >> THEN LimitsExceeded
  ELSE LET al == Head(Aligned(a, b)) IN Decimal(al.left + al.right, al.scale)

Remainder(a, b) ==
  IF b.coefficient = 0 THEN Panic("decimal remainder by zero")
  ELSE IF Aligned(a, b) = << >> THEN LimitsExceeded
  ELSE LET al == Head(Aligned(a, b)) IN Decimal(Rem(al.left, al.right), al.scale)

Mul(a, b) ==
  IF ScaleFits(a.scale + b.scale)
  THEN Decimal(a.coefficient * b.coefficient, a.scale + b.scale)
  ELSE Panic("decimal scale out of range")

Gcd(m, n) ==
  IF m = 0 THEN Abs(n) ELSE Max({d \in 1..Abs(m) : m % d = 0 /\ n % d = 0})

(* How often p divides a positive number. *)
Multiplicity(p, n) == CHOOSE k \in 0..n : n % PowerOf(p, k) = 0 /\ n % PowerOf(p, k + 1) # 0

(* The exact quotient, when it has finitely many digits: the denominator in
   lowest terms is a product of twos and fives, and the larger count is the
   number of digits added to the preferred scale. *)

ExtraDigits(denominator) == Max({Multiplicity(2, denominator), Multiplicity(5, denominator)})

Div(a, b) ==
  IF b.coefficient = 0 THEN Panic("decimal division by zero")
  ELSE
    LET common == Gcd(a.coefficient, b.coefficient)
        denominator == Abs(b.coefficient) \div common
        numerator == Sign(b.coefficient) * Quot(a.coefficient, common)
        twos == Multiplicity(2, denominator)
        fives == Multiplicity(5, denominator)
        digits == ExtraDigits(denominator)
        scale == a.scale - b.scale + digits
    IN IF denominator # PowerOf(2, twos) * PowerOf(5, fives) THEN Panic("non-terminating decimal division")
       ELSE IF digits > MaxAlignment THEN LimitsExceeded
       ELSE IF ~ScaleFits(scale) THEN Panic("decimal scale out of range")
       ELSE Decimal((numerator * TenTo(digits)) \div denominator, scale)

(* The quotient of two integers, rounded: << >> when Unnecessary turns out
   to be necessary. *)
Increments(n, d, rounding) ==
  LET twice == 2 * Abs(Rem(n, d))
      positive == (n < 0 <=> d < 0)
  IN CASE rounding = "Up" -> TRUE
       [] rounding = "Down" -> FALSE
       [] rounding = "Ceiling" -> positive
       [] rounding = "Floor" -> ~positive
       [] rounding = "HalfUp" -> twice >= Abs(d)
       [] rounding = "HalfDown" -> twice > Abs(d)
       [] rounding = "HalfEven" -> twice > Abs(d) \/ (twice = Abs(d) /\ Abs(Quot(n, d)) % 2 = 1)

RoundedQuot(n, d, rounding) ==
  IF Rem(n, d) = 0 THEN <<Quot(n, d)>>
  ELSE IF rounding = "Unnecessary" THEN << >>
  ELSE IF ~Increments(n, d, rounding) THEN <<Quot(n, d)>>
  ELSE IF (n < 0 <=> d < 0) THEN <<Quot(n, d) + 1>> ELSE <<Quot(n, d) - 1>>

Divide(a, b, scale, rounding) ==
  LET exponent == scale + b.scale - a.scale
      shift == Power(Abs(exponent))
      n == IF exponent >= 0 THEN a.coefficient * Head(shift) ELSE a.coefficient
      d == IF exponent >= 0 THEN b.coefficient ELSE b.coefficient * Head(shift)
  IN IF b.coefficient = 0 THEN Panic("decimal division by zero")
     ELSE IF ~ScaleFits(scale) THEN Panic("decimal scale out of range")
     ELSE IF shift = << >> THEN LimitsExceeded
     ELSE IF RoundedQuot(n, d, rounding) = << >> THEN Panic("decimal rounding necessary")
     ELSE Decimal(Head(RoundedQuot(n, d, rounding)), scale)

DigitCount(n) == CHOOSE k \in 1..Abs(n) + 1 : Abs(n) < TenTo(k) /\ (k > 1 => Abs(n) >= TenTo(k - 1))

ToInt(a) ==
  LET digits == DigitCount(a.coefficient)
      whole == IF a.scale > 0 THEN Quot(a.coefficient, TenTo(a.scale))
                              ELSE a.coefficient * TenTo(-a.scale)
  IN IF a.coefficient = 0 THEN AnInt(0)
     ELSE IF a.scale > 0 /\ (a.scale >= digits \/ Power(a.scale) = << >>) THEN None
     ELSE IF a.scale > 0 /\ Rem(a.coefficient, TenTo(a.scale)) # 0 THEN None
     ELSE IF a.scale <= 0 /\ (digits - a.scale > IntDigits \/ Power(-a.scale) = << >>) THEN None
     ELSE IF Fits(whole) THEN AnInt(whole) ELSE None

(* The order compares the position of the first digit, then the digits,
   padded with zeros: never the numbers at a common scale. *)
Compare(a, b) ==
  LET sa == Sign(a.coefficient)
      sb == Sign(b.coefficient)
      la == DigitCount(a.coefficient)
      lb == DigitCount(b.coefficient)
      width == Max({la, lb})
      digits == Sign(Abs(a.coefficient) * TenTo(width - la) - Abs(b.coefficient) * TenTo(width - lb))
      exponent == Sign((la - a.scale) - (lb - b.scale))
      order == IF exponent # 0 THEN exponent ELSE digits
  IN IF sa # sb THEN Sign(sa - sb) ELSE IF sa = 0 THEN 0 ELSE sa * order

(* The key that is hashed: trailing zeros stripped, zero always the same. *)
TrailingZeros(n) == Multiplicity(10, n)

CanonicalKey(a) ==
  IF a.coefficient = 0 THEN <<0, 0>>
  ELSE LET k == TrailingZeros(Abs(a.coefficient)) IN
       <<Quot(a.coefficient, TenTo(k)), a.scale - k>>

----------------------------------------------------------------------------
(* The computations: the loop of checked_int_pow takes a step per round,    *)
(* everything else one step.                                                *)

NoTask == [op |-> "none"]

Start(t) ==
  IF t.op = "pow" THEN [result |-> 1, factor |-> t.value, remaining |-> t.exponent]
                  ELSE [result |-> 0, factor |-> 0, remaining |-> 0]

NumbersIdle == task = NoTask /\ loop = Start(NoTask) /\ answer = << >>

Roundings == {"Up", "Down", "Ceiling", "Floor", "HalfUp", "HalfDown", "HalfEven", "Unnecessary"}

NumbersInit ==
  /\ \/ \E p \in PowInputs : task = [op |-> "pow", value |-> p[1], exponent |-> p[2]]
     \/ \E p \in IntPairs, o \in {"intDiv", "intRem"} : task = [op |-> o, left |-> p[1], right |-> p[2]]
     \/ \E a \in Decimals :
          \/ task = [op |-> "toInt", left |-> a]
          \/ \E b \in Decimals : task = [op |-> "compare", left |-> a, right |-> b]
          \/ \E b \in Operands :
               \/ \E o \in {"add", "rem", "mul", "div"} : task = [op |-> o, left |-> a, right |-> b]
               \/ \E s \in Scales, r \in Roundings :
                    task = [op |-> "divide", left |-> a, right |-> b, scale |-> s, rounding |-> r]
  /\ loop = Start(task) /\ answer = << >>

Computing(op) == task.op = op /\ answer = << >>

RefuseExponent ==
  /\ Computing("pow") /\ loop.remaining < 0
  /\ answer' = <<None>>
  /\ UNCHANGED <<task, loop>>

(* The last squaring is skipped: its overflow would not be the result's. *)
\* Mutant: the factor is squared once more at the end.
SquareAlways(remaining) == TRUE

Square(remaining) == remaining # 0

PowStep ==
  /\ Computing("pow") /\ loop.remaining > 0
  /\ LET product == IF loop.remaining % 2 = 1 THEN CheckedMul(loop.result, loop.factor) ELSE <<loop.result>>
         remaining == loop.remaining \div 2
         squared == IF Square(remaining) THEN CheckedMul(loop.factor, loop.factor) ELSE <<loop.factor>>
     IN IF product = << >> \/ squared = << >>
        THEN answer' = <<None>> /\ UNCHANGED loop
        ELSE /\ loop' = [result |-> Head(product), factor |-> Head(squared), remaining |-> remaining]
             /\ UNCHANGED answer
  /\ UNCHANGED task

PowDone ==
  /\ Computing("pow") /\ loop.remaining = 0
  /\ answer' = <<AnInt(loop.result)>>
  /\ UNCHANGED <<task, loop>>

(* Int division and remainder. *)
ComputeInt ==
  /\ task.op \in {"intDiv", "intRem"} /\ answer = << >>
  /\ LET checked == IF task.op = "intDiv" THEN CheckedDiv(task.left, task.right)
                                         ELSE CheckedRem(task.left, task.right)
     IN answer' = <<IF checked = << >> THEN Panic("integer overflow or division by zero")
                                       ELSE AnInt(Head(checked))>>
  /\ UNCHANGED <<task, loop>>

(* A Decimal operation. *)
Compute ==
  /\ task.op \in {"add", "rem", "mul", "div", "divide", "toInt", "compare"} /\ answer = << >>
  /\ answer' = <<CASE task.op = "add" -> Add(task.left, task.right)
                   [] task.op = "rem" -> Remainder(task.left, task.right)
                   [] task.op = "mul" -> Mul(task.left, task.right)
                   [] task.op = "div" -> Div(task.left, task.right)
                   [] task.op = "divide" -> Divide(task.left, task.right, task.scale, task.rounding)
                   [] task.op = "toInt" -> ToInt(task.left)
                   [] task.op = "compare" -> AnInt(Compare(task.left, task.right))>>
  /\ UNCHANGED <<task, loop>>

NumbersNext == RefuseExponent \/ PowStep \/ PowDone \/ ComputeInt \/ Compute

NumbersSpec == NumbersInit /\ [][NumbersNext]_numberVars

----------------------------------------------------------------------------
(* What the numbers mean *)

Answered(op) == task.op = op /\ answer # << >>
Answer == Head(answer)
Panics == Answer.kind = "panic"

(* Decimals are integers at a scale at which both are whole. *)
At(a, scale) == a.coefficient * TenTo(scale - a.scale)
Product(a, b) == Decimal(a.coefficient * b.coefficient, a.scale + b.scale)
ValueOrder(a, b) == LET s == Max({a.scale, b.scale}) IN Sign(At(a, s) - At(b, s))

NumbersTypeOK ==
  /\ task.op \in {"none", "pow", "add", "rem", "mul", "div", "divide", "toInt", "compare", "intDiv", "intRem"}
  /\ loop.factor \in Int64 /\ loop.result \in Int64 /\ loop.remaining \in Int
  /\ Len(answer) <= 1

(* int_overflow.md: pow succeeds exactly when the power fits, although the
   loop multiplies and squares in another order: 2.pow(62) and
   (-2).pow(63) succeed, 3.pow(40) does not. *)
PowIsExact ==
  Answered("pow") =>
    IF task.exponent < 0 THEN Answer = None
    ELSE LET power == PowerOf(task.value, task.exponent) IN
         Answer = IF Fits(power) THEN AnInt(power) ELSE None

(* syntax.md:5613 `/` truncates toward zero and `%` has the sign of the
   dividend: together they rebuild the dividend.  Only a zero divisor and the
   quotient of the smallest Int and -1 panic. *)
IntDivisionTruncates ==
  task.op \in {"intDiv", "intRem"} /\ answer # << >> =>
    LET a == task.left
        b == task.right
        rest == IF task.op = "intRem" THEN Answer.value ELSE a - Answer.value * b
    IN IF Panics THEN b = 0 \/ (task.op = "intDiv" /\ a = IntMin /\ b = -1)
       ELSE /\ b # 0 /\ Fits(Answer.value)
            /\ Abs(rest) < Abs(b) /\ (rest = 0 \/ (rest < 0 <=> a < 0))
            /\ (a - rest) % Abs(b) = 0

(* decimal.rs: a division without explicit scale is exact, or it panics
   because no scale makes it exact, or because a limit is exceeded. *)
DivisionIsExact ==
  Answered("div") /\ task.right.coefficient # 0 =>
    CASE Answer.kind = "decimal" -> ValueOrder(Product(Answer, task.right), task.left) = 0
      [] Answer = Panic("non-terminating decimal division") ->
           \A k \in 0..MaxAlignment + 1 : Rem(task.left.coefficient * TenTo(k), task.right.coefficient) # 0
      [] OTHER -> TRUE

(* The quotient of n and d rounded to q, in the sense of each mode. *)
IsRounded(n, d, rounding, q) ==
  LET a == Abs(n)
      b == Abs(d)
      p == Abs(q)
      positive == (n < 0 <=> d < 0)
      Exact == p * b = a
      Toward == p * b <= a /\ a < (p + 1) * b         \* the nearest one toward zero
      Away == p * b >= a /\ a > (p - 1) * b           \* the nearest one away from zero
      Near == 2 * (p * b - a) <= b /\ 2 * (a - p * b) <= b
      Tie == 2 * (p * b - a) = b \/ 2 * (a - p * b) = b
  IN /\ q # 0 => (positive <=> q > 0)
     /\ CASE rounding = "Down" -> Toward
          [] rounding = "Up" -> Away
          [] rounding = "Floor" -> IF positive THEN Toward ELSE Away
          [] rounding = "Ceiling" -> IF positive THEN Away ELSE Toward
          [] rounding = "HalfUp" -> Near /\ (Tie => Away)
          [] rounding = "HalfDown" -> Near /\ (Tie => Toward)
          [] rounding = "HalfEven" -> Near /\ (Tie => p % 2 = 0)
          [] rounding = "Unnecessary" -> Exact

(* syntax.md:5760 nothing is rounded silently and every rounding is the one
   asked for: the answer at the asked scale is the quotient rounded so. *)
DivideRoundsAsAsked ==
  Answered("divide") /\ Answer.kind = "decimal" =>
    LET shift == task.scale + task.right.scale - task.left.scale
        n == IF shift >= 0 THEN task.left.coefficient * TenTo(shift) ELSE task.left.coefficient
        d == IF shift >= 0 THEN task.right.coefficient ELSE task.right.coefficient * TenTo(-shift)
    IN IsRounded(n, d, task.rounding, Answer.coefficient) /\ Answer.scale = task.scale

(* Equality is numeric and hashing uses the canonical key: two Decimals are
   equal exactly when they have the same value, exactly when their keys are
   the same, and the order is the order of the values. *)
KeysFollowEquality ==
  Answered("compare") =>
    /\ Answer.value = ValueOrder(task.left, task.right)
    /\ Answer.value = 0 <=> CanonicalKey(task.left) = CanonicalKey(task.right)

(* toInt yields the value when it is an integer that fits, and None in every
   other case.  Beyond MAX_ALIGNMENT places decimal.rs answers None without a
   look at the digits. *)
ToIntIsExact ==
  Answered("toInt") /\ task.left.scale <= MaxAlignment =>
    LET a == task.left
        whole == a.scale <= 0 \/ Rem(a.coefficient, TenTo(a.scale)) = 0
        value == IF a.scale > 0 THEN Quot(a.coefficient, TenTo(a.scale)) ELSE At(a, 0)
    IN Answer = IF whole /\ Fits(value) THEN AnInt(value) ELSE None

(* A sum and a remainder have the value of the exact ones, whatever the
   scales: the remainder is smaller than the divisor and leaves a multiple. *)
SumsAreExact ==
  /\ Answered("add") /\ ~Panics =>
       At(Answer, Answer.scale) = At(task.left, Answer.scale) + At(task.right, Answer.scale)
  /\ Answered("rem") /\ ~Panics =>
       LET n == At(task.left, Answer.scale)
           d == At(task.right, Answer.scale)
       IN /\ Rem(n - Answer.coefficient, d) = 0
          /\ Abs(Answer.coefficient) < Abs(d)
          /\ Answer.coefficient * n >= 0

(* The Int operations whose result a test can reach only at the limits: powers
   by squaring, truncating division and the remainder that goes with it. *)
IntegersAreExact == PowIsExact /\ IntDivisionTruncates

(* No Decimal operation loses anything silently: sums, remainders, quotients
   and conversions have the exact value, or are refused, or are rounded the
   way that was asked for. *)
DecimalsAreExact == DivisionIsExact /\ DivideRoundsAsAsked /\ ToIntIsExact /\ SumsAreExact

(* What the numbers promise together: every answer is the exact one, or a
   refusal, or the rounding asked for, and equal numbers are one key. *)
NumbersAreExact == IntegersAreExact /\ DecimalsAreExact /\ KeysFollowEquality
=============================================================================
