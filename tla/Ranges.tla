------------------------------- MODULE Ranges -------------------------------
(***************************************************************************)
(* A `for` over Range(start, end, step), in the two runtimes side by side: *)
(* the interpreter's range iterator                                        *)
(* (rust/crates/lume/src/interpreter.rs, IteratorState::Range) and the     *)
(* iterator of lume/core/src/main/java/lume/core/IntRange.java.  Both must *)
(* stop at the limits of Int, where the next value cannot be computed.     *)
(***************************************************************************)
EXTENDS Ints

CONSTANT RangeInputs   \* the ranges constructed: [start, end, step]

ASSUME RangeAssumption ==
  RangeInputs \subseteq [start : Int64, end : Int64, step : Int64]

VARIABLES
  range,      \* the range the loop runs over
  phase,      \* "idle", "made", "iterating" or "panic"
  current,    \* the interpreter: IteratorState::Range.current
  javaCurrent, exhausted,   \* the fields of the Java iterator
  taken       \* how many values the loop has received

rangeVars == <<range, phase, current, javaCurrent, exhausted, taken>>

RangesIdle ==
  /\ range = [start |-> 0, end |-> 0, step |-> 0] /\ phase = "idle"
  /\ current = 0 /\ javaCurrent = 0 /\ exhausted = FALSE /\ taken = 0

RangesInit ==
  /\ range \in RangeInputs /\ phase = "made"
  /\ current = range.start /\ javaCurrent = range.start
  /\ exhausted = FALSE /\ taken = 0

(* A zero step panics before the first value: the interpreter refuses it when
   the range is made (construct_builtin, range_iterator), Java in the
   constructor. *)
OpenIterator ==
  /\ phase = "made"
  /\ phase' = IF range.step = 0 THEN "panic" ELSE "iterating"
  /\ UNCHANGED <<range, current, javaCurrent, exhausted, taken>>

\* Mutant: the sign of the step is not looked at.
BeforeUpward(n) == n < range.end

Before(n) == IF range.step >= 0 THEN n < range.end ELSE n > range.end

RangeHasNext == Before(current)

JavaHasNext == ~exhausted /\ Before(javaCurrent)

Steps(n) == CheckedAdd(n, range.step)

(* The interpreter jumps to the end, the Java iterator remembers that it is
   exhausted. *)
InterpreterStep == current' = IF Steps(current) = << >> THEN range.end ELSE Head(Steps(current))

\* Mutant: the Java iterator does not remember that it could not step.
JavaStepForgetting ==
  /\ javaCurrent' = IF Steps(javaCurrent) = << >> THEN javaCurrent ELSE Head(Steps(javaCurrent))
  /\ UNCHANGED exhausted

JavaStep ==
  /\ javaCurrent' = IF Steps(javaCurrent) = << >> THEN javaCurrent ELSE Head(Steps(javaCurrent))
  /\ exhausted' = (exhausted \/ Steps(javaCurrent) = << >>)

(* One round of the loop: each runtime that has a next value takes it. *)
RangeStep ==
  /\ phase = "iterating"
  /\ RangeHasNext \/ JavaHasNext
  /\ IF RangeHasNext THEN InterpreterStep ELSE UNCHANGED current
  /\ IF JavaHasNext THEN JavaStep ELSE UNCHANGED <<javaCurrent, exhausted>>
  /\ taken' = taken + 1
  /\ UNCHANGED <<range, phase>>

RangesNext == OpenIterator \/ RangeStep

RangesSpec == RangesInit /\ [][RangesNext]_rangeVars

----------------------------------------------------------------------------

RangesTypeOK ==
  /\ range \in [start : Int64, end : Int64, step : Int64]
  /\ phase \in {"idle", "made", "iterating", "panic"}
  /\ phase = "iterating" => range.step # 0
  /\ current \in Int64 /\ javaCurrent \in Int64
  /\ exhausted \in BOOLEAN
  /\ taken \in Nat

(* int_overflow.md: at the limits of Int the two runtimes still agree on
   whether there is a next value, and on the value. *)
RuntimesAgreeOnRanges ==
  /\ RangeHasNext <=> JavaHasNext
  /\ RangeHasNext => current = javaCurrent

(* syntax.md:4733 the values are start, start + step, ... up to the end,
   which is excluded, in both runtimes: what the loop takes next is the value
   its count says, and it is on the near side of the end. *)
RangeYieldsProgression ==
  /\ RuntimesAgreeOnRanges
  /\ phase = "iterating" /\ RangeHasNext =>
       /\ current = range.start + taken * range.step
       /\ Before(current)

(* int_overflow.md: stepping past the largest or smallest Int ends the range.
   Every round brings both iterators strictly closer to the end, or to it:
   no loop over a range runs for ever. *)
Closer(n, m) == IF range.step >= 0 THEN n < m ELSE n > m

RangeAdvances ==
  [][taken' # taken =>
       /\ Closer(current, current')
       /\ Closer(javaCurrent, javaCurrent') \/ exhausted']_rangeVars
=============================================================================
