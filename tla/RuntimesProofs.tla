--------------------------- MODULE RuntimesProofs ---------------------------
(***************************************************************************)
(* Where the interpreter and the Java runtime do the same work in different *)
(* ways: ranges at the limits of Int, for every width of Int and every     *)
(* range, the readers of a file, for every file and every failure; and the *)
(* numbers they compute in the same steps, for all operands.               *)
(***************************************************************************)
EXTENDS Ranges, Files, Numbers, SequenceTheorems, WellFoundedInduction, TLAPS

----------------------------------------------------------------------------
(* Ranges *)

(* The inductive invariant: an iterator that could step is where the count
   says; one that could not is at the end (the interpreter) or exhausted
   (Java). *)
InStep ==
  IF exhausted THEN current = range.end
  ELSE /\ current = range.start + taken * range.step
       /\ javaCurrent = current

RangesInv == RangesTypeOK /\ InStep

(* One more step adds the step once more to the product. *)
LEMMA OneMoreStep ==
  ASSUME NEW s \in Int, NEW d \in Int, NEW k \in Nat
  PROVE  (s + k * d) + d = s + (k + 1) * d
  BY SMT

(* A checked addition of two Ints is << >> or the Int that is their sum. *)
LEMMA StepsIsChecked ==
  ASSUME NEW n \in Int64, range.step \in Int64, NEW m, m = n + range.step
  PROVE  \/ m \notin Int64 /\ Steps(n) = << >>
         \/ m \in Int64 /\ Steps(n) # << >> /\ Head(Steps(n)) = m
  <1>1. CASE m \in Int64
    <2>1. Steps(n) = <<m>> BY <1>1 DEF Steps, CheckedAdd, Checked, Fits
    <2>2. <<m>> # << >> /\ Head(<<m>>) = m BY SMT
    <2> QED BY <1>1, <2>1, <2>2
  <1>2. CASE m \notin Int64 BY <1>2 DEF Steps, CheckedAdd, Checked, Fits
  <1> QED BY <1>1, <1>2

(* The limits of Int are integers. *)
LEMMA Width == IntMin \in Int /\ IntMax \in Int /\ 0 \in Int64 /\ Int64 \subseteq Int
  BY WidthAssumption DEF IntMin, Int64

LEMMA RangesInitInv == RangesInit => RangesInv
  <1> SUFFICES ASSUME RangesInit PROVE RangesInv OBVIOUS
  <1>1. range \in [start : Int64, end : Int64, step : Int64]
    BY RangeAssumption DEF RangesInit
  <1>2. range.start + 0 * range.step = range.start
    <2>1. range.start \in Int /\ range.step \in Int BY <1>1, Width
    <2>2. \A s, d \in Int : s + 0 * d = s BY SMT
    <2> QED BY <2>1, <2>2
  <1>3. range.start \in Int64 /\ exhausted = FALSE /\ exhausted \in BOOLEAN /\ taken = 0
    BY <1>1 DEF RangesInit
  <1>4. RangesTypeOK BY <1>1, <1>3 DEF RangesInit, RangesTypeOK
  <1>5. InStep BY <1>2, <1>3 DEF RangesInit, InStep
  <1> QED BY <1>4, <1>5 DEF RangesInv

(* Opening the iterator changes nothing but the phase. *)
LEMMA OpenIteratorInv == RangesInv /\ OpenIterator => RangesInv'
  <1> SUFFICES ASSUME RangesInv, OpenIterator PROVE RangesInv' OBVIOUS
  <1>1. phase' \in {"panic", "iterating"} /\ (phase' = "iterating" => range.step # 0)
    BY DEF OpenIterator
  <1>2. RangesTypeOK' BY <1>1 DEF RangesInv, RangesTypeOK, OpenIterator
  <1>3. InStep' BY Zenon DEF RangesInv, InStep, OpenIterator
  <1> QED BY <1>2, <1>3 DEF RangesInv

(* In an iterating loop the two runtimes have a next value together, and it
   is the same one. *)
LEMMA HaveNextTogether ==
  ASSUME RangesInv
  PROVE  /\ RangeHasNext <=> JavaHasNext
         /\ RangeHasNext => ~exhausted /\ current = javaCurrent
  <1>1. range.end \in Int /\ current \in Int BY Width DEF RangesInv, RangesTypeOK
  <1>2. CASE exhausted
    <2>1. current = range.end BY <1>2 DEF RangesInv, RangesTypeOK, InStep
    <2>2. ~Before(current) BY <1>1, <2>1 DEF Before
    <2> QED BY <1>2, <2>2 DEF RangeHasNext, JavaHasNext
  <1>3. CASE ~exhausted
    <2>1. javaCurrent = current BY <1>3 DEF RangesInv, RangesTypeOK, InStep
    <2> QED BY <1>3, <2>1 DEF RangeHasNext, JavaHasNext
  <1> QED BY <1>2, <1>3

(* What one round does: both take the same value and either both step to the
   next value of the progression, or the interpreter is at the end and the
   Java iterator exhausted. *)
LEMMA OneRound ==
  ASSUME RangesInv, RangeStep
  PROVE  /\ RangeHasNext /\ ~exhausted /\ javaCurrent = current
         /\ UNCHANGED <<range, phase>> /\ taken' = taken + 1
         /\ \/ /\ current' = current + range.step /\ current' \in Int64
               /\ javaCurrent' = current' /\ ~exhausted' /\ exhausted' \in BOOLEAN
            \/ current' = range.end /\ exhausted' = TRUE /\ javaCurrent' = javaCurrent
  <1>1. phase = "iterating" BY DEF RangeStep
  <1>2. RangeHasNext /\ JavaHasNext /\ ~exhausted /\ javaCurrent = current
    BY <1>1, HaveNextTogether DEF RangeStep
  <1>3. InterpreterStep /\ JavaStep /\ taken' = taken + 1 /\ UNCHANGED <<range, phase>>
    BY <1>2 DEF RangeStep
  <1>4. range.step \in Int64 /\ current \in Int64 /\ exhausted \in BOOLEAN
    BY DEF RangesInv, RangesTypeOK
  <1>5. PICK m : m = current + range.step OBVIOUS
  <1>6. \/ m \notin Int64 /\ Steps(current) = << >>
        \/ m \in Int64 /\ Steps(current) # << >> /\ Head(Steps(current)) = m
    BY <1>4, <1>5, StepsIsChecked
  <1>7. CASE m \notin Int64 /\ Steps(current) = << >>
    <2>1. current' = range.end BY <1>3, <1>7 DEF InterpreterStep
    <2>2. javaCurrent' = javaCurrent /\ exhausted' = TRUE
      BY <1>2, <1>3, <1>7, Zenon DEF JavaStep
    <2> QED BY <1>2, <1>3, <2>1, <2>2
  <1>8. CASE m \in Int64 /\ Steps(current) # << >> /\ Head(Steps(current)) = m
    <2>1. current' = m BY <1>3, <1>8 DEF InterpreterStep
    <2>2. javaCurrent' = m BY <1>2, <1>3, <1>8 DEF JavaStep
    <2>3. exhausted' = FALSE BY <1>2, <1>3, <1>8, Zenon DEF JavaStep
    <2> QED BY <1>2, <1>3, <1>5, <1>8, <2>1, <2>2, <2>3
  <1> QED BY <1>6, <1>7, <1>8

LEMMA IterNextInv == RangesInv /\ RangeStep => RangesInv'
  <1> SUFFICES ASSUME RangesInv, RangeStep PROVE RangesInv' OBVIOUS
  <1>1. PICK s, d, e, k : s = range.start /\ d = range.step /\ e = range.end /\ k = taken
    OBVIOUS
  <1>2. s \in Int64 /\ d \in Int64 /\ e \in Int64 /\ k \in Nat /\ phase = "iterating" /\ d # 0
    BY <1>1 DEF RangesInv, RangesTypeOK, RangeStep
  <1>3. current = s + k * d
    BY <1>1, OneRound DEF RangesInv, InStep, RangeStep
  <1>4. (s + k * d) + d = s + (k + 1) * d BY <1>2, Width, OneMoreStep
  <1>5. RangesTypeOK'
    <2>1. range' = range /\ phase' = phase /\ taken' = k + 1 BY <1>1, OneRound
    <2>2. current' \in Int64 BY <1>1, <1>2, OneRound
    <2>3. javaCurrent' \in Int64 BY <2>2, OneRound DEF RangesInv, RangesTypeOK
    <2>4. exhausted' \in BOOLEAN BY OneRound, Zenon
    <2> QED BY <1>2, <2>1, <2>2, <2>3, <2>4 DEF RangesInv, RangesTypeOK
  <1>6. range' = range /\ phase' = phase /\ taken' = k + 1 BY <1>1, OneRound
  <1>7. CASE current' = current + range.step /\ javaCurrent' = current' /\ ~exhausted'
    BY <1>1, <1>2, <1>3, <1>4, <1>5, <1>6, <1>7 DEF RangesInv, InStep
  <1>8. CASE current' = range.end /\ exhausted' = TRUE
    BY <1>2, <1>5, <1>6, <1>8 DEF RangesInv, InStep
  <1> QED BY <1>7, <1>8, OneRound

(* Every range, of every width of Int: the invariant holds in every state. *)
THEOREM RangesInvariant == RangesSpec => []RangesInv
  <1>1. RangesInv /\ UNCHANGED rangeVars => RangesInv'
    BY DEF RangesInv, RangesTypeOK, InStep, rangeVars
  <1>2. RangesInv /\ [RangesNext]_rangeVars => RangesInv'
    BY <1>1, OpenIteratorInv, IterNextInv DEF RangesNext
  <1> QED BY <1>2, RangesInitInv, PTL DEF RangesSpec

(* The two runtimes never disagree on a range. *)
THEOREM RangesAgree == RangesSpec => []RuntimesAgreeOnRanges
  <1>1. RangesInv => RuntimesAgreeOnRanges
    BY HaveNextTogether DEF RuntimesAgreeOnRanges
  <1> QED BY <1>1, RangesInvariant, PTL

(* The loop takes start, start + step, ... and nothing at or past the end, in
   both runtimes. *)
THEOREM RangesYieldProgression == RangesSpec => []RangeYieldsProgression
  <1>1. RangesInv => (phase = "iterating" /\ RangeHasNext =>
                        /\ current = range.start + taken * range.step
                        /\ Before(current))
    BY HaveNextTogether DEF RangesInv, InStep, RangeHasNext
  <1>2. RuntimesAgreeOnRanges /\ RangesInv => RangeYieldsProgression
    BY <1>1 DEF RangeYieldsProgression
  <1> QED BY <1>2, RangesInvariant, RangesAgree, PTL

(* Every round brings the loop strictly closer to the end, so that a loop
   over a range, whose values lie between two Ints, ends. *)
THEOREM RangesAdvance == RangesSpec => RangeAdvances
  <1>1. ASSUME RangesInv, RangeStep
        PROVE  Closer(current, current') /\ (Closer(javaCurrent, javaCurrent') \/ exhausted')
    <2>1. range.step \in Int /\ range.step # 0 /\ current \in Int /\ range.end \in Int
      BY <1>1, Width DEF RangesInv, RangesTypeOK, RangeStep
    <2>2. Before(current) BY <1>1, OneRound DEF RangeHasNext
    <2>3. CASE current' = current + range.step /\ javaCurrent' = current'
      BY <1>1, <2>1, <2>3, OneRound DEF Closer
    <2>4. CASE current' = range.end /\ exhausted' = TRUE
      BY <2>1, <2>2, <2>4 DEF Closer, Before
    <2> QED BY <1>1, <2>3, <2>4, OneRound
  <1>2. ASSUME RangesInv, [RangesNext]_rangeVars, taken' # taken
        PROVE  RangeStep
    BY <1>2 DEF RangesNext, OpenIterator, rangeVars
  <1>3. RangesInv /\ [RangesNext]_rangeVars =>
          [taken' # taken => /\ Closer(current, current')
                             /\ Closer(javaCurrent, javaCurrent') \/ exhausted']_rangeVars
    BY <1>1, <1>2
  <1> QED BY <1>3, RangesInvariant, PTL DEF RangesSpec, RangeAdvances

----------------------------------------------------------------------------
(* Files *)

(* The inductive invariant: what FilesReadAlike says of the last call holds
   because the file is where the text readers think it is until a call fails,
   and afterwards never before that, and because the two have their files at
   one place until a read asks for more than Java has an array for. *)
FilesTyped ==
  /\ file \in Seq(FileBytes) /\ Len(file) <= MaxOffset
  /\ reading \in {"text", "bytes"}
  /\ at \in 0 .. MaxOffset /\ javaAt \in 0 .. MaxOffset /\ start \in 0 .. MaxOffset
  /\ asked \in Nat /\ faults \in 0 .. MaxFaults
  /\ open \in [rust : BOOLEAN, java : BOOLEAN]
  /\ position \in [rust : Nat, java : Nat]

ReadersInStep ==
  /\ open.rust => open.java
  /\ position.rust <= position.java /\ position.java <= at
  /\ reading = "text" => at <= Len(file)
  /\ reading = "bytes" => position.java = 0
  /\ asked <= MaxRead => javaAt = at
  /\ faults = 0 =>
       /\ open.rust = open.java
       /\ reading = "text" => position.rust = at

FilesInv == FilesTyped /\ ReadersInStep /\ FilesReadAlike

(* The least element of a set of naturals. *)
LEMMA NatMin ==
  ASSUME NEW T, T \subseteq Nat, T # {}
  PROVE  \E x \in T : \A y \in T : x <= y
  <1>1. PICK R : R = {p \in Nat \X Nat : p[1] < p[2]}
    OBVIOUS
  <1>2. OpToRel(<, Nat) = {p \in Nat \X Nat : p[1] < p[2]}
    BY Zenon DEF OpToRel
  <1>3. IsWellFoundedOn(R, Nat)
    BY <1>1, <1>2, NatLessThanWellFounded, Zenon
  <1>4. PICK x \in T : \A y \in T : ~(<<y, x>> \in R)
    BY <1>3, WFMin, Zenon
  <1>5. ASSUME NEW y \in T PROVE x <= y
    <2>1. <<y, x>> \in Nat \X Nat
      OBVIOUS
    <2>2. ~(y < x)
      BY <1>1, <1>4, <2>1
    <2> QED
      BY <2>2
  <1> QED
    BY <1>5

LEMMA MinIsLeast ==
  ASSUME NEW T, T \subseteq Nat, T # {}
  PROVE  Min(T) \in T /\ \A y \in T : Min(T) <= y
  <1>1. PICK x \in T : \A y \in T : x <= y
    BY NatMin
  <1> QED
    BY <1>1, Zenon DEF Min

LEMMA LeastIsMin ==
  ASSUME NEW T, T \subseteq Nat, NEW x \in T, \A y \in T : x <= y
  PROVE  Min(T) = x
  <1>1. PICK m : m = Min(T)
    OBVIOUS
  <1>2. m \in T /\ \A y \in T : m <= y
    BY <1>1, MinIsLeast, Zenon
  <1>3. m <= x /\ x <= m
    BY <1>2
  <1> QED
    BY <1>1, <1>2, <1>3

LEMMA MinOfTwo ==
  ASSUME NEW a \in Int, NEW b \in Int
  PROVE  Min({a, b}) = IF a <= b THEN a ELSE b
  BY DEF Min

LEMMA MaxOfTwo ==
  ASSUME NEW a \in Int, NEW b \in Int
  PROVE  Max({a, b}) = IF a >= b THEN a ELSE b
  BY DEF Max

(* Text read from the file: the part of it between two offsets, or less. *)
TakenFrom(f, from, bytes) ==
  /\ from + Len(bytes) <= Len(f)
  /\ \A i \in 1 .. Len(bytes) : bytes[i] = f[from + i]

BadIn(f, from) == {i \in from + 1 .. Len(f) : f[i] = "bad"}

LEMMA BytesTaken ==
  ASSUME NEW f \in Seq(FileBytes), NEW from \in Nat, NEW to \in from .. Len(f),
         NEW bytes, bytes = SubSeq(f, from + 1, to)
  PROVE  bytes \in Seq(FileBytes) /\ Len(bytes) = to - from /\ TakenFrom(f, from, bytes)
  <1>1. Len(f) \in Nat
    BY LenProperties
  <1>2. CASE to = from
    <2>1. bytes = << >>
      BY <1>1, <1>2, SubSeqProperties
    <2> QED
      BY <1>1, <1>2, <2>1 DEF TakenFrom
  <1>3. CASE to > from
    <2>1. /\ bytes \in Seq(FileBytes) /\ Len(bytes) = to - from
          /\ \A i \in 1 .. Len(bytes) : bytes[i] = f[from + i]
      BY <1>1, <1>3, SubSeqProperties
    <2> QED
      BY <1>1, <2>1 DEF TakenFrom
  <1> QED
    BY <1>2, <1>3

(* A line without its end is still taken from where the line was. *)
LEMMA StrippedTaken ==
  ASSUME NEW f \in Seq(FileBytes), NEW from \in Nat, NEW bytes \in Seq(FileBytes),
         TakenFrom(f, from, bytes)
  PROVE  Stripped(bytes) \in Seq(FileBytes) /\ TakenFrom(f, from, Stripped(bytes))
  <1>1. Len(f) \in Nat /\ Len(bytes) \in Nat
    BY LenProperties
  <1>2. ASSUME NEW n \in 0 .. Len(bytes), NEW less, less = SubSeq(bytes, 1, n)
        PROVE  less \in Seq(FileBytes) /\ TakenFrom(f, from, less)
    <2>1. PICK z : z = 0
      OBVIOUS
    <2>2. z \in Nat /\ n \in z .. Len(bytes) /\ less = SubSeq(bytes, z + 1, n)
      BY <1>1, <1>2, <2>1
    <2>3. less \in Seq(FileBytes) /\ Len(less) = n - z /\ TakenFrom(bytes, z, less)
      BY <2>2, BytesTaken, Zenon
    <2>4. Len(less) = n /\ Len(less) <= Len(bytes)
      BY <1>1, <2>1, <2>3
    <2>5. ASSUME NEW i \in 1 .. Len(less) PROVE less[i] = f[from + i]
      <3>1. less[i] = bytes[z + i] /\ z + i = i
        BY <1>1, <2>1, <2>3, <2>4 DEF TakenFrom
      <3>2. i \in 1 .. Len(bytes)
        BY <1>1, <2>4
      <3> QED
        BY <3>1, <3>2 DEF TakenFrom
    <2> QED
      BY <1>1, <2>3, <2>4, <2>5 DEF TakenFrom
  <1>3. CASE ~IsFed(bytes)
    BY <1>3 DEF Stripped
  <1>4. CASE IsFed(bytes)
    <2>1. Len(bytes) >= 1
      BY <1>1, <1>4 DEF IsFed
    <2>2. \/ Len(bytes) > 1 /\ Stripped(bytes) = SubSeq(bytes, 1, Len(bytes) - 2)
          \/ Stripped(bytes) = SubSeq(bytes, 1, Len(bytes) - 1)
      BY <1>4 DEF Stripped, Front
    <2> QED
      BY <1>1, <1>2, <2>1, <2>2
  <1> QED
    BY <1>3, <1>4

(* The first byte at fault is found at the same place in what was read. *)
LEMMA FirstBadTaken ==
  ASSUME NEW f \in Seq(FileBytes), NEW from \in Nat, NEW bytes \in Seq(FileBytes),
         TakenFrom(f, from, bytes),
         NEW bad, bad = {i \in DOMAIN bytes : bytes[i] = "bad"}, bad # {}
  PROVE  Min(BadIn(f, from)) = from + Min(bad)
  <1>1. Len(f) \in Nat /\ Len(bytes) \in Nat /\ DOMAIN bytes = 1 .. Len(bytes)
    BY LenProperties
  <1>2. bad \subseteq Nat
    BY <1>1
  <1>3. PICK m : m = Min(bad)
    OBVIOUS
  <1>4. m \in bad /\ \A y \in bad : m <= y
    BY <1>2, <1>3, MinIsLeast, Zenon
  <1>5. m \in 1 .. Len(bytes) /\ bytes[m] = "bad"
    BY <1>1, <1>4
  <1>6. PICK x : x = from + m
    OBVIOUS
  <1>7. BadIn(f, from) \subseteq Nat
    BY <1>1 DEF BadIn
  <1>8. x \in BadIn(f, from)
    BY <1>1, <1>5, <1>6 DEF BadIn, TakenFrom
  <1>9. ASSUME NEW y \in BadIn(f, from), y < x PROVE FALSE
    <2>1. y \in from + 1 .. Len(f) /\ f[y] = "bad"
      BY <1>9 DEF BadIn
    <2>2. y - from \in 1 .. Len(bytes) /\ y - from < m /\ from + (y - from) = y
      BY <1>1, <1>5, <1>6, <1>9, <2>1
    <2>3. bytes[y - from] = "bad"
      BY <2>1, <2>2 DEF TakenFrom
    <2>4. m <= y - from
      BY <1>1, <1>4, <2>2, <2>3
    <2> QED
      BY <1>5, <2>1, <2>2, <2>4
  <1>10. \A y \in BadIn(f, from) : x <= y
    BY <1>1, <1>5, <1>6, <1>7, <1>9
  <1> QED
    BY <1>3, <1>6, <1>7, <1>8, <1>10, LeastIsMin, Zenon

(* What a text reader answers: its kind does not depend on where the reader
   believes to be, and the offset of a byte at fault only on that. *)
LEMMA DecodedKind ==
  ASSUME NEW kind, NEW bytes, NEW base, NEW other
  PROVE  DecodeText(kind, bytes, base).kind = DecodeText(kind, bytes, other).kind
  BY DEF DecodeText, Reply

LEMMA DecodedOffset ==
  ASSUME NEW f \in Seq(FileBytes), NEW from \in Nat, NEW bytes \in Seq(FileBytes),
         TakenFrom(f, from, bytes),
         NEW kind \in {"Ok", "Some"}, DecodeText(kind, bytes, from).kind = "InvalidEncoding"
  PROVE  DecodeText(kind, bytes, from).what = <<Min(BadIn(f, from)) - 1>>
  <1>1. PICK bad : bad = {i \in DOMAIN bytes : bytes[i] = "bad"}
    OBVIOUS
  <1>2. bad # {}
    BY <1>1 DEF DecodeText, Reply
  <1>3. DecodeText(kind, bytes, from).what = <<from + Min(bad) - 1>>
    BY <1>1, <1>2 DEF DecodeText, Reply
  <1>4. Min(BadIn(f, from)) = from + Min(bad)
    BY <1>1, <1>2, FirstBadTaken, Zenon
  <1>5. PICK m, x : m = Min(bad) /\ x = Min(BadIn(f, from))
    OBVIOUS
  <1>6. x = from + m
    BY <1>4, <1>5, Zenon
  <1>7. DecodeText(kind, bytes, from).what = <<from + m - 1>>
    BY <1>3, <1>5, Zenon
  <1>8. x - 1 = from + m - 1
    <2>1. bad \subseteq Nat
      BY <1>1, LenProperties
    <2>2. m \in bad
      BY <1>2, <1>5, <2>1, MinIsLeast, Zenon
    <2> QED
      BY <1>6, <2>1, <2>2
  <1>9. DecodeText(kind, bytes, from).what = <<x - 1>>
    BY <1>7, <1>8, Zenon
  <1> QED
    BY <1>5, <1>9, Zenon

LEMMA LineKind ==
  ASSUME NEW bytes, NEW base, NEW other
  PROVE  Line(bytes, base).kind = Line(bytes, other).kind
  BY DecodedKind DEF Line

LEMMA LineOffset ==
  ASSUME NEW f \in Seq(FileBytes), NEW from \in Nat, NEW bytes \in Seq(FileBytes),
         TakenFrom(f, from, bytes), Line(bytes, from).kind = "InvalidEncoding"
  PROVE  Line(bytes, from).what = <<Min(BadIn(f, from)) - 1>>
  <1>1. Line(bytes, from) = DecodeText("Some", Stripped(bytes), from)
    BY DEF Line, Reply
  <1> QED
    BY <1>1, StrippedTaken, DecodedOffset

LEMMA LineEndIn ==
  ASSUME FilesTyped, at <= Len(file)
  PROVE  LineEnd \in at .. Len(file)
  <1>1. PICK feeds : feeds = {i \in at + 1 .. Len(file) : file[i] = "lf"}
    OBVIOUS
  <1>2. Len(file) \in Nat /\ at \in Nat
    BY FilesAssumption, LenProperties DEF FilesTyped
  <1>3. CASE feeds = {}
    BY <1>1, <1>2, <1>3 DEF LineEnd
  <1>4. CASE feeds # {}
    <2>1. feeds \subseteq Nat
      BY <1>1, <1>2
    <2>2. Min(feeds) \in feeds
      BY <1>4, <2>1, MinIsLeast
    <2>3. LineEnd = Min(feeds)
      BY <1>1, <1>4 DEF LineEnd
    <2> QED
      BY <1>1, <1>2, <2>2, <2>3
  <1> QED
    BY <1>3, <1>4

(* Both readers have read up to the same place: they count alike, and answer
   alike as long as nothing has failed before. *)
LEMMA GotInv ==
  ASSUME FilesInv, Reads("text"), NEW to \in at .. Len(file), Got(to),
         replies'.rust.kind = replies'.java.kind,
         position.rust = position.java => replies'.rust = replies'.java,
         position.java = at /\ replies'.java.kind = "InvalidEncoding" =>
           replies'.java.what = <<Min(BadIn(file, at)) - 1>>
  PROVE  FilesInv'
  <1>1. /\ file' = file /\ reading' = reading /\ reading = "text" /\ start' = at /\ at' = to
        /\ open' = open /\ open.rust /\ faults' = faults /\ javaAt' = to /\ asked' = asked
    BY DEF Reads, Call, Got
  <1>2. PICK p, q : p = position.rust /\ q = position.java
    OBVIOUS
  <1>3. p \in Nat /\ q \in Nat /\ at \in Nat /\ to \in Nat /\ Len(file) \in Nat
    BY <1>2, FilesAssumption, LenProperties DEF FilesInv, FilesTyped
  <1>4. p <= q /\ q <= at /\ (faults = 0 => p = at /\ q = at)
    <2>1. p <= q /\ q <= at /\ (faults = 0 => p = at)
      BY <1>1, <1>2 DEF FilesInv, ReadersInStep
    <2> QED
      BY <1>3, <2>1
  <1>5. position' = [rust |-> p + (to - at), java |-> q + (to - at)]
    BY <1>2 DEF Got, Counted
  <1>6. FilesTyped'
    <2>1. position' \in [rust : Nat, java : Nat]
      BY <1>3, <1>5
    <2>2. to \in 0 .. MaxOffset /\ at \in 0 .. MaxOffset
      BY <1>3, FilesAssumption DEF FilesInv, FilesTyped
    <2> QED
      BY <1>1, <2>1, <2>2 DEF FilesInv, FilesTyped
  <1>7. ReadersInStep'
    <2>1. position'.rust = p + (to - at) /\ position'.java = q + (to - at)
      BY <1>5
    <2>2. position'.rust <= position'.java /\ position'.java <= at' /\ at' <= Len(file')
      BY <1>1, <1>3, <1>4, <2>1
    <2>3. faults' = 0 => position'.rust = at'
      BY <1>1, <1>3, <1>4, <2>1
    <2> QED
      BY <1>1, <2>2, <2>3 DEF FilesInv, ReadersInStep
  <1>8. FilesReadAlike'
    <2>1. faults' = 0 => p = q /\ q = at
      BY <1>1, <1>4
    <2>2. faults' = 0 => replies'.rust = replies'.java
      BY <1>2, <2>1
    <2>3. FirstBad(start)' = Min(BadIn(file, at)) - 1
      BY <1>1 DEF FirstBad, BadIn
    <2>4. faults' = 0 /\ replies'.java.kind = "InvalidEncoding" =>
            replies'.java.what = <<FirstBad(start)'>>
      BY <1>2, <2>1, <2>3
    <2> QED
      BY <1>7, <1>1, <2>2, <2>4 DEF FilesReadAlike, ReadersInStep
  <1> QED
    BY <1>6, <1>7, <1>8 DEF FilesInv

(* A failed read: both answer so, and only Java may have counted. *)
LEMMA LostInv ==
  ASSUME FilesInv, Reads("text"), NEW to \in at .. Len(file), NEW counted \in BOOLEAN,
         Lost(to, counted)
  PROVE  FilesInv'
  <1>1. /\ file' = file /\ reading' = reading /\ reading = "text" /\ start' = at /\ at' = to
        /\ open' = open /\ faults' = faults + 1 /\ faults < MaxFaults
        /\ javaAt' = to /\ asked' = asked
    BY DEF Reads, Call, Lost, Fault
  <1>2. PICK p, q : p = position.rust /\ q = position.java
    OBVIOUS
  <1>3. /\ p \in Nat /\ q \in Nat /\ at \in Nat /\ to \in Nat /\ Len(file) \in Nat
        /\ faults \in Nat /\ p <= q /\ q <= at
    BY <1>1, <1>2, FilesAssumption, LenProperties DEF FilesInv, FilesTyped, ReadersInStep
  <1>4. PICK r : r \in Nat /\ q <= r /\ r <= to /\ position' = [rust |-> p, java |-> r]
    <2>1. position = [rust |-> p, java |-> q]
      BY <1>2 DEF FilesInv, FilesTyped
    <2>2. CASE counted
      <3>1. position' = [position EXCEPT !.java = q + (to - at)]
        BY <1>2, <2>2 DEF Lost, Counted
      <3>2. position' = [rust |-> p, java |-> q + (to - at)]
        BY <2>1, <3>1
      <3>3. q + (to - at) \in Nat /\ q <= q + (to - at) /\ q + (to - at) <= to
        BY <1>3
      <3> QED
        BY <3>2, <3>3
    <2>3. CASE ~counted
      BY <1>3, <2>1, <2>3 DEF Lost
    <2> QED
      BY <2>2, <2>3
  <1>5. FilesTyped'
    <2>1. position' \in [rust : Nat, java : Nat]
      BY <1>3, <1>4
    <2>2. to \in 0 .. MaxOffset /\ faults + 1 \in 0 .. MaxFaults
      BY <1>1, <1>3, FilesAssumption DEF FilesInv, FilesTyped
    <2> QED
      BY <1>1, <2>1, <2>2 DEF FilesInv, FilesTyped
  <1>6. ReadersInStep'
    <2>1. position'.rust = p /\ position'.java = r /\ faults' # 0
      BY <1>1, <1>3, <1>4
    <2> QED
      BY <1>1, <1>3, <1>4, <2>1 DEF FilesInv, ReadersInStep
  <1>7. FilesReadAlike'
    <2>1. replies'.rust.kind = replies'.java.kind /\ faults' # 0
      BY <1>1, <1>3 DEF Lost, Both
    <2> QED
      BY <1>6, <2>1 DEF FilesReadAlike, ReadersInStep
  <1> QED
    BY <1>5, <1>6, <1>7 DEF FilesInv

LEMMA ReadLineInv == FilesInv /\ ReadLine => FilesInv'
  <1> SUFFICES ASSUME FilesInv, ReadLine PROVE FilesInv'
    OBVIOUS
  <1>1. Reads("text") /\ reading = "text" /\ at <= Len(file) /\ FilesTyped
    BY DEF ReadLine, Reads, Call, FilesInv, ReadersInStep
  <1>2. at \in Nat /\ Len(file) \in Nat /\ file \in Seq(FileBytes)
    BY FilesAssumption, LenProperties DEF FilesInv, FilesTyped
  <1>3. PICK end : end = LineEnd
    OBVIOUS
  <1>4. end \in at .. Len(file)
    BY <1>1, <1>3, LineEndIn
  <1>5. PICK bytes : bytes = SubSeq(file, at + 1, end)
    OBVIOUS
  <1>6. bytes \in Seq(FileBytes) /\ Len(bytes) = end - at /\ TakenFrom(file, at, bytes)
    BY <1>2, <1>4, <1>5, BytesTaken, Zenon
  <1>7. PICK p, q : p = position.rust /\ q = position.java
    OBVIOUS
  <1>8. \/ Got(end) /\ replies' = [rust |-> Line(bytes, p), java |-> Line(bytes, q)]
        \/ \E to \in at .. (IF IsFed(bytes) THEN end - 1 ELSE end) : Lost(to, TRUE)
    BY <1>3, <1>5, <1>7, Zenon DEF ReadLine, Bytes
  <1>9. CASE Got(end) /\ replies' = [rust |-> Line(bytes, p), java |-> Line(bytes, q)]
    <2>1. replies'.rust = Line(bytes, p) /\ replies'.java = Line(bytes, q)
      BY <1>9
    <2>2. replies'.rust.kind = replies'.java.kind
      BY <2>1, LineKind
    <2>3. ASSUME q = at, replies'.java.kind = "InvalidEncoding"
          PROVE  replies'.java.what = <<Min(BadIn(file, at)) - 1>>
      BY <1>2, <1>6, <2>1, <2>3, LineOffset
    <2> QED
      BY <1>1, <1>4, <1>7, <1>9, <2>1, <2>2, <2>3, GotInv
  <1>10. CASE \E to \in at .. (IF IsFed(bytes) THEN end - 1 ELSE end) : Lost(to, TRUE)
    <2>1. PICK last : last = IF IsFed(bytes) THEN end - 1 ELSE end
      OBVIOUS
    <2>2. last \in Int /\ last <= Len(file)
      BY <1>2, <1>4, <2>1
    <2>3. PICK to \in at .. last : Lost(to, TRUE)
      BY <1>10, <2>1, Zenon
    <2>4. to \in at .. Len(file)
      BY <1>2, <2>2, <2>3
    <2> QED
      BY <1>1, <2>3, <2>4, LostInv
  <1> QED
    BY <1>8, <1>9, <1>10

LEMMA ReadTextToEndInv == FilesInv /\ ReadTextToEnd => FilesInv'
  <1> SUFFICES ASSUME FilesInv, ReadTextToEnd PROVE FilesInv'
    OBVIOUS
  <1>1. Reads("text") /\ at <= Len(file)
    BY DEF ReadTextToEnd, Reads, Call, FilesInv, ReadersInStep
  <1>2. at \in Nat /\ Len(file) \in Nat /\ file \in Seq(FileBytes)
    BY FilesAssumption, LenProperties DEF FilesInv, FilesTyped
  <1>3. PICK end : end = Len(file)
    OBVIOUS
  <1>4. end \in at .. Len(file)
    BY <1>1, <1>2, <1>3
  <1>5. PICK bytes : bytes = SubSeq(file, at + 1, end)
    OBVIOUS
  <1>6. bytes \in Seq(FileBytes) /\ Len(bytes) = end - at /\ TakenFrom(file, at, bytes)
    BY <1>2, <1>4, <1>5, BytesTaken, Zenon
  <1>7. PICK p, q : p = position.rust /\ q = position.java
    OBVIOUS
  <1>8. \/ /\ Got(end)
           /\ replies' = [rust |-> DecodeText("Ok", bytes, p), java |-> DecodeText("Ok", bytes, q)]
        \/ \E to \in at .. end : Lost(to, FALSE)
    BY <1>3, <1>5, <1>7, Zenon DEF ReadTextToEnd, Bytes
  <1>9. CASE /\ Got(end)
             /\ replies' = [rust |-> DecodeText("Ok", bytes, p), java |-> DecodeText("Ok", bytes, q)]
    <2>1. replies'.rust = DecodeText("Ok", bytes, p) /\ replies'.java = DecodeText("Ok", bytes, q)
      BY <1>9
    <2>2. replies'.rust.kind = replies'.java.kind
      BY <2>1, DecodedKind
    <2>3. ASSUME q = at, replies'.java.kind = "InvalidEncoding"
          PROVE  replies'.java.what = <<Min(BadIn(file, at)) - 1>>
      <3>1. DecodeText("Ok", bytes, at).kind = "InvalidEncoding"
        BY <2>1, <2>3, Zenon
      <3>2. "Ok" \in {"Ok", "Some"}
        OBVIOUS
      <3>3. DecodeText("Ok", bytes, at).what = <<Min(BadIn(file, at)) - 1>>
        BY <1>2, <1>6, <3>1, <3>2, DecodedOffset, Zenon
      <3> QED
        BY <2>1, <2>3, <3>3, Zenon
    <2> QED
      BY <1>1, <1>4, <1>7, <1>9, <2>1, <2>2, <2>3, GotInv
  <1>10. CASE \E to \in at .. end : Lost(to, FALSE)
    BY <1>1, <1>3, <1>10, LostInv
  <1> QED
    BY <1>8, <1>9, <1>10

(* A call of a byte stream: until a read asks for more than Java has an array
   for, both files are moved alike and both answers are the same. *)
LEMMA BytesInv ==
  ASSUME FilesInv, Reads("bytes"), Stay,
         at' \in 0 .. MaxOffset, javaAt' \in 0 .. MaxOffset,
         asked' \in Nat, asked <= asked', faults' = faults \/ Fault,
         asked' <= MaxRead /\ javaAt = at => javaAt' = at' /\ replies'.rust = replies'.java,
         replies'.java.kind # "InvalidEncoding"
  PROVE  FilesInv'
  <1>1. /\ file' = file /\ reading' = reading /\ reading = "bytes" /\ start' = at
        /\ open' = open /\ position' = position
    BY DEF Reads, Call, Stay
  <1>2. faults' \in 0 .. MaxFaults /\ (faults' = 0 => faults = 0)
    BY FilesAssumption DEF Fault, FilesInv, FilesTyped
  <1>3. FilesTyped'
    BY <1>1, <1>2 DEF FilesInv, FilesTyped
  <1>4. position.java = 0 /\ position.rust = 0
    BY <1>1 DEF FilesInv, FilesTyped, ReadersInStep
  <1>5. asked' <= MaxRead => javaAt' = at' /\ replies'.rust = replies'.java
    <2>1. asked' <= MaxRead => asked <= MaxRead
      BY FilesAssumption DEF FilesInv, FilesTyped
    <2> QED
      BY <2>1 DEF FilesInv, ReadersInStep
  <1>6. ReadersInStep'
    <2>1. at' \in Int /\ at' >= 0 /\ reading' # "text"
      BY <1>1, FilesAssumption
    <2> QED
      BY <1>1, <1>2, <1>4, <1>5, <2>1 DEF FilesInv, ReadersInStep
  <1>7. FilesReadAlike'
    BY <1>1, <1>5 DEF FilesReadAlike
  <1> QED
    BY <1>3, <1>6, <1>7 DEF FilesInv

LEMMA ReachedIn ==
  ASSUME FilesTyped, NEW from \in 0 .. MaxOffset, NEW n \in Nat
  PROVE  Reached(from, n) \in 0 .. MaxOffset
  <1>1. Len(file) \in Nat /\ Len(file) <= MaxOffset /\ MaxOffset \in Nat
    BY FilesAssumption, LenProperties DEF FilesTyped
  <1>2. PICK less : less = Min({from + n, Len(file)})
    OBVIOUS
  <1>3. less = IF from + n <= Len(file) THEN from + n ELSE Len(file)
    <2>1. from + n \in Int /\ Len(file) \in Int
      BY <1>1
    <2> QED
      BY <1>2, <2>1, MinOfTwo
  <1>4. Reached(from, n) = IF from >= less THEN from ELSE less
    <2>1. from \in Int /\ less \in Int
      BY <1>1, <1>3
    <2> QED
      BY <1>2, <2>1, MaxOfTwo DEF Reached
  <1> QED
    BY <1>1, <1>3, <1>4

LEMMA ReadInv == FilesInv /\ Read => FilesInv'
  <1> SUFFICES ASSUME FilesInv, Read PROVE FilesInv'
    OBVIOUS
  <1>1. Reads("bytes") /\ Stay
    BY DEF Read
  <1>2. FilesTyped /\ at \in 0 .. MaxOffset /\ javaAt \in 0 .. MaxOffset /\ asked \in Nat
    BY DEF FilesInv, FilesTyped
  <1>3. PICK max \in Offsets :
          /\ asked' = Max({asked, max})
          /\ \/ /\ max >= 0
                /\ \E n \in Min({1, max}) .. max : Gives(n, max)
                /\ UNCHANGED faults
             \/ (max < 0 \/ max > MaxRead) /\ Refused /\ UNCHANGED faults
             \/ max >= 0 /\ Fault /\ Refused
    BY Zenon DEF Read
  <1>4. asked' \in Nat /\ asked <= asked' /\ max <= asked' /\ max \in Int
    <2>1. max \in Int
      BY FilesAssumption
    <2>2. asked' = IF asked >= max THEN asked ELSE max
      BY <1>2, <1>3, <2>1, MaxOfTwo
    <2> QED
      BY <1>2, <2>1, <2>2
  <1>5. CASE Refused /\ (faults' = faults \/ Fault)
    <2>1. at' = at /\ javaAt' = javaAt /\ replies'.rust = replies'.java
          /\ replies'.java.kind # "InvalidEncoding"
      BY <1>5 DEF Refused, Both, IoFailure, Reply
    <2> QED
      BY <1>1, <1>2, <1>4, <1>5, <2>1, BytesInv
  <1>6. CASE /\ max >= 0
             /\ \E n \in Min({1, max}) .. max : Gives(n, max)
             /\ UNCHANGED faults
    <2>1. PICK least : least = Min({1, max})
      OBVIOUS
    <2>2. least \in Nat
      BY <1>4, <1>6, <2>1, MinOfTwo
    <2>3. PICK n \in least .. max : Gives(n, max)
      BY <1>6, <2>1, Zenon
    <2>4. n \in Nat
      BY <1>4, <2>2, <2>3
    <2>5. at' \in 0 .. MaxOffset /\ javaAt' \in 0 .. MaxOffset
      BY <1>2, <2>3, <2>4, ReachedIn DEF Gives
    <2>6. asked' <= MaxRead => max <= MaxRead
      BY <1>2, <1>4, FilesAssumption
    <2>7. max <= MaxRead /\ javaAt = at => javaAt' = at' /\ replies'.rust = replies'.java
      BY <2>3 DEF Gives
    <2>8. replies'.java.kind # "InvalidEncoding"
      BY <2>3 DEF Gives, IoFailure, Reply
    <2> QED
      BY <1>1, <1>4, <1>6, <2>5, <2>6, <2>7, <2>8, BytesInv
  <1> QED
    BY <1>3, <1>5, <1>6

LEMMA ReadBytesToEndInv == FilesInv /\ ReadBytesToEnd => FilesInv'
  <1> SUFFICES ASSUME FilesInv, ReadBytesToEnd PROVE FilesInv'
    OBVIOUS
  <1>1. Reads("bytes") /\ Stay /\ asked' = asked
    BY DEF ReadBytesToEnd
  <1>2. FilesTyped /\ at \in 0 .. MaxOffset /\ javaAt \in 0 .. MaxOffset /\ asked \in Nat
    BY DEF FilesInv, FilesTyped
  <1>3. Len(file) \in Nat
    BY <1>2, LenProperties DEF FilesTyped
  <1>4. CASE /\ at' = Reached(at, Len(file)) /\ javaAt' = Reached(javaAt, Len(file))
             /\ replies' = [rust |-> Reply("Ok", Bytes(at, Len(file))),
                            java |-> Reply("Ok", Bytes(javaAt, Len(file)))]
             /\ UNCHANGED faults
    <2>1. at' \in 0 .. MaxOffset /\ javaAt' \in 0 .. MaxOffset
      BY <1>2, <1>3, <1>4, ReachedIn
    <2>2. javaAt = at => javaAt' = at' /\ replies'.rust = replies'.java
      BY <1>4
    <2>3. replies'.java.kind # "InvalidEncoding"
      BY <1>4 DEF Reply
    <2> QED
      BY <1>1, <1>2, <1>4, <2>1, <2>2, <2>3, BytesInv
  <1>5. CASE \E n \in 0 .. Len(file) :
               /\ Fault
               /\ at' = Reached(at, n) /\ javaAt' = Reached(javaAt, n) /\ replies' = Both(IoFailure)
    <2>1. PICK n \in 0 .. Len(file) :
            /\ Fault
            /\ at' = Reached(at, n) /\ javaAt' = Reached(javaAt, n) /\ replies' = Both(IoFailure)
      BY <1>5
    <2>2. n \in Nat
      BY <1>3, <2>1
    <2>3. at' \in 0 .. MaxOffset /\ javaAt' \in 0 .. MaxOffset
      BY <1>2, <2>1, <2>2, ReachedIn
    <2>4. replies'.rust = replies'.java /\ replies'.java.kind # "InvalidEncoding"
      BY <2>1 DEF Both, IoFailure, Reply
    <2> QED
      BY <1>1, <1>2, <2>1, <2>3, <2>4, BytesInv
  <1> QED
    BY <1>4, <1>5 DEF ReadBytesToEnd

LEMMA SeekInv == FilesInv /\ Seek => FilesInv'
  <1> SUFFICES ASSUME FilesInv, Seek PROVE FilesInv'
    OBVIOUS
  <1>1. Reads("bytes") /\ Stay /\ faults' = faults /\ asked' = asked
    BY DEF Seek
  <1>2. PICK offset, from :
          /\ at' = Moved(at, Origin(from, at) + offset)
          /\ javaAt' = Moved(javaAt, Origin(from, javaAt) + offset)
          /\ replies' = [rust |-> Sought(Origin(from, at) + offset),
                         java |-> Sought(Origin(from, javaAt) + offset)]
    BY Zenon DEF Seek
  <1>3. at \in 0 .. MaxOffset /\ javaAt \in 0 .. MaxOffset /\ asked \in Nat
    BY DEF FilesInv, FilesTyped
  <1>4. at' \in 0 .. MaxOffset /\ javaAt' \in 0 .. MaxOffset
    BY <1>2, <1>3 DEF Moved
  <1>5. javaAt = at => javaAt' = at' /\ replies'.rust = replies'.java
    BY <1>2
  <1>6. replies'.java.kind # "InvalidEncoding"
    BY <1>2 DEF Sought, IoFailure, Reply
  <1> QED
    BY <1>1, <1>3, <1>4, <1>5, <1>6, BytesInv

LEMMA CloseInv == FilesInv /\ Close => FilesInv'
  <1> SUFFICES ASSUME FilesInv, Close PROVE FilesInv'
    OBVIOUS
  <1>1. /\ file' = file /\ reading' = reading /\ start' = at
        /\ at' = at /\ javaAt' = javaAt /\ asked' = asked /\ position' = position
    BY DEF Close, Call
  <1>2. /\ open'.rust = FALSE /\ open' \in [rust : BOOLEAN, java : BOOLEAN]
        /\ faults' \in 0 .. MaxFaults /\ (faults' = 0 => faults = 0 /\ open'.java = FALSE)
        /\ replies'.java.kind # "InvalidEncoding"
        /\ faults' = 0 => replies'.rust = replies'.java
    <2>1. CASE open' = Both(FALSE) /\ replies' = Both(Unit) /\ UNCHANGED faults
      BY <2>1 DEF Both, Unit, Reply, FilesInv, FilesTyped
    <2>2. CASE /\ Fault /\ open' = [rust |-> FALSE, java |-> TRUE]
               /\ replies' = [rust |-> Unit, java |-> IoFailure]
      <3>1. faults' \in 0 .. MaxFaults /\ faults' # 0
        BY <2>2, FilesAssumption DEF Fault, FilesInv, FilesTyped
      <3> QED
        BY <2>2, <3>1 DEF IoFailure, Reply
    <2> QED
      BY <2>1, <2>2 DEF Close
  <1>3. FilesTyped'
    BY <1>1, <1>2 DEF FilesInv, FilesTyped
  <1>4. ReadersInStep'
    BY <1>1, <1>2 DEF FilesInv, ReadersInStep
  <1>5. FilesReadAlike'
    BY <1>2 DEF FilesReadAlike
  <1> QED
    BY <1>3, <1>4, <1>5 DEF FilesInv

(* As long as no call has failed Java has closed what the interpreter has. *)
LEMMA ReadClosedInv == FilesInv /\ ReadClosed => FilesInv'
  <1> SUFFICES ASSUME FilesInv, ReadClosed PROVE FilesInv'
    OBVIOUS
  <1>1. /\ file' = file /\ reading' = reading /\ start' = at /\ open' = open
        /\ at' = at /\ javaAt' = javaAt /\ asked' = asked
        /\ position' = position /\ faults' = faults /\ ~open.rust
    BY DEF ReadClosed, Call, Stay
  <1>2. PICK wrong : replies' = [rust |-> IF wrong THEN IoFailure ELSE Closed,
                                 java |-> IF open.java THEN IoFailure ELSE Closed]
    BY Zenon DEF ReadClosed
  <1>3. FilesTyped'
    BY <1>1 DEF FilesInv, FilesTyped
  <1>4. ReadersInStep'
    BY <1>1 DEF FilesInv, ReadersInStep
  <1>5. faults = 0 => ~open.java
    BY <1>1 DEF FilesInv, ReadersInStep
  <1>6. /\ replies'.rust = IoFailure \/ replies'.rust = Closed
        /\ replies'.java = IoFailure \/ replies'.java = Closed
        /\ ~open.java => replies'.java = Closed
    BY <1>2
  <1>7. replies'.java.kind # "InvalidEncoding"
    BY <1>6 DEF IoFailure, Closed, Reply
  <1>8. FilesReadAlike'
    BY <1>1, <1>5, <1>6, <1>7 DEF FilesReadAlike
  <1> QED
    BY <1>3, <1>4, <1>8 DEF FilesInv

LEMMA FilesInitInv == FilesInit => FilesInv
  <1> SUFFICES ASSUME FilesInit PROVE FilesInv
    OBVIOUS
  <1>1. /\ file \in Seq(FileBytes) /\ Len(file) <= MaxOffset
        /\ at = 0 /\ javaAt = 0 /\ start = 0 /\ asked = 0 /\ faults = 0 /\ reading \in {"text", "bytes"}
        /\ open = [rust |-> TRUE, java |-> TRUE] /\ position = [rust |-> 0, java |-> 0]
        /\ replies = [rust |-> Unit, java |-> Unit]
    BY FilesAssumption DEF FilesInit, Both
  <1>2. Len(file) \in Nat
    BY <1>1, LenProperties
  <1>3. FilesTyped
    BY <1>1, FilesAssumption DEF FilesTyped
  <1>4. ReadersInStep
    BY <1>1, <1>2 DEF ReadersInStep
  <1>5. FilesReadAlike
    BY <1>1 DEF FilesReadAlike, Unit, Reply
  <1> QED
    BY <1>3, <1>4, <1>5 DEF FilesInv

(* The inductive invariant of the readers of both runtimes: whatever a file
   holds, whatever calls are made and whichever of them fail. *)
THEOREM FilesInvariant == FilesSpec => []FilesInv
  <1>1. FilesInv /\ UNCHANGED fileVars => FilesInv'
    BY DEF FilesInv, FilesTyped, ReadersInStep, FilesReadAlike, FirstBad, fileVars
  <1>2. FilesInv /\ [FilesNext]_fileVars => FilesInv'
    BY <1>1, ReadLineInv, ReadTextToEndInv, ReadInv, ReadBytesToEndInv, SeekInv, CloseInv,
       ReadClosedInv DEF FilesNext
  <1> QED
    BY <1>2, FilesInitInv, PTL DEF FilesSpec

(* The interpreter and the Java runtime read every file alike, as long as no
   read asks for more bytes than a Java array holds: the same answers until a
   call fails, text or failure alike after that, offsets of encoding errors at
   the byte at fault and never behind the file. *)
THEOREM FilesAlwaysReadAlike == FilesSpec => []FilesReadAlike
  <1>1. FilesInv => FilesReadAlike
    BY DEF FilesInv
  <1> QED
    BY <1>1, FilesInvariant, PTL

(* The state of both readers keeps its type. *)
THEOREM FilesTypeCorrect == FilesSpec => []FilesTypeOK
  <1>1. ASSUME FilesInv PROVE FilesTypeOK
    <2>1. Len(file) \in Nat /\ at \in Nat /\ position.rust \in Nat /\ position.java \in Nat
      BY <1>1, FilesAssumption, LenProperties DEF FilesInv, FilesTyped
    <2>2. position.rust <= position.java /\ position.java <= Len(file)
      BY <1>1, <2>1 DEF FilesInv, FilesTyped, ReadersInStep
    <2>3. open \in [{"rust", "java"} -> BOOLEAN]
      BY <1>1 DEF FilesInv, FilesTyped
    <2> QED
      BY <1>1, <2>1, <2>2, <2>3 DEF FilesInv, FilesTyped, ReadersInStep, FilesTypeOK
  <1> QED
    BY <1>1, FilesInvariant, PTL

----------------------------------------------------------------------------
(* Numbers: powers *)

LEMMA NatInduct ==
  ASSUME NEW T, 0 \in T, \A n \in Nat : n \in T => n + 1 \in T
  PROVE  Nat \subseteq T
  <1> SUFFICES ASSUME Nat \ T # {} PROVE FALSE
    OBVIOUS
  <1>1. PICK m \in Nat \ T : \A y \in Nat \ T : m <= y
    BY NatMin
  <1>2. m # 0 /\ m - 1 \in Nat
    BY <1>1
  <1>3. m - 1 \in T
    BY <1>1, <1>2
  <1> QED
    BY <1>1, <1>2, <1>3

(* The powers of v up to the n-th. *)
PowersTo(v, n, g) ==
  /\ g \in [0 .. n -> Int] /\ g[0] = 1
  /\ \A k \in 1 .. n : g[k] = v * g[k - 1]

LEMMA OnePowerMore ==
  ASSUME NEW v \in Int, NEW n \in Nat, NEW g, PowersTo(v, n, g)
  PROVE  \E h : PowersTo(v, n + 1, h)
  <1>1. PICK x \in Int : x = v * g[n]
    BY DEF PowersTo
  <1>2. PICK h : h = [k \in 0 .. n + 1 |-> IF k = n + 1 THEN x ELSE g[k]]
    OBVIOUS
  <1>3. h \in [0 .. n + 1 -> Int] /\ h[0] = 1
    BY <1>2 DEF PowersTo
  <1>4. ASSUME NEW k \in 1 .. n + 1 PROVE h[k] = v * h[k - 1]
    <2>1. CASE k = n + 1
      <3>1. h[k] = x /\ h[k - 1] = g[n]
        BY <1>2, <2>1
      <3> QED
        BY <1>1, <3>1
    <2>2. CASE k # n + 1
      <3>1. k \in 1 .. n /\ k - 1 \in 0 .. n
        BY <2>2
      <3>2. h[k] = g[k] /\ h[k - 1] = g[k - 1]
        BY <1>2, <2>2, <3>1
      <3> QED
        BY <3>1, <3>2 DEF PowersTo
    <2> QED
      BY <2>1, <2>2
  <1> QED
    BY <1>3, <1>4 DEF PowersTo

LEMMA PowersExist ==
  ASSUME NEW v \in Int, NEW n \in Nat
  PROVE  \E g : PowersTo(v, n, g)
  <1> DEFINE T == {m \in Nat : \E g : PowersTo(v, m, g)}
  <1>1. 0 \in T
    <2>1. PICK g : g = [k \in 0 .. 0 |-> 1]
      OBVIOUS
    <2>2. PowersTo(v, 0, g)
      BY <2>1 DEF PowersTo
    <2> QED
      BY <2>2
  <1>2. ASSUME NEW m \in Nat, m \in T PROVE m + 1 \in T
    BY <1>2, OnePowerMore
  <1> HIDE DEF T
  <1>3. n \in T
    BY <1>1, <1>2, NatInduct
  <1> QED
    BY <1>3 DEF T

LEMMA PowersAgree ==
  ASSUME NEW v \in Int, NEW n \in Nat, NEW m \in Nat, n <= m,
         NEW g, PowersTo(v, n, g), NEW h, PowersTo(v, m, h)
  PROVE  \A k \in 0 .. n : g[k] = h[k]
  <1> DEFINE T == {k \in Nat : k <= n => g[k] = h[k]}
  <1>1. 0 \in T
    BY DEF PowersTo
  <1>2. ASSUME NEW k \in Nat, k \in T PROVE k + 1 \in T
    <2> SUFFICES ASSUME k + 1 <= n PROVE g[k + 1] = h[k + 1]
      OBVIOUS
    <2>1. PICK j : j = k + 1
      OBVIOUS
    <2>2. j \in 1 .. n /\ j \in 1 .. m /\ j - 1 = k /\ k <= n
      BY <2>1
    <2>3. g[j] = v * g[k] /\ h[j] = v * h[k]
      BY <2>2 DEF PowersTo
    <2> QED
      BY <1>2, <2>1, <2>2, <2>3
  <1> HIDE DEF T
  <1>3. Nat \subseteq T
    BY <1>1, <1>2, NatInduct
  <1> QED
    BY <1>3 DEF T

(* The recursion of PowerOf has a solution. *)
IsPower(v, f) == f = [k \in Nat |-> IF k = 0 THEN 1 ELSE v * f[k - 1]]

LEMMA PowerExists ==
  ASSUME NEW v \in Int
  PROVE  \E f : IsPower(v, f)
  <1> DEFINE G(n) == CHOOSE g : PowersTo(v, n, g)
  <1>1. ASSUME NEW n \in Nat PROVE PowersTo(v, n, G(n))
    BY PowersExist
  <1> HIDE DEF G
  <1>2. PICK f : f = [n \in Nat |-> G(n)[n]]
    OBVIOUS
  <1>3. ASSUME NEW n \in Nat PROVE f[n] = IF n = 0 THEN 1 ELSE v * f[n - 1]
    <2>1. PICK g : g = G(n)
      OBVIOUS
    <2>2. PowersTo(v, n, g) /\ f[n] = g[n]
      BY <1>1, <1>2, <2>1
    <2>3. CASE n = 0
      BY <2>2, <2>3 DEF PowersTo
    <2>4. CASE n # 0
      <3>1. PICK m \in Nat : m = n - 1
        BY <2>4
      <3>2. PICK h : h = G(m)
        OBVIOUS
      <3>3. PowersTo(v, m, h) /\ f[m] = h[m]
        BY <1>1, <1>2, <3>2
      <3>4. \A k \in 0 .. m : h[k] = g[k]
        BY <2>2, <3>1, <3>3, PowersAgree
      <3>5. g[n] = v * g[m] /\ h[m] = g[m]
        BY <2>2, <2>4, <3>1, <3>4 DEF PowersTo
      <3> QED
        BY <2>2, <2>4, <3>1, <3>3, <3>5
    <2> QED
      BY <2>3, <2>4
  <1>4. f = [k \in Nat |-> IF k = 0 THEN 1 ELSE v * f[k - 1]]
    BY <1>2, <1>3
  <1> QED
    BY <1>4 DEF IsPower

LEMMA PowerIs ==
  ASSUME NEW v \in Int
  PROVE  \E f : IsPower(v, f) /\ \A n : PowerOf(v, n) = f[n]
  <1>1. PICK f : f = CHOOSE g : IsPower(v, g)
    OBVIOUS
  <1>2. IsPower(v, f)
    BY <1>1, PowerExists
  <1>3. \A n : PowerOf(v, n) = f[n]
    BY <1>1, Zenon DEF PowerOf, IsPower
  <1> QED
    BY <1>2, <1>3

LEMMA PowerZero ==
  ASSUME NEW v \in Int
  PROVE  PowerOf(v, 0) = 1
  <1>1. PICK f : IsPower(v, f) /\ \A n : PowerOf(v, n) = f[n]
    BY PowerIs
  <1>2. f[0] = 1
    BY <1>1 DEF IsPower
  <1> QED
    BY <1>1, <1>2

LEMMA PowerNext ==
  ASSUME NEW v \in Int, NEW n \in Nat
  PROVE  PowerOf(v, n + 1) = v * PowerOf(v, n)
  <1>1. PICK f : IsPower(v, f) /\ \A k : PowerOf(v, k) = f[k]
    BY PowerIs
  <1>2. PICK m : m = n + 1
    OBVIOUS
  <1>3. m \in Nat /\ m # 0 /\ m - 1 = n
    BY <1>2
  <1>4. f[m] = v * f[m - 1]
    BY <1>1, <1>3 DEF IsPower
  <1> QED
    BY <1>1, <1>2, <1>3, <1>4

LEMMA PowerInt ==
  ASSUME NEW v \in Int, NEW n \in Nat
  PROVE  PowerOf(v, n) \in Int
  <1> DEFINE T == {m \in Nat : PowerOf(v, m) \in Int}
  <1>1. 0 \in T
    BY PowerZero
  <1>2. ASSUME NEW m \in Nat, m \in T PROVE m + 1 \in T
    <2>1. PICK x \in Int : x = PowerOf(v, m)
      BY <1>2
    <2>2. PowerOf(v, m + 1) = v * x
      BY <2>1, PowerNext
    <2> QED
      BY <2>2
  <1> HIDE DEF T
  <1>3. n \in T
    BY <1>1, <1>2, NatInduct
  <1> QED
    BY <1>3 DEF T

LEMMA PowerPositive ==
  ASSUME NEW v \in Nat \ {0}, NEW n \in Nat
  PROVE  PowerOf(v, n) \in Nat \ {0}
  <1> DEFINE T == {m \in Nat : PowerOf(v, m) \in Nat \ {0}}
  <1>1. 0 \in T
    BY PowerZero
  <1>2. ASSUME NEW m \in Nat, m \in T PROVE m + 1 \in T
    <2>1. PICK x \in Nat \ {0} : x = PowerOf(v, m)
      BY <1>2
    <2>2. PowerOf(v, m + 1) = v * x
      BY <2>1, PowerNext
    <2>3. v * x \in Nat \ {0}
      OBVIOUS
    <2> QED
      BY <2>2, <2>3
  <1> HIDE DEF T
  <1>3. n \in T
    BY <1>1, <1>2, NatInduct
  <1> QED
    BY <1>3 DEF T

LEMMA TenToPositive ==
  ASSUME NEW n \in Nat
  PROVE  TenTo(n) \in Nat \ {0}
  <1>1. PICK v : v = 10
    OBVIOUS
  <1>2. PowerOf(v, n) \in Nat \ {0}
    BY <1>1, PowerPositive
  <1> QED
    BY <1>1, <1>2 DEF TenTo

(* A positive factor is not lost. *)
LEMMA PowerGrows ==
  ASSUME NEW w \in Nat \ {0}, NEW n \in Nat \ {0}
  PROVE  PowerOf(w, n) \in Nat /\ PowerOf(w, n) >= w
  <1>1. PICK m \in Nat : n = m + 1
    <2>1. n - 1 \in Nat /\ n = (n - 1) + 1
      OBVIOUS
    <2> QED
      BY <2>1
  <1>2. PICK x \in Nat \ {0} : x = PowerOf(w, m)
    BY PowerPositive
  <1>3. PowerOf(w, n) = w * x
    BY <1>1, <1>2, PowerNext
  <1>4. w * x \in Nat /\ w * x >= w
    OBVIOUS
  <1> QED
    BY <1>3, <1>4

(* Squaring the base halves the exponent. *)
LEMMA PowerOfSquare ==
  ASSUME NEW v \in Int, NEW n \in Nat
  PROVE  PowerOf(v, 2 * n) = PowerOf(v * v, n)
  <1>0. PICK w \in Int : w = v * v
    OBVIOUS
  <1> DEFINE T == {m \in Nat : PowerOf(v, 2 * m) = PowerOf(w, m)}
  <1>1. 0 \in T
    <2>1. 2 * 0 = 0
      OBVIOUS
    <2> QED
      BY <2>1, PowerZero
  <1>2. ASSUME NEW m \in Nat, m \in T PROVE m + 1 \in T
    <2>1. PICK k \in Nat : k = 2 * m
      OBVIOUS
    <2>2. PICK x \in Int : x = PowerOf(w, m) /\ PowerOf(v, k) = x
      BY <1>2, <2>1, PowerInt
    <2>3. PICK j \in Nat : j = k + 1
      OBVIOUS
    <2>4. PowerOf(v, j) = v * x
      BY <2>2, <2>3, PowerNext
    <2>5. PowerOf(v, j + 1) = v * (v * x)
      BY <2>3, <2>4, PowerNext
    <2>6. PowerOf(w, m + 1) = w * x
      BY <2>2, PowerNext
    <2>7. v * (v * x) = w * x
      BY <1>0
    <2>8. 2 * (m + 1) = j + 1
      BY <2>1, <2>3
    <2> QED
      BY <2>5, <2>6, <2>7, <2>8
  <1> HIDE DEF T
  <1>3. n \in T
    BY <1>1, <1>2, NatInduct
  <1> QED
    BY <1>0, <1>3 DEF T

LEMMA Halves ==
  ASSUME NEW n \in Nat
  PROVE  \E h \in Nat : h = n \div 2 /\ (n > 0 => h < n) /\ (n % 2 = 0 \/ n % 2 = 1) /\ n = 2 * h + (n % 2)
  <1>1. n \div 2 \in Nat
    OBVIOUS
  <1>2. n = 2 * (n \div 2) + (n % 2)
    OBVIOUS
  <1>3. n % 2 = 0 \/ n % 2 = 1
    OBVIOUS
  <1>4. n > 0 => n \div 2 < n
    OBVIOUS
  <1> QED
    BY <1>1, <1>2, <1>3, <1>4

(* One round of exponentiation by squaring. *)
LEMMA PowerHalved ==
  ASSUME NEW v \in Int, NEW n \in Nat, NEW w, w = v * v, NEW h, h = n \div 2
  PROVE  /\ h \in Nat /\ (n > 0 => h < n)
         /\ n % 2 = 1 => PowerOf(v, n) = v * PowerOf(w, h)
         /\ n % 2 = 0 => PowerOf(v, n) = PowerOf(w, h)
         /\ n % 2 = 0 \/ n % 2 = 1
  <1>1. h \in Nat /\ (n > 0 => h < n) /\ (n % 2 = 0 \/ n % 2 = 1) /\ n = 2 * h + (n % 2)
    BY Halves
  <1>2. PowerOf(v, 2 * h) = PowerOf(w, h)
    BY <1>1, PowerOfSquare
  <1>3. PICK k \in Nat : k = 2 * h
    BY <1>1
  <1>4. CASE n % 2 = 1
    <2>1. n = k + 1
      BY <1>1, <1>3, <1>4
    <2>2. PowerOf(v, k + 1) = v * PowerOf(v, k)
      BY <1>3, PowerNext
    <2> QED
      BY <1>1, <1>2, <1>3, <1>4, <2>1, <2>2
  <1>5. CASE n % 2 = 0
    <2>1. n = k
      BY <1>1, <1>3, <1>5
    <2> QED
      BY <1>1, <1>2, <1>3, <1>5, <2>1
  <1> QED
    BY <1>1, <1>4, <1>5


(* What the loop keeps: result * factor ^ remaining is the power p that was
   asked for; and unless the value is one of -1, 0 and 1, the factor is at
   least 2 in size and the result is 1 or at least 2 in size, so that what
   overflows once never comes back into the range of Int. *)
PowGoes(p, r, f, n) ==
  /\ r \in Int64 /\ f \in Int64 /\ n \in Nat
  /\ r * PowerOf(f, n) = p
  /\ \/ f \in -1..1 /\ r \in -1..1
     \/ (f >= 2 \/ f <= -2) /\ (r = 1 \/ r >= 2 \/ r <= -2)

LEMMA SmallProducts ==
  ASSUME NEW a \in -1..1, NEW b \in -1..1
  PROVE  a * b \in -1..1
  <1>1. (a = -1 \/ a = 0 \/ a = 1) /\ (b = -1 \/ b = 0 \/ b = 1)
    OBVIOUS
  <1> QED
    BY <1>1

LEMMA LargeProducts ==
  ASSUME NEW a \in Int, a >= 2 \/ a <= -2, NEW b \in Int, b = 1 \/ b >= 2 \/ b <= -2, NEW c, c = b * a
  PROVE  c \in Int /\ (c >= 2 \/ c <= -2)
  <1>1. CASE b = 1
    BY <1>1
  <1>2. CASE b >= 2 /\ a >= 2
    BY <1>2
  <1>3. CASE b >= 2 /\ a <= -2
    BY <1>3
  <1>4. CASE b <= -2 /\ a >= 2
    BY <1>4
  <1>5. CASE b <= -2 /\ a <= -2
    BY <1>5
  <1> QED
    BY <1>1, <1>2, <1>3, <1>4, <1>5

(* A product with a positive number is at least as far from zero. *)
LEMMA FarProducts ==
  ASSUME NEW a \in Int, NEW b \in Nat \ {0}
  PROVE  /\ a * b \in Int
         /\ a >= 0 => a * b >= a
         /\ a <= 0 => a * b <= a
  <1>1. CASE a >= 0
    BY <1>1
  <1>2. CASE a <= 0
    <2>1. PICK k \in Nat : b = k + 1
      <3>1. b - 1 \in Nat /\ b = (b - 1) + 1
        OBVIOUS
      <3> QED
        BY <3>1
    <2>2. PICK x \in Nat : x = -a
      BY <1>2
    <2>3. x * b >= x /\ a * b = -(x * b)
      BY <2>2
    <2> QED
      BY <2>2, <2>3
  <1> QED
    BY <1>1, <1>2

(* One round of the loop, with q the next result, w the square and h the next
   number of rounds. *)
LEMMA PowRound ==
  ASSUME NEW p, NEW r, NEW f, NEW n \in Nat \ {0}, PowGoes(p, r, f, n),
         NEW h, h = n \div 2, NEW w, w = f * f, NEW q, q = IF n % 2 = 1 THEN r * f ELSE r
  PROVE  /\ h \in Nat /\ p \in Int /\ q \in Int /\ w \in Int
         /\ q \in Int64 /\ h # 0 /\ w \in Int64 => PowGoes(p, q, w, h)
         /\ q \in Int64 /\ h = 0 => PowGoes(p, q, f, h)
         /\ q \notin Int64 => p \notin Int64
         /\ h # 0 /\ w \notin Int64 => p \notin Int64
  <1>1. r \in Int /\ f \in Int /\ w \in Int /\ q \in Int
    BY Width DEF PowGoes
  <1>2. h \in Nat /\ (n % 2 = 0 \/ n % 2 = 1)
    BY <1>1, PowerHalved
  <1>3. PICK x \in Int : x = PowerOf(w, h)
    BY <1>1, <1>2, PowerInt
  <1>4. p = q * x
    <2>1. CASE n % 2 = 1
      <3>1. PowerOf(f, n) = f * x
        BY <1>1, <1>3, <2>1, PowerHalved
      <3>2. r * (f * x) = (r * f) * x
        BY <1>1
      <3> QED
        BY <2>1, <3>1, <3>2 DEF PowGoes
    <2>2. CASE n % 2 = 0
      <3>1. PowerOf(f, n) = x
        BY <1>1, <1>3, <2>2, PowerHalved
      <3> QED
        BY <2>2, <3>1 DEF PowGoes
    <2> QED
      BY <1>2, <2>1, <2>2
  <1>5. p \in Int
    BY <1>1, <1>3, <1>4
  <1>6. ASSUME h = 0 PROVE PowerOf(f, h) = 1 /\ x = 1
    BY <1>1, <1>3, <1>6, PowerZero
  <1>7. CASE f \in -1..1 /\ r \in -1..1
    <2>1. w \in -1..1 /\ q \in -1..1
      BY <1>7, SmallProducts
    <2>2. w \in Int64 /\ q \in Int64
      <3>1. \A z \in -1..1 : z \in Int64
        BY WidthAssumption DEF IntMin, Int64
      <3> QED
        BY <2>1, <3>1
    <2>3. PowGoes(p, q, w, h)
      BY <1>2, <1>3, <1>4, <2>1, <2>2 DEF PowGoes
    <2>4. h = 0 => PowGoes(p, q, f, h)
      BY <1>2, <1>3, <1>4, <1>6, <1>7, <2>1, <2>2 DEF PowGoes
    <2> QED
      BY <1>1, <1>2, <1>5, <2>2, <2>3, <2>4
  <1>8. CASE (f >= 2 \/ f <= -2) /\ (r = 1 \/ r >= 2 \/ r <= -2)
    <2>1. w \in Int /\ w >= 2
      <3>1. w >= 2 \/ w <= -2
        BY <1>1, <1>8, LargeProducts
      <3>2. w >= 0
        BY <1>1
      <3> QED
        BY <1>1, <3>1, <3>2
    <2>2. q = 1 \/ q >= 2 \/ q <= -2
      BY <1>1, <1>8, LargeProducts
    <2>3. x \in Nat \ {0}
      <3>1. w \in Nat \ {0}
        BY <2>1
      <3> QED
        BY <1>2, <1>3, <3>1, PowerPositive
    <2>4. q \in Int64 /\ h # 0 /\ w \in Int64 => PowGoes(p, q, w, h)
      BY <1>2, <1>3, <1>4, <2>1, <2>2 DEF PowGoes
    <2>5. q \in Int64 /\ h = 0 => PowGoes(p, q, f, h)
      <3>1. h = 0 => q * PowerOf(f, h) = p
        BY <1>1, <1>3, <1>4, <1>6
      <3>2. f \in Int64
        BY DEF PowGoes
      <3> QED
        BY <1>2, <1>8, <2>2, <3>1, <3>2 DEF PowGoes
    <2>6. q \notin Int64 => p \notin Int64
      <3>1. (q >= 0 => p >= q) /\ (q <= 0 => p <= q)
        BY <1>1, <1>4, <2>3, FarProducts
      <3> QED
        BY <1>1, <1>5, <3>1, WidthAssumption DEF Int64, IntMin
    <2>7. h # 0 /\ w \notin Int64 => p \notin Int64
      <3> SUFFICES ASSUME h # 0, w \notin Int64 PROVE p \notin Int64
        OBVIOUS
      <3>1. w > IntMax
        BY <2>1, WidthAssumption DEF Int64, IntMin
      <3>2. x >= w
        <4>1. w \in Nat \ {0} /\ h \in Nat \ {0}
          BY <1>2, <2>1
        <4> QED
          BY <1>3, <4>1, PowerGrows
      <3>3. CASE q >= 1
        <4>1. p = x * q /\ q \in Nat \ {0}
          BY <1>1, <1>4, <3>3
        <4>2. p >= x
          BY <2>3, <4>1, FarProducts
        <4> QED
          BY <1>5, <2>1, <3>1, <3>2, <4>2, WidthAssumption DEF Int64
      <3>4. CASE q <= -2
        <4>1. PICK y \in Nat \ {0} : y = -q
          BY <1>1, <3>4
        <4>2. y >= 2 /\ p = -(x * y)
          BY <1>1, <1>4, <3>4, <4>1
        <4>3. x * y >= 2 * x
          BY <2>3, <4>2
        <4>4. PICK z \in Int : z = x * y
          BY <2>3
        <4> QED
          BY <1>5, <2>1, <2>3, <3>1, <3>2, <4>2, <4>3, <4>4, WidthAssumption DEF Int64, IntMin
      <3> QED
        BY <1>1, <2>2, <3>3, <3>4
    <2> QED
      BY <1>1, <1>2, <1>5, <2>4, <2>5, <2>6, <2>7
  <1> QED
    BY <1>7, <1>8 DEF PowGoes


----------------------------------------------------------------------------
(* Division *)

(* Division of naturals, as the prover knows it. *)
LEMMA Shares ==
  ASSUME NEW n \in Nat, NEW m \in Nat \ {0}
  PROVE  \E k \in Nat, r \in Nat : k = n \div m /\ r = n % m /\ n = k * m + r /\ r < m /\ k <= n
  <1>1. n \div m \in Nat /\ n % m \in Nat /\ n % m < m
    OBVIOUS
  <1>2. n = m * (n \div m) + (n % m)
    OBVIOUS
  <1>3. PICK k \in Nat, r \in Nat : k = n \div m /\ r = n % m
    BY <1>1
  <1>4. n = k * m + r /\ r < m
    BY <1>1, <1>2, <1>3
  <1>5. k <= k * m
    OBVIOUS
  <1> QED
    BY <1>3, <1>4, <1>5

(* A multiple leaves nothing. *)
LEMMA Multiples ==
  ASSUME NEW z \in Int, NEW m \in Nat \ {0}
  PROVE  (z * m) % m = 0
  <1>1. PICK x \in Int : x = z * m
    OBVIOUS
  <1>2. x = m * (x \div m) + (x % m) /\ x \div m \in Int /\ x % m \in Nat /\ x % m < m
    OBVIOUS
  <1>3. PICK y \in Int, s \in Nat : y = x \div m /\ s = x % m
    BY <1>2
  <1>4. x = m * y + s /\ s < m
    BY <1>2, <1>3
  <1>5. PICK t \in Int : t = z - y
    OBVIOUS
  <1>6. s = t * m
    BY <1>1, <1>4, <1>5
  <1>7. CASE t >= 1
    <2>1. t * m >= m
      BY <1>7
    <2> QED
      BY <1>4, <1>6, <2>1
  <1>8. CASE t <= -1
    <2>1. t * m <= -m
      BY <1>8
    <2> QED
      BY <1>4, <1>6, <2>1
  <1>9. CASE t = 0
    BY <1>1, <1>3, <1>6, <1>9
  <1> QED
    BY <1>7, <1>8, <1>9

(* Quot and Rem in terms of the sizes of the operands. *)
LEMMA Truncates ==
  ASSUME NEW a \in Int, NEW b \in Int \ {0}
  PROVE  \E n \in Nat, m \in Nat \ {0}, k \in Nat, r \in Nat :
           /\ n = Abs(a) /\ m = Abs(b) /\ n = k * m + r /\ r < m /\ k <= n
           /\ Quot(a, b) = (IF (a < 0 <=> b < 0) THEN k ELSE -k)
           /\ Rem(a, b) = (IF a < 0 THEN -r ELSE r)
  <1>1. PICK n \in Nat, m \in Nat \ {0} : n = Abs(a) /\ m = Abs(b)
    <2>1. Abs(a) \in Nat /\ Abs(b) \in Nat \ {0}
      BY DEF Abs
    <2> QED
      BY <2>1
  <1>2. PICK k \in Nat, r \in Nat : k = n \div m /\ r = n % m /\ n = k * m + r /\ r < m /\ k <= n
    BY Shares
  <1>3. Quot(a, b) = (IF (a < 0 <=> b < 0) THEN k ELSE -k)
    BY <1>1, <1>2, Zenon DEF Quot
  <1>4. a >= 0 => a = n
    BY <1>1 DEF Abs
  <1>5. Rem(a, b) = (IF a < 0 THEN -r ELSE r)
    BY <1>1, <1>2, <1>4 DEF Rem
  <1> QED
    BY <1>1, <1>2, <1>3, <1>5

(* What the two answers promise of each other. *)
LEMMA RestOfDivision ==
  ASSUME NEW a \in Int, NEW b \in Int \ {0}, NEW q, q = Quot(a, b), NEW s, s = Rem(a, b)
  PROVE  /\ q \in Int /\ s \in Int
         /\ a - q * b = s
         /\ Abs(s) < Abs(b) /\ (s = 0 \/ (s < 0 <=> a < 0))
         /\ (a - s) % Abs(b) = 0
  <1>1. PICK n \in Nat, m \in Nat \ {0}, k \in Nat, r \in Nat :
           /\ n = Abs(a) /\ m = Abs(b) /\ n = k * m + r /\ r < m /\ k <= n
           /\ Quot(a, b) = (IF (a < 0 <=> b < 0) THEN k ELSE -k)
           /\ Rem(a, b) = (IF a < 0 THEN -r ELSE r)
    BY Truncates
  <1>2. q = (IF (a < 0 <=> b < 0) THEN k ELSE -k) /\ q \in Int
    BY <1>1
  <1>3. s = (IF a < 0 THEN -r ELSE r) /\ s \in Int
    BY <1>1
  <1>4. (a < 0 => a = -n) /\ (~(a < 0) => a = n) /\ (b < 0 => b = -m) /\ (~(b < 0) => b = m)
    BY <1>1 DEF Abs
  <1>5. PICK x \in Int : x = k * m
    OBVIOUS
  <1>6. q * b = IF a < 0 THEN -x ELSE x
    <2>1. (-k) * m = -x /\ k * (-m) = -x /\ (-k) * (-m) = x
      BY <1>5
    <2>2. CASE a < 0 /\ b < 0
      BY <1>2, <1>4, <1>5, <2>1, <2>2
    <2>3. CASE a < 0 /\ ~(b < 0)
      BY <1>2, <1>4, <1>5, <2>1, <2>3
    <2>4. CASE ~(a < 0) /\ b < 0
      BY <1>2, <1>4, <1>5, <2>1, <2>4
    <2>5. CASE ~(a < 0) /\ ~(b < 0)
      BY <1>2, <1>4, <1>5, <2>1, <2>5
    <2> QED
      BY <2>2, <2>3, <2>4, <2>5
  <1>7. a - q * b = s
    BY <1>1, <1>3, <1>4, <1>5, <1>6
  <1>8. Abs(s) < Abs(b)
    <2>1. Abs(s) = r
      BY <1>3 DEF Abs
    <2> QED
      BY <1>1, <2>1
  <1>9. s = 0 \/ (s < 0 <=> a < 0)
    BY <1>3
  <1>10. (a - s) % Abs(b) = 0
    <2>1. a - s = IF a < 0 THEN -x ELSE x
      BY <1>1, <1>3, <1>4, <1>5
    <2>2. PICK z \in Int : z = IF a < 0 THEN -k ELSE k
      OBVIOUS
    <2>3. a - s = z * m
      BY <1>5, <2>1, <2>2
    <2> QED
      BY <1>1, <2>2, <2>3, Multiples
  <1> QED
    BY <1>2, <1>3, <1>7, <1>8, <1>9, <1>10

(* Only one quotient of two Ints does not fit, and every remainder does. *)
LEMMA QuotientsFit ==
  ASSUME NEW a \in Int64, NEW b \in Int64 \ {0}
  PROVE  /\ Quot(a, b) \in Int64 \/ (a = IntMin /\ b = -1)
         /\ Rem(a, b) \in Int64
  <1>0. a \in Int /\ b \in Int \ {0} /\ IntMin = -IntMax - 1 /\ IntMax \in Nat
    BY Width, WidthAssumption DEF IntMin
  <1>1. PICK n \in Nat, m \in Nat \ {0}, k \in Nat, r \in Nat :
           /\ n = Abs(a) /\ m = Abs(b) /\ n = k * m + r /\ r < m /\ k <= n
           /\ Quot(a, b) = (IF (a < 0 <=> b < 0) THEN k ELSE -k)
           /\ Rem(a, b) = (IF a < 0 THEN -r ELSE r)
    BY <1>0, Truncates
  <1>2. /\ a < 0 => a = -n
        /\ ~(a < 0) => a = n
        /\ b < 0 => b = -m
        /\ ~(b < 0) => b = m
        /\ IntMin <= a /\ a <= IntMax /\ IntMin <= b /\ b <= IntMax
    BY <1>0, <1>1 DEF Abs, Int64
  <1>3. Rem(a, b) \in Int64
    BY <1>0, <1>1, <1>2 DEF Int64
  <1>4. CASE k <= IntMax
    <2>1. k \in Int64 /\ -k \in Int64
      BY <1>0, <1>4 DEF Int64
    <2> QED
      BY <1>1, <1>3, <2>1
  <1>5. CASE k > IntMax
    <2>1. k = IntMax + 1 /\ n = IntMax + 1 /\ a = IntMin
      BY <1>0, <1>1, <1>2, <1>5
    <2>2. m = 1
      <3>1. m >= 2 => k * m >= 2 * k
        OBVIOUS
      <3>2. k * m <= k
        BY <1>1, <2>1
      <3> QED
        BY <1>0, <2>1, <3>1, <3>2
    <2>3. CASE b < 0
      BY <1>2, <1>3, <2>1, <2>2, <2>3
    <2>4. CASE ~(b < 0)
      <3>1. Quot(a, b) = -k
        BY <1>0, <1>1, <2>1, <2>4
      <3> QED
        BY <1>0, <1>3, <2>1, <3>1 DEF Int64
    <2> QED
      BY <1>3, <2>3, <2>4
  <1> QED
    BY <1>0, <1>1, <1>3, <1>4, <1>5


(* IsRounded with x for the product of the sizes of the quotient and the
   divisor. *)
RoundedAt(a, b, positive, rounding, p, x) ==
  LET Toward == x <= a /\ a < x + b
      Away == x >= a /\ a > x - b
      Near == 2 * (x - a) <= b /\ 2 * (a - x) <= b
      Tie == 2 * (x - a) = b \/ 2 * (a - x) = b
  IN /\ rounding = "Down" => Toward
     /\ rounding = "Up" => Away
     /\ rounding = "Floor" => IF positive THEN Toward ELSE Away
     /\ rounding = "Ceiling" => IF positive THEN Away ELSE Toward
     /\ rounding = "HalfUp" => Near /\ (Tie => Away)
     /\ rounding = "HalfDown" => Near /\ (Tie => Toward)
     /\ rounding = "HalfEven" => Near /\ (Tie => p % 2 = 0)
     /\ rounding = "Unnecessary" => x = a

LEMMA RoundedAtIsRounded ==
  ASSUME NEW n \in Int, NEW d \in Int, NEW rounding \in Roundings, NEW q \in Int,
         NEW a \in Nat, NEW b \in Nat, NEW p \in Nat, NEW x \in Nat,
         a = Abs(n), b = Abs(d), p = Abs(q), x = p * b,
         q # 0 => ((n < 0 <=> d < 0) <=> q > 0),
         RoundedAt(a, b, n < 0 <=> d < 0, rounding, p, x)
  PROVE  IsRounded(n, d, rounding, q)
  <1>1. (p + 1) * b = x + b /\ (p - 1) * b = x - b
    OBVIOUS
  <1>2. CASE rounding = "Down"
    BY <1>1, <1>2 DEF IsRounded, RoundedAt
  <1>3. CASE rounding = "Up"
    BY <1>1, <1>3 DEF IsRounded, RoundedAt
  <1>4. CASE rounding = "Floor"
    BY <1>1, <1>4 DEF IsRounded, RoundedAt
  <1>5. CASE rounding = "Ceiling"
    BY <1>1, <1>5 DEF IsRounded, RoundedAt
  <1>6. CASE rounding = "HalfUp"
    BY <1>1, <1>6 DEF IsRounded, RoundedAt
  <1>7. CASE rounding = "HalfDown"
    BY <1>1, <1>7 DEF IsRounded, RoundedAt
  <1>8. CASE rounding = "HalfEven"
    BY <1>1, <1>8 DEF IsRounded, RoundedAt
  <1>9. CASE rounding = "Unnecessary"
    BY <1>1, <1>9 DEF IsRounded, RoundedAt
  <1> QED
    BY <1>2, <1>3, <1>4, <1>5, <1>6, <1>7, <1>8, <1>9 DEF Roundings

(* Which of the two neighbours of a quotient that is not whole is the one. *)
LEMMA TowardZero ==
  ASSUME NEW a \in Nat, NEW b \in Nat, NEW x \in Nat, NEW r \in Nat, a = x + r, r < b, NEW p \in Nat,
         NEW positive \in BOOLEAN, NEW rounding \in Roundings,
         \/ r = 0
         \/ rounding = "Down"
         \/ rounding = "Ceiling" /\ ~positive
         \/ rounding = "Floor" /\ positive
         \/ rounding = "HalfUp" /\ 2 * r < b
         \/ rounding = "HalfDown" /\ 2 * r <= b
         \/ rounding = "HalfEven" /\ 2 * r <= b /\ (2 * r = b => p % 2 = 0)
  PROVE  RoundedAt(a, b, positive, rounding, p, x)
  BY DEF RoundedAt, Roundings

LEMMA AwayFromZero ==
  ASSUME NEW a \in Nat, NEW b \in Nat, NEW x \in Nat, NEW r \in Nat, a = x + r, 0 < r, r < b, NEW p \in Nat,
         NEW positive \in BOOLEAN, NEW rounding \in Roundings,
         \/ rounding = "Up"
         \/ rounding = "Ceiling" /\ positive
         \/ rounding = "Floor" /\ ~positive
         \/ rounding = "HalfUp" /\ 2 * r >= b
         \/ rounding = "HalfDown" /\ 2 * r > b
         \/ rounding = "HalfEven" /\ 2 * r >= b /\ (2 * r = b => p % 2 = 1),
         NEW y \in Nat, y = x + b, NEW q \in Nat, q = p + 1
  PROVE  RoundedAt(a, b, positive, rounding, q, y)
  <1>1. p % 2 = 1 => q % 2 = 0
    OBVIOUS
  <1> QED
    BY <1>1 DEF RoundedAt, Roundings

(* What the rest of a division says to each mode. *)
LEMMA IncrementsByMode ==
  ASSUME NEW n, NEW d, NEW rounding, NEW r \in Nat, NEW b \in Nat, NEW k \in Nat,
         Abs(Rem(n, d)) = r, Abs(d) = b, Abs(Quot(n, d)) = k
  PROVE  /\ rounding = "Up" => Increments(n, d, rounding)
         /\ rounding = "Down" => ~Increments(n, d, rounding)
         /\ rounding = "Ceiling" => (Increments(n, d, rounding) <=> (n < 0 <=> d < 0))
         /\ rounding = "Floor" => (Increments(n, d, rounding) <=> ~(n < 0 <=> d < 0))
         /\ rounding = "HalfUp" => (Increments(n, d, rounding) <=> 2 * r >= b)
         /\ rounding = "HalfDown" => (Increments(n, d, rounding) <=> 2 * r > b)
         /\ rounding = "HalfEven" => (Increments(n, d, rounding) <=> 2 * r > b \/ (2 * r = b /\ k % 2 = 1))
  <1>1. rounding = "Up" => Increments(n, d, rounding)
    BY DEF Increments
  <1>2. rounding = "Down" => ~Increments(n, d, rounding)
    BY DEF Increments
  <1>3. rounding = "Ceiling" => (Increments(n, d, rounding) <=> (n < 0 <=> d < 0))
    BY DEF Increments
  <1>4. rounding = "Floor" => (Increments(n, d, rounding) <=> ~(n < 0 <=> d < 0))
    BY DEF Increments
  <1>5. rounding = "HalfUp" => (Increments(n, d, rounding) <=> 2 * r >= b)
    BY DEF Increments
  <1>6. rounding = "HalfDown" => (Increments(n, d, rounding) <=> 2 * r > b)
    BY DEF Increments
  <1>7. rounding = "HalfEven" => (Increments(n, d, rounding) <=> 2 * r > b \/ (2 * r = b /\ k % 2 = 1))
    BY DEF Increments
  <1> QED
    BY <1>1, <1>2, <1>3, <1>4, <1>5, <1>6, <1>7

(* A quotient is rounded as the eight modes ask for: the quotient toward zero
   when the mode does not increment it, one further from zero when it does. *)
LEMMA Rounds ==
  ASSUME NEW n \in Int, NEW d \in Int \ {0}, NEW rounding \in Roundings,
         RoundedQuot(n, d, rounding) # << >>, NEW q, q = Head(RoundedQuot(n, d, rounding))
  PROVE  q \in Int /\ IsRounded(n, d, rounding, q)
  <1>1. PICK a \in Nat, b \in Nat \ {0}, k \in Nat, r \in Nat :
           /\ a = Abs(n) /\ b = Abs(d) /\ a = k * b + r /\ r < b /\ k <= a
           /\ Quot(n, d) = (IF (n < 0 <=> d < 0) THEN k ELSE -k)
           /\ Rem(n, d) = (IF n < 0 THEN -r ELSE r)
    BY Truncates
  <1> DEFINE positive == (n < 0 <=> d < 0)
  <1>4. PICK x \in Nat : x = k * b /\ a = x + r
    BY <1>1
  <1>6. Rem(n, d) \in Int /\ (Rem(n, d) = 0 <=> r = 0) /\ Abs(Rem(n, d)) = r
    BY <1>1 DEF Abs
  <1>7. Abs(Quot(n, d)) = k
    <2>1. Abs(k) = k /\ Abs(-k) = k
      BY DEF Abs
    <2> QED
      BY <1>1, <2>1
  <1>8. b \in Nat /\ r < b /\ Abs(d) = b
    BY <1>1
  <1>9. (k % 2 = 0 \/ k % 2 = 1) /\ positive \in BOOLEAN
    OBVIOUS
  <1>10. CASE r = 0
    <2>1. q = (IF positive THEN k ELSE -k)
      BY <1>1, <1>6, <1>10 DEF RoundedQuot
    <2>2. q \in Int /\ Abs(q) = k
      BY <2>1 DEF Abs
    <2>3. q # 0 => (positive <=> q > 0)
      BY <2>1
    <2>4. RoundedAt(a, b, positive, rounding, k, x)
      BY <1>4, <1>8, <1>9, <1>10, TowardZero
    <2> QED
      BY <1>1, <1>4, <2>2, <2>3, <2>4, RoundedAtIsRounded
  <1>11. CASE r # 0 /\ ~Increments(n, d, rounding)
    <2>1. q = (IF positive THEN k ELSE -k) /\ rounding # "Unnecessary"
      BY <1>1, <1>6, <1>11 DEF RoundedQuot
    <2>2. q \in Int /\ Abs(q) = k
      BY <2>1 DEF Abs
    <2>3. q # 0 => (positive <=> q > 0)
      BY <2>1
    <2>4. \/ rounding = "Down"
          \/ rounding = "Ceiling" /\ ~positive
          \/ rounding = "Floor" /\ positive
          \/ rounding = "HalfUp" /\ 2 * r < b
          \/ rounding = "HalfDown" /\ 2 * r <= b
          \/ rounding = "HalfEven" /\ 2 * r <= b /\ (2 * r = b => k % 2 = 0)
      BY <1>6, <1>7, <1>8, <1>9, <1>11, <2>1, IncrementsByMode DEF Roundings
    <2>5. RoundedAt(a, b, positive, rounding, k, x)
      BY <1>4, <1>8, <1>9, <2>4, TowardZero
    <2> QED
      BY <1>1, <1>4, <2>2, <2>3, <2>5, RoundedAtIsRounded
  <1>12. CASE r # 0 /\ Increments(n, d, rounding)
    <2>1. q = (IF positive THEN k + 1 ELSE -k - 1) /\ rounding # "Unnecessary"
      BY <1>1, <1>6, <1>12 DEF RoundedQuot
    <2>2. q \in Int /\ Abs(q) = k + 1
      BY <2>1 DEF Abs
    <2>3. q # 0 => (positive <=> q > 0)
      BY <2>1
    <2>4. PICK p \in Nat, y \in Nat : p = k + 1 /\ y = p * b /\ y = x + b
      <3>1. (k + 1) * b = k * b + b
        BY <1>1
      <3> QED
        BY <1>4, <3>1
    <2>5. \/ rounding = "Up"
          \/ rounding = "Ceiling" /\ positive
          \/ rounding = "Floor" /\ ~positive
          \/ rounding = "HalfUp" /\ 2 * r >= b
          \/ rounding = "HalfDown" /\ 2 * r > b
          \/ rounding = "HalfEven" /\ 2 * r >= b /\ (2 * r = b => k % 2 = 1)
      BY <1>6, <1>7, <1>8, <1>9, <1>12, <2>1, IncrementsByMode DEF Roundings
    <2>6. RoundedAt(a, b, positive, rounding, p, y)
      <3>1. 0 < r
        BY <1>12
      <3> QED
        BY <1>4, <1>8, <1>9, <2>4, <2>5, <3>1, AwayFromZero
    <2> QED
      BY <1>1, <2>2, <2>3, <2>4, <2>6, RoundedAtIsRounded
  <1> QED
    BY <1>10, <1>11, <1>12


----------------------------------------------------------------------------
(* Decimals *)

LEMMA PowerIsTenTo ==
  ASSUME NEW e \in Int, Power(e) # << >>
  PROVE  e \in Nat /\ Head(Power(e)) = TenTo(e) /\ TenTo(e) \in Nat \ {0}
  <1>1. e \in 0 .. MaxAlignment
    BY DEF Power
  <1>2. e \in Nat
    BY <1>1, AlignmentAssumption
  <1>3. PICK t : t = TenTo(e)
    OBVIOUS
  <1>4. Power(e) = <<t>> /\ Head(<<t>>) = t
    BY <1>1, <1>3 DEF Power
  <1> QED
    BY <1>2, <1>3, <1>4, TenToPositive

LEMMA AlignedIsExact ==
  ASSUME NEW a, NEW b, a.coefficient \in Int, a.scale \in Int, b.coefficient \in Int, b.scale \in Int,
         Aligned(a, b) # << >>, NEW al, al = Head(Aligned(a, b))
  PROVE  /\ al.scale \in Int /\ al.left \in Int /\ al.right \in Int
         /\ al.left = At(a, al.scale) /\ al.right = At(b, al.scale)
         /\ b.coefficient # 0 => al.right # 0
  <1>1. PICK m \in Int : m = Max({a.scale, b.scale})
    <2>1. Max({a.scale, b.scale}) \in Int
      BY MaxOfTwo
    <2> QED
      BY <2>1
  <1>2. PICK l, r : l = Power(m - a.scale) /\ r = Power(m - b.scale)
    OBVIOUS
  <1>3. l # << >> /\ r # << >>
        /\ al = [left |-> a.coefficient * Head(l), right |-> b.coefficient * Head(r), scale |-> m]
    BY <1>1, <1>2 DEF Aligned
  <1>4. Head(l) = TenTo(m - a.scale) /\ Head(r) = TenTo(m - b.scale)
    BY <1>1, <1>2, <1>3, PowerIsTenTo
  <1>5. Head(l) \in Nat \ {0} /\ Head(r) \in Nat \ {0}
    BY <1>1, <1>2, <1>3, PowerIsTenTo
  <1>6. PICK x \in Nat \ {0}, y \in Nat \ {0} : x = Head(l) /\ y = Head(r)
    BY <1>5
  <1>7. al.scale = m /\ al.left = a.coefficient * x /\ al.right = b.coefficient * y
    BY <1>3, <1>6
  <1>8. al.left = At(a, m) /\ al.right = At(b, m)
    BY <1>4, <1>6, <1>7 DEF At
  <1>9. b.coefficient # 0 => b.coefficient * y # 0
    OBVIOUS
  <1> QED
    BY <1>1, <1>7, <1>8, <1>9

LEMMA AtItsOwnScale ==
  ASSUME NEW z, z.coefficient \in Int, z.scale \in Int
  PROVE  At(z, z.scale) = z.coefficient
  <1>1. PICK o : o = z.scale - z.scale
    OBVIOUS
  <1>2. o = 0 /\ TenTo(o) = 1
    <2>1. PICK v \in Int : v = 10
      OBVIOUS
    <2>2. PowerOf(v, 0) = 1
      BY PowerZero
    <2> QED
      BY <1>1, <2>1, <2>2 DEF TenTo
  <1>3. At(z, z.scale) = z.coefficient * TenTo(o)
    BY <1>1 DEF At
  <1> QED
    BY <1>2, <1>3

LEMMA AddIsExact ==
  ASSUME NEW a, NEW b, a.coefficient \in Int, a.scale \in Int, b.coefficient \in Int, b.scale \in Int,
         NEW z, z = Add(a, b), z.kind # "panic"
  PROVE  At(z, z.scale) = At(a, z.scale) + At(b, z.scale)
  <1>1. Aligned(a, b) # << >>
    BY DEF Add, LimitsExceeded, Panic
  <1>2. PICK al : al = Head(Aligned(a, b))
    OBVIOUS
  <1>3. z = Decimal(al.left + al.right, al.scale)
    BY <1>1, <1>2 DEF Add
  <1>4. z.scale = al.scale /\ z.coefficient = al.left + al.right
    BY <1>3 DEF Decimal
  <1>5. al.left \in Int /\ al.right \in Int /\ al.scale \in Int /\ al.left = At(a, al.scale) /\ al.right = At(b, al.scale)
    BY <1>1, <1>2, AlignedIsExact
  <1>6. z.coefficient \in Int /\ z.scale \in Int
    BY <1>4, <1>5
  <1> QED
    BY <1>4, <1>5, <1>6, AtItsOwnScale

LEMMA RemainderIsExact ==
  ASSUME NEW a, NEW b, a.coefficient \in Int, a.scale \in Int, b.coefficient \in Int, b.scale \in Int,
         NEW z, z = Remainder(a, b), z.kind # "panic",
         NEW n, n = At(a, z.scale), NEW d, d = At(b, z.scale)
  PROVE  Rem(n - z.coefficient, d) = 0 /\ Abs(z.coefficient) < Abs(d) /\ z.coefficient * n >= 0
  <1>1. Aligned(a, b) # << >> /\ b.coefficient # 0
    BY DEF Remainder, LimitsExceeded, Panic
  <1>2. PICK al : al = Head(Aligned(a, b))
    OBVIOUS
  <1>3. z = Decimal(Rem(al.left, al.right), al.scale)
    BY <1>1, <1>2 DEF Remainder
  <1>4. z.scale = al.scale /\ z.coefficient = Rem(al.left, al.right)
    BY <1>3 DEF Decimal
  <1>5. n = al.left /\ d = al.right /\ n \in Int /\ d \in Int \ {0}
    BY <1>1, <1>2, <1>4, AlignedIsExact
  <1>6. PICK s : s = z.coefficient
    OBVIOUS
  <1>11. s = Rem(n, d)
    BY <1>4, <1>5, <1>6, Zenon
  <1>7. s \in Int /\ Abs(s) < Abs(d) /\ (s = 0 \/ (s < 0 <=> n < 0))
    BY <1>5, <1>11, RestOfDivision
  <1>8. s * n >= 0
    <2>1. CASE s = 0
      BY <1>5, <2>1
    <2>2. CASE s < 0 /\ n < 0
      BY <1>5, <1>7, <2>2
    <2>3. CASE s > 0 /\ n >= 0
      BY <1>5, <1>7, <2>3
    <2> QED
      BY <1>5, <1>7, <2>1, <2>2, <2>3
  <1>9. Rem(n - s, d) = 0
    <2>1. PICK q : q = Quot(n, d)
      OBVIOUS
    <2>2. q \in Int /\ n - q * d = s
      BY <1>5, <1>11, <2>1, RestOfDivision
    <2>3. PICK x \in Int : x = n - s /\ x = q * d
      BY <1>5, <1>7, <2>2
    <2>4. PICK m \in Nat \ {0} : m = Abs(d) /\ (d = m \/ d = -m)
      <3>1. Abs(d) \in Nat \ {0} /\ (d = Abs(d) \/ d = -Abs(d))
        BY <1>5 DEF Abs
      <3> QED
        BY <3>1
    <2>5. PICK y \in Int : x = y * m
      <3>1. x = q * m \/ x = (-q) * m
        BY <2>2, <2>3, <2>4
      <3>2. q \in Int /\ -q \in Int
        BY <2>2
      <3> QED
        BY <3>1, <3>2
    <2>6. x % m = 0 /\ (-x) % m = 0
      <3>1. -x = (-y) * m
        BY <2>5
      <3> QED
        BY <2>5, <3>1, Multiples
    <2> QED
      BY <2>3, <2>4, <2>6 DEF Rem, Abs
  <1> QED
    BY <1>6, <1>7, <1>8, <1>9

LEMMA PanicKind ==
  ASSUME NEW z, z.kind = "decimal"
  PROVE  z # LimitsExceeded /\ \A why : z # Panic(why)
  <1>1. ASSUME NEW why PROVE z # Panic(why)
    <2>1. Panic(why).kind = "panic"
      BY DEF Panic
    <2>2. "panic" # "decimal"
      OBVIOUS
    <2> QED
      BY <2>1, <2>2, Zenon
  <1> QED
    BY <1>1, Zenon DEF LimitsExceeded

LEMMA DivideIsRounded ==
  ASSUME NEW a, NEW b, a.coefficient \in Int, a.scale \in Int, b.coefficient \in Int, b.scale \in Int,
         NEW scale \in Int, NEW rounding \in Roundings,
         NEW z, z = Divide(a, b, scale, rounding), z.kind = "decimal",
         NEW e, e = scale + b.scale - a.scale,
         NEW n, n = (IF e >= 0 THEN a.coefficient * TenTo(e) ELSE a.coefficient),
         NEW d, d = (IF e >= 0 THEN b.coefficient ELSE b.coefficient * TenTo(-e))
  PROVE  IsRounded(n, d, rounding, z.coefficient) /\ z.scale = scale
  <1>1. e \in Int /\ Abs(e) \in Int
    BY DEF Abs
  <1> DEFINE exponent == scale + b.scale - a.scale
             power == Power(Abs(exponent))
             dividend == IF exponent >= 0 THEN a.coefficient * Head(power) ELSE a.coefficient
             divisor == IF exponent >= 0 THEN b.coefficient ELSE b.coefficient * Head(power)
  <1>0. z = IF b.coefficient = 0 THEN Panic("decimal division by zero")
            ELSE IF ~ScaleFits(scale) THEN Panic("decimal scale out of range")
            ELSE IF power = << >> THEN LimitsExceeded
            ELSE IF RoundedQuot(dividend, divisor, rounding) = << >> THEN Panic("decimal rounding necessary")
            ELSE Decimal(Head(RoundedQuot(dividend, divisor, rounding)), scale)
    BY Zenon DEF Divide
  <1>2. PICK shift : shift = power /\ shift = Power(Abs(e))
    BY Zenon
  <1>3. PICK u : u = dividend /\ u = (IF e >= 0 THEN a.coefficient * Head(shift) ELSE a.coefficient)
    BY <1>2, Zenon
  <1>4. PICK v : v = divisor /\ v = (IF e >= 0 THEN b.coefficient ELSE b.coefficient * Head(shift))
    BY <1>2, Zenon
  <1> HIDE DEF exponent, power, dividend, divisor
  <1>5. PICK rounded : rounded = RoundedQuot(u, v, rounding)
    OBVIOUS
  <1>6. z = IF b.coefficient = 0 THEN Panic("decimal division by zero")
            ELSE IF ~ScaleFits(scale) THEN Panic("decimal scale out of range")
            ELSE IF shift = << >> THEN LimitsExceeded
            ELSE IF rounded = << >> THEN Panic("decimal rounding necessary")
            ELSE Decimal(Head(rounded), scale)
    BY <1>0, <1>2, <1>3, <1>4, <1>5
  <1>11. z # LimitsExceeded /\ \A why : z # Panic(why)
    BY PanicKind
  <1>7. b.coefficient # 0 /\ shift # << >> /\ rounded # << >> /\ z = Decimal(Head(rounded), scale)
    BY <1>6, <1>11
  <1>8. PICK t \in Nat \ {0} : t = Head(shift) /\ t = TenTo(Abs(e))
    BY <1>1, <1>2, <1>7, PowerIsTenTo
  <1>9. u = n /\ v = d /\ n \in Int /\ d \in Int \ {0}
    <2>1. CASE e >= 0
      <3>1. Abs(e) = e
        BY <1>1, <2>1 DEF Abs
      <3> QED
        BY <1>3, <1>4, <1>7, <1>8, <2>1, <3>1
    <2>2. CASE ~(e >= 0)
      <3>1. Abs(e) = -e
        BY <1>1, <2>2 DEF Abs
      <3>2. b.coefficient * t # 0
        BY <1>7
      <3> QED
        BY <1>3, <1>4, <1>7, <1>8, <2>2, <3>1, <3>2
    <2> QED
      BY <2>1, <2>2
  <1>10. z.coefficient = Head(rounded) /\ z.scale = scale
    BY <1>7 DEF Decimal
  <1> QED
    BY <1>5, <1>7, <1>9, <1>10, Rounds

----------------------------------------------------------------------------
(* Exact quotients, the order of the values and their keys *)

(* Powers add and are never caught up with. *)
LEMMA PowerSum ==
  ASSUME NEW v \in Int, NEW m \in Nat, NEW n \in Nat
  PROVE  PowerOf(v, m + n) = PowerOf(v, m) * PowerOf(v, n)
  <1> DEFINE T == {k \in Nat : PowerOf(v, m + k) = PowerOf(v, m) * PowerOf(v, k)}
  <1>1. PICK x \in Int : x = PowerOf(v, m)
    BY PowerInt
  <1>2. 0 \in T
    <2>1. PowerOf(v, 0) = 1
      BY PowerZero
    <2>2. PICK j : j = m + 0
      OBVIOUS
    <2>3. j = m
      BY <2>2
    <2> QED
      BY <1>1, <2>1, <2>2, <2>3
  <1>3. ASSUME NEW k \in Nat, k \in T PROVE k + 1 \in T
    <2>1. PICK y \in Int : y = PowerOf(v, k)
      BY PowerInt
    <2>2. PICK j \in Nat : j = m + k
      OBVIOUS
    <2>3. PowerOf(v, j) = x * y
      BY <1>1, <1>3, <2>1, <2>2
    <2>4. PowerOf(v, j + 1) = v * (x * y) /\ PowerOf(v, k + 1) = v * y
      BY <2>1, <2>3, PowerNext
    <2>5. v * (x * y) = x * (v * y)
      OBVIOUS
    <2>6. m + (k + 1) = j + 1
      BY <2>2
    <2> QED
      BY <1>1, <2>4, <2>5, <2>6
  <1> HIDE DEF T
  <1>4. n \in T
    BY <1>2, <1>3, NatInduct
  <1> QED
    BY <1>4 DEF T

LEMMA PowerBeyond ==
  ASSUME NEW v \in Nat, v >= 2, NEW n \in Nat
  PROVE  PowerOf(v, n) \in Nat /\ PowerOf(v, n) > n
  <1> DEFINE T == {k \in Nat : PowerOf(v, k) \in Nat /\ PowerOf(v, k) > k}
  <1>1. 0 \in T
    BY PowerZero
  <1>2. ASSUME NEW k \in Nat, k \in T PROVE k + 1 \in T
    <2>1. PICK x \in Nat : x = PowerOf(v, k) /\ x >= k + 1
      BY <1>2
    <2>2. PowerOf(v, k + 1) = v * x
      BY <2>1, PowerNext
    <2>3. v * x \in Nat /\ v * x >= 2 * x
      OBVIOUS
    <2> QED
      BY <2>1, <2>2, <2>3
  <1> HIDE DEF T
  <1>3. n \in T
    BY <1>1, <1>2, NatInduct
  <1> QED
    BY <1>3 DEF T

LEMMA TenToSum ==
  ASSUME NEW m \in Nat, NEW n \in Nat
  PROVE  TenTo(m + n) = TenTo(m) * TenTo(n)
  <1>1. PICK v \in Int : v = 10
    OBVIOUS
  <1>2. PowerOf(v, m + n) = PowerOf(v, m) * PowerOf(v, n)
    BY PowerSum
  <1> QED
    BY <1>1, <1>2, Zenon DEF TenTo

LEMMA TenToZero == TenTo(0) = 1
  <1>1. PICK v \in Int : v = 10
    OBVIOUS
  <1>2. PowerOf(v, 0) = 1
    BY PowerZero
  <1> QED
    BY <1>1, <1>2, Zenon DEF TenTo

LEMMA TenToOne == TenTo(1) = 10
  <1>1. PICK v \in Int : v = 10
    OBVIOUS
  <1>2. PowerOf(v, 0 + 1) = v * PowerOf(v, 0)
    BY PowerNext
  <1>3. PowerOf(v, 1) = 10
    BY <1>1, <1>2, PowerZero
  <1> QED
    BY <1>1, <1>3, Zenon DEF TenTo

(* More digits, a larger number. *)
LEMMA TenToLarger ==
  ASSUME NEW m \in Nat, NEW n \in Nat, m <= n
  PROVE  TenTo(m) <= TenTo(n)
  <1>1. PICK k \in Nat : n = m + k
    <2>1. n - m \in Nat /\ n = m + (n - m)
      OBVIOUS
    <2> QED
      BY <2>1
  <1>2. PICK x \in Nat \ {0}, y \in Nat \ {0} : x = TenTo(m) /\ y = TenTo(k)
    BY TenToPositive
  <1>3. TenTo(n) = x * y
    BY <1>1, <1>2, TenToSum
  <1>4. x <= x * y
    OBVIOUS
  <1> QED
    BY <1>2, <1>3, <1>4

LEMMA TenToIsTwosAndFives ==
  ASSUME NEW n \in Nat
  PROVE  TenTo(n) = PowerOf(2, n) * PowerOf(5, n)
  <1>1. PICK two \in Int, five \in Int, ten \in Int : two = 2 /\ five = 5 /\ ten = 10
    OBVIOUS
  <1> DEFINE T == {k \in Nat : PowerOf(ten, k) = PowerOf(two, k) * PowerOf(five, k)}
  <1>2. 0 \in T
    BY PowerZero
  <1>3. ASSUME NEW k \in Nat, k \in T PROVE k + 1 \in T
    <2>1. PICK x \in Int, y \in Int : x = PowerOf(two, k) /\ y = PowerOf(five, k)
      BY PowerInt
    <2>2. PowerOf(two, k + 1) = two * x /\ PowerOf(five, k + 1) = five * y /\ PowerOf(ten, k + 1) = ten * (x * y)
      BY <1>3, <2>1, PowerNext
    <2>3. 10 * (x * y) = (2 * x) * (5 * y)
      OBVIOUS
    <2> QED
      BY <1>1, <2>2, <2>3
  <1> HIDE DEF T
  <1>4. n \in T
    BY <1>2, <1>3, NatInduct
  <1>5. PowerOf(ten, n) = PowerOf(two, n) * PowerOf(five, n)
    BY <1>4 DEF T
  <1> QED
    BY <1>1, <1>5, Zenon DEF TenTo

(* What % says of divisors. *)
LEMMA Divides ==
  ASSUME NEW n \in Nat, NEW d \in Nat \ {0}
  PROVE  /\ n % d = 0 => \E x \in Nat : n = d * x
         /\ \A x \in Int : n = d * x => n % d = 0
  <1>1. PICK k \in Nat, r \in Nat : r = n % d /\ n = k * d + r
    BY Shares
  <1>2. n % d = 0 => \E x \in Nat : n = d * x
    BY <1>1
  <1>3. ASSUME NEW x \in Int, n = d * x PROVE n % d = 0
    <2>1. n = x * d
      BY <1>3
    <2> QED
      BY <2>1, Multiples
  <1> QED
    BY <1>2, <1>3

LEMMA DividesSigned ==
  ASSUME NEW n \in Int, NEW d \in Nat \ {0}
  PROVE  n % d = 0 <=> Abs(n) % d = 0
  <1>1. n = d * (n \div d) + (n % d) /\ n \div d \in Int
    OBVIOUS
  <1>2. PICK q \in Int : q = n \div d
    BY <1>1
  <1>3. Abs(n) \in Nat /\ (n = Abs(n) \/ n = -Abs(n))
    BY DEF Abs
  <1>4. PICK m \in Nat : m = Abs(n) /\ (n = m \/ n = -m)
    BY <1>3
  <1>5. n % d = 0 => m % d = 0
    <2> SUFFICES ASSUME n % d = 0 PROVE m % d = 0
      OBVIOUS
    <2>1. n = q * d
      BY <1>1, <1>2
    <2>2. PICK y \in Int : m = y * d
      <3>1. m = q * d \/ m = (-q) * d
        BY <1>4, <2>1
      <3>2. q \in Int /\ -q \in Int
        OBVIOUS
      <3> QED
        BY <3>1, <3>2
    <2> QED
      BY <2>2, Multiples
  <1>6. m % d = 0 => n % d = 0
    <2> SUFFICES ASSUME m % d = 0 PROVE n % d = 0
      OBVIOUS
    <2>1. PICK x \in Nat : m = d * x
      BY Divides
    <2>2. PICK y \in Int : n = y * d
      <3>1. n = x * d \/ n = (-x) * d
        BY <1>4, <2>1
      <3>2. x \in Int /\ -x \in Int
        OBVIOUS
      <3> QED
        BY <3>1, <3>2
    <2> QED
      BY <2>2, Multiples
  <1> QED
    BY <1>4, <1>5, <1>6

LEMMA MultiplicityIs ==
  ASSUME NEW p \in Nat, p >= 2, NEW n \in Nat \ {0}
  PROVE  \E k \in Nat : /\ k = Multiplicity(p, n)
                        /\ n % PowerOf(p, k) = 0 /\ n % PowerOf(p, k + 1) # 0
  <1> DEFINE S == {k \in Nat : n % PowerOf(p, k + 1) # 0}
  <1>1. n \in S
    <2>1. PICK x \in Nat : x = PowerOf(p, n + 1) /\ x > n + 1
      BY PowerBeyond
    <2>2. n % x = n
      BY <2>1
    <2> QED
      BY <2>1, <2>2
  <1>2. PICK k \in S : \A j \in S : k <= j
    <2>1. S \subseteq Nat /\ S # {}
      BY <1>1
    <2> HIDE DEF S
    <2> QED
      BY <2>1, NatMin
  <1>3. k \in 0 .. n /\ n % PowerOf(p, k + 1) # 0
    BY <1>1, <1>2
  <1>4. n % PowerOf(p, k) = 0
    <2>1. CASE k = 0
      BY <2>1, PowerZero
    <2>2. CASE k # 0
      <3>1. PICK j \in Nat : k = j + 1
        <4>1. k - 1 \in Nat /\ k = (k - 1) + 1
          BY <2>2
        <4> QED
          BY <4>1
      <3>2. j \notin S
        BY <1>2, <3>1
      <3> QED
        BY <3>1, <3>2
    <2> QED
      BY <2>1, <2>2
  <1> HIDE DEF S
  <1>5. PICK m : m = Multiplicity(p, n)
    OBVIOUS
  <1>6. m \in 0 .. n /\ n % PowerOf(p, m) = 0 /\ n % PowerOf(p, m + 1) # 0
    BY <1>3, <1>4, <1>5, Zenon DEF Multiplicity
  <1> QED
    BY <1>5, <1>6

(* A positive common divisor, and none is larger. *)
LEMMA GcdIs ==
  ASSUME NEW m \in Int, NEW n \in Int \ {0}
  PROVE  \E g \in Nat \ {0}, x \in Nat, y \in Nat \ {0} :
           /\ g = Gcd(m, n) /\ Abs(m) = g * x /\ Abs(n) = g * y
           /\ \A d \in Nat \ {0}, u \in Nat, w \in Nat : Abs(m) = d * u /\ Abs(n) = d * w => d <= g
  <1>1. PICK a \in Nat, b \in Nat \ {0} : a = Abs(m) /\ b = Abs(n)
    <2>1. Abs(m) \in Nat /\ Abs(n) \in Nat \ {0}
      BY DEF Abs
    <2> QED
      BY <2>1
  <1>2. ASSUME NEW d \in Nat \ {0}, NEW u \in Nat, NEW w \in Nat, b = d * w
        PROVE  d <= b
    <2>1. w # 0
      BY <1>2
    <2>2. d * w >= d
      BY <2>1
    <2> QED
      BY <1>2, <2>2
  <1>3. CASE m = 0
    <2>1. a = 0 /\ Gcd(m, n) = b
      BY <1>1, <1>3 DEF Gcd, Abs
    <2>2. a = b * 0 /\ b = b * 1
      BY <2>1
    <2> QED
      BY <1>1, <1>2, <2>1, <2>2
  <1>4. CASE m # 0
    <2>1. a # 0
      BY <1>1, <1>4 DEF Abs
    <2>2. PICK S : S = {d \in 1 .. a : m % d = 0 /\ n % d = 0}
      OBVIOUS
    <2>3. \A d \in 1 .. a : d \in S <=> a % d = 0 /\ b % d = 0
      BY <1>1, <2>2, DividesSigned
    <2>4. 1 \in S
      BY <2>1, <2>3
    <2>5. PICK g \in S : \A d \in S : g >= d
      <3>1. PICK R : R = {a - d : d \in S}
        OBVIOUS
      <3>2. R \subseteq Nat /\ R # {}
        BY <2>2, <2>4, <3>1
      <3>3. PICK r \in R : \A e \in R : r <= e
        BY <3>2, NatMin
      <3>4. PICK g \in S : r = a - g
        BY <3>1, <3>3
      <3>5. ASSUME NEW d \in S PROVE g >= d
        <4>1. a - d \in R /\ d \in Nat /\ g \in Nat
          BY <2>2, <3>1
        <4>2. a - g <= a - d
          BY <3>3, <3>4, <4>1
        <4> QED
          BY <4>1, <4>2
      <3> QED
        BY <3>5
    <2>6. PICK h : h = Max(S)
      OBVIOUS
    <2>7. h \in S /\ \A d \in S : h >= d
      BY <2>5, <2>6, Zenon DEF Max
    <2>8. Gcd(m, n) = h
      <3>1. Gcd(m, n) = Max({d \in 1 .. Abs(m) : m % d = 0 /\ n % d = 0})
        BY <1>4, Zenon DEF Gcd
      <3> QED
        BY <1>1, <2>2, <2>6, <3>1, Zenon
    <2>9. h \in Nat \ {0} /\ a % h = 0 /\ b % h = 0
      <3>1. h \in 1 .. a
        BY <2>2, <2>7
      <3>2. a % h = 0 /\ b % h = 0
        BY <2>3, <2>7, <3>1
      <3> QED
        BY <3>1, <3>2
    <2>10. PICK x \in Nat, y \in Nat : a = h * x /\ b = h * y
      BY <2>9, Divides
    <2>11. y # 0
      BY <2>9, <2>10
    <2>12. ASSUME NEW d \in Nat \ {0}, NEW u \in Nat, NEW w \in Nat, a = d * u, b = d * w
           PROVE  d <= h
      <3>1. a % d = 0 /\ b % d = 0
        BY <2>12, Divides
      <3>2. u # 0
        BY <2>1, <2>12
      <3>3. d * u >= d
        BY <3>2
      <3>4. d \in 1 .. a
        BY <2>12, <3>3
      <3>5. d \in S
        BY <2>3, <3>1, <3>4
      <3> QED
        BY <2>7, <2>9, <3>5
    <2> QED
      BY <1>1, <2>8, <2>9, <2>10, <2>11, <2>12
  <1> QED
    BY <1>3, <1>4

(* A factor two or five of a product is one of a factor. *)
LEMMA TwoInFactor ==
  ASSUME NEW r \in Nat, r % 2 # 0, NEW x \in Nat, NEW y \in Nat, r * x = 2 * y
  PROVE  \E z \in Nat : x = 2 * z
  <1>1. PICK i \in Nat, j \in Nat : r = 2 * i + 1 /\ (x = 2 * j \/ x = 2 * j + 1)
    <2>1. r \div 2 \in Nat /\ r % 2 = 1 /\ r = 2 * (r \div 2) + (r % 2)
      OBVIOUS
    <2>2. x \div 2 \in Nat /\ x % 2 \in {0, 1} /\ x = 2 * (x \div 2) + (x % 2)
      OBVIOUS
    <2> QED
      BY <2>1, <2>2
  <1>2. CASE x = 2 * j + 1
    <2>1. (2 * i + 1) * (2 * j + 1) = 2 * (2 * i * j + i + j) + 1
      OBVIOUS
    <2>2. PICK k \in Nat : k = 2 * i * j + i + j
      OBVIOUS
    <2>3. 2 * y = 2 * k + 1
      BY <1>1, <1>2, <2>1, <2>2
    <2> QED
      BY <2>3
  <1> QED
    BY <1>1, <1>2

LEMMA FiveInFactor ==
  ASSUME NEW r \in Nat, r % 5 # 0, NEW x \in Nat, NEW y \in Nat, r * x = 5 * y
  PROVE  \E z \in Nat : x = 5 * z
  <1>1. PICK i \in Nat, s \in 1 .. 4 : r = 5 * i + s
    <2>1. r \div 5 \in Nat /\ r % 5 \in 1 .. 4 /\ r = 5 * (r \div 5) + (r % 5)
      OBVIOUS
    <2> QED
      BY <2>1
  <1>2. PICK j \in Nat, t \in 0 .. 4 : x = 5 * j + t
    <2>1. x \div 5 \in Nat /\ x % 5 \in 0 .. 4 /\ x = 5 * (x \div 5) + (x % 5)
      OBVIOUS
    <2> QED
      BY <2>1
  <1>3. (5 * i + s) * (5 * j + t) = 5 * (5 * i * j + i * t + s * j) + s * t
    OBVIOUS
  <1>4. PICK k \in Nat, st \in Nat : k = 5 * i * j + i * t + s * j /\ st = s * t
    OBVIOUS
  <1>5. 5 * y = 5 * k + st
    BY <1>1, <1>2, <1>3, <1>4
  <1>6. st \in 0 .. 16 /\ (t # 0 => st \in {1, 2, 3, 4, 6, 8, 9, 12, 16})
    <2>1. s \in {1, 2, 3, 4} /\ t \in {0, 1, 2, 3, 4}
      OBVIOUS
    <2> QED
      BY <1>4, <2>1
  <1>7. t = 0
    BY <1>5, <1>6
  <1> QED
    BY <1>2, <1>7

PrimeIn(p, r) == \A x, y \in Nat : r * x = p * y => \E z \in Nat : x = p * z

LEMMA TwoPrime ==
  ASSUME NEW r \in Nat, r % 2 # 0
  PROVE  PrimeIn(2, r)
  BY TwoInFactor DEF PrimeIn

LEMMA FivePrime ==
  ASSUME NEW r \in Nat, r % 5 # 0
  PROVE  PrimeIn(5, r)
  BY FiveInFactor DEF PrimeIn

(* So is a power of it. *)
Cancels(r, q) == \A x, y \in Nat : r * x = q * y => \E z \in Nat : x = q * z /\ r * z = y

LEMMA PowersInFactor ==
  ASSUME NEW p \in Nat \ {0}, NEW r \in Nat, PrimeIn(p, r), NEW k \in Nat
  PROVE  Cancels(r, PowerOf(p, k))
  <1> DEFINE T == {n \in Nat : Cancels(r, PowerOf(p, n))}
  <1>1. 0 \in T
    <2>1. PowerOf(p, 0) = 1
      BY PowerZero
    <2>2. ASSUME NEW u \in Nat, NEW w \in Nat, r * u = 1 * w PROVE u = 1 * u /\ r * u = w
      BY <2>2
    <2>3. Cancels(r, 1)
      BY <2>2 DEF Cancels
    <2> QED
      BY <2>1, <2>3
  <1>2. ASSUME NEW n \in Nat, n \in T PROVE n + 1 \in T
    <2>1. PICK q \in Nat : q = PowerOf(p, n)
      BY PowerPositive
    <2>2. PowerOf(p, n + 1) = p * q
      BY <2>1, PowerNext
    <2>3. Cancels(r, q)
      BY <1>2, <2>1
    <2>4. ASSUME NEW u \in Nat, NEW w \in Nat, r * u = (p * q) * w
          PROVE  \E z \in Nat : u = (p * q) * z /\ r * z = w
      <3>1. PICK v \in Nat : v = q * w
        OBVIOUS
      <3>2. r * u = p * v
        BY <2>4, <3>1
      <3>3. PICK u1 \in Nat : u = p * u1
        BY <3>2 DEF PrimeIn
      <3>4. r * u1 = q * w
        <4>1. p * (r * u1) = p * v
          BY <3>2, <3>3
        <4>2. PICK ru \in Nat : ru = r * u1
          OBVIOUS
        <4>3. ru = v
          BY <4>1, <4>2
        <4> QED
          BY <3>1, <4>2, <4>3
      <3>5. PICK z \in Nat : u1 = q * z /\ r * z = w
        BY <2>3, <3>4, Zenon DEF Cancels
      <3>6. u = (p * q) * z
        BY <3>3, <3>5
      <3> QED
        BY <3>5, <3>6
    <2>5. Cancels(r, p * q)
      BY <2>4, Zenon DEF Cancels
    <2> QED
      BY <2>2, <2>5
  <1> HIDE DEF T
  <1>3. k \in T
    BY <1>1, <1>2, NatInduct
  <1> QED
    BY <1>3 DEF T

Coprime(n, y) == \A d \in Nat \ {0}, u \in Nat, w \in Nat : n = d * u /\ y = d * w => d = 1

(* The quotient of Div, in lowest terms. *)
Lowest(a, b, N, g, y) ==
  /\ N * g = Sign(b.coefficient) * a.coefficient /\ Abs(b.coefficient) = y * g
  /\ Coprime(Abs(N), y)

DivBy(a, b, N, y) ==
  IF y # PowerOf(2, Multiplicity(2, y)) * PowerOf(5, Multiplicity(5, y)) THEN Panic("non-terminating decimal division")
  ELSE IF ExtraDigits(y) > MaxAlignment THEN LimitsExceeded
  ELSE IF ~ScaleFits(a.scale - b.scale + ExtraDigits(y)) THEN Panic("decimal scale out of range")
  ELSE Decimal((N * TenTo(ExtraDigits(y))) \div y, a.scale - b.scale + ExtraDigits(y))

LEMMA DivIs ==
  ASSUME NEW a, NEW b, a.coefficient \in Int, a.scale \in Int, b.coefficient \in Int \ {0}, b.scale \in Int
  PROVE  \E N \in Int, g \in Nat \ {0}, y \in Nat \ {0} : Lowest(a, b, N, g, y) /\ Div(a, b) = DivBy(a, b, N, y)
  <1>1. PICK m \in Int, n \in Int \ {0} : m = a.coefficient /\ n = b.coefficient
    OBVIOUS
  <1>2. PICK g \in Nat \ {0}, x \in Nat, y \in Nat \ {0} :
           /\ g = Gcd(m, n) /\ Abs(m) = g * x /\ Abs(n) = g * y
           /\ \A d \in Nat \ {0}, u \in Nat, w \in Nat : Abs(m) = d * u /\ Abs(n) = d * w => d <= g
    BY GcdIs
  <1>3. PICK s \in {-1, 1} : s = Sign(n) /\ Abs(n) = s * n
    <2>1. Sign(n) \in {-1, 1} /\ Abs(n) = Sign(n) * n
      BY DEF Sign, Abs
    <2> QED
      BY <2>1
  <1>4. PICK k \in Int : k = Quot(m, g) /\ m = k * g /\ Abs(k) = x
    <2>1. Abs(g) = g /\ ~(g < 0)
      BY DEF Abs
    <2>2. PICK h \in Nat : h = Abs(m) \div g
      <3>1. Abs(m) \in Nat
        BY DEF Abs
      <3> QED
        BY <3>1
    <2>3. h = x
      <3>1. PICK z \in Nat : z = Abs(m) /\ z = x * g
        BY <1>2
      <3>2. z % g = 0 /\ z = g * (z \div g) + (z % g)
        BY <3>1, Multiples
      <3>3. g * h = g * x
        BY <2>2, <3>1, <3>2
      <3> QED
        BY <3>3
    <2>4. Quot(m, g) = (IF m < 0 THEN -x ELSE x)
      BY <2>1, <2>2, <2>3, Zenon DEF Quot
    <2>5. m = (IF m < 0 THEN -x ELSE x) * g
      BY <1>2 DEF Abs
    <2>6. Abs(IF m < 0 THEN -x ELSE x) = x
      <3>1. m < 0 => Abs(-x) = x
        BY DEF Abs
      <3>2. Abs(x) = x
        BY DEF Abs
      <3> QED
        BY <3>1, <3>2
    <2> QED
      BY <2>4, <2>5, <2>6
  <1>5. Abs(n) \div g = y
    <2>1. PICK z \in Nat : z = Abs(n) /\ z = y * g
      BY <1>2
    <2>2. z % g = 0 /\ z = g * (z \div g) + (z % g) /\ z \div g \in Nat
      BY <2>1, Multiples
    <2>3. PICK h \in Nat : h = z \div g
      BY <2>2
    <2>4. g * h = g * y
      BY <2>1, <2>2, <2>3
    <2>5. h = y
      BY <2>4
    <2> QED
      BY <2>1, <2>3, <2>5
  <1>6. PICK N \in Int : N = s * k
    OBVIOUS
  <1>7. N * g = s * m /\ Abs(N) = x
    <2>1. N * g = s * m
      <3>1. (s * k) * g = s * (k * g)
        OBVIOUS
      <3> QED
        BY <1>4, <1>6, <3>1
    <2>2. N = k \/ N = -k
      BY <1>6
    <2>3. Abs(N) = Abs(k)
      BY <2>2 DEF Abs
    <2> QED
      BY <1>4, <2>1, <2>3
  <1>8. ASSUME NEW d \in Nat \ {0}, NEW u \in Nat, NEW w \in Nat, x = d * u, y = d * w
        PROVE  d = 1
    <2>1. PICK e \in Nat \ {0} : e = g * d
      OBVIOUS
    <2>2. g * x = e * u /\ g * y = e * w
      BY <1>8, <2>1
    <2>3. e <= g
      BY <1>2, <2>2
    <2> QED
      BY <2>1, <2>3
  <1>9. Lowest(a, b, N, g, y)
    <2>1. Abs(n) = y * g
      BY <1>2
    <2>2. Coprime(x, y)
      BY <1>8, Zenon DEF Coprime
    <2> QED
      BY <1>1, <1>3, <1>7, <2>1, <2>2, Zenon DEF Lowest
  <1>10. Div(a, b) = DivBy(a, b, N, y)
    <2>1. Sign(b.coefficient) * Quot(a.coefficient, Gcd(a.coefficient, b.coefficient)) = N
      BY <1>1, <1>2, <1>3, <1>4, <1>6
    <2>2. Abs(b.coefficient) \div Gcd(a.coefficient, b.coefficient) = y
      BY <1>1, <1>2, <1>5
    <2> QED
      BY <2>1, <2>2, Zenon DEF Div, DivBy
  <1> QED
    BY <1>9, <1>10

LEMMA ExtraDigitsAre ==
  ASSUME NEW y \in Nat \ {0}
  PROVE  \E t \in Nat, f \in Nat, e \in Nat :
           /\ t = Multiplicity(2, y) /\ f = Multiplicity(5, y) /\ e = ExtraDigits(y)
           /\ t <= e /\ f <= e
           /\ y % PowerOf(2, t) = 0 /\ y % PowerOf(2, t + 1) # 0
           /\ y % PowerOf(5, f) = 0 /\ y % PowerOf(5, f + 1) # 0
  <1>0. PICK two \in Nat, five \in Nat : two = 2 /\ five = 5
    OBVIOUS
  <1>7. two >= 2 /\ five >= 2
    BY <1>0
  <1>1. PICK t \in Nat : t = Multiplicity(2, y) /\ y % PowerOf(2, t) = 0 /\ y % PowerOf(2, t + 1) # 0
    <2>1. \E t \in Nat : t = Multiplicity(two, y) /\ y % PowerOf(two, t) = 0 /\ y % PowerOf(two, t + 1) # 0
      BY <1>7, MultiplicityIs
    <2> QED
      BY <1>0, <2>1
  <1>2. PICK f \in Nat : f = Multiplicity(5, y) /\ y % PowerOf(5, f) = 0 /\ y % PowerOf(5, f + 1) # 0
    <2>1. \E f \in Nat : f = Multiplicity(five, y) /\ y % PowerOf(five, f) = 0 /\ y % PowerOf(five, f + 1) # 0
      BY <1>7, MultiplicityIs
    <2> QED
      BY <1>0, <2>1
  <1>3. PICK e : e = Max({t, f})
    OBVIOUS
  <1>4. e = (IF t >= f THEN t ELSE f)
    BY <1>3, MaxOfTwo
  <1>5. e = ExtraDigits(y)
    BY <1>1, <1>2, <1>3, Zenon DEF ExtraDigits
  <1>6. e \in Nat /\ t <= e /\ f <= e
    BY <1>4
  <1> QED
    BY <1>1, <1>2, <1>5, <1>6

(* A divisor of twos and fives divides a power of ten large enough. *)
LEMMA TwosAndFivesDivide ==
  ASSUME NEW t \in Nat, NEW f \in Nat, NEW e \in Nat, t <= e, f <= e,
         NEW y, y = PowerOf(2, t) * PowerOf(5, f)
  PROVE  \E w \in Nat : TenTo(e) = y * w
  <1>1. PICK i \in Nat, j \in Nat : e = t + i /\ e = f + j
    <2>1. e - t \in Nat /\ e - f \in Nat /\ e = t + (e - t) /\ e = f + (e - f)
      OBVIOUS
    <2> QED
      BY <2>1
  <1>2. PICK two \in Nat \ {0}, five \in Nat \ {0} : two = 2 /\ five = 5
    OBVIOUS
  <1>3. PICK a \in Nat, b \in Nat, c \in Nat, d \in Nat :
          a = PowerOf(two, t) /\ b = PowerOf(two, i) /\ c = PowerOf(five, f) /\ d = PowerOf(five, j)
    BY PowerPositive
  <1>4. PowerOf(two, e) = a * b /\ PowerOf(five, e) = c * d
    <2>1. PowerOf(two, t + i) = a * b
      BY <1>3, PowerSum
    <2>2. PowerOf(five, f + j) = c * d
      BY <1>3, PowerSum
    <2> QED
      BY <1>1, <2>1, <2>2
  <1>5. TenTo(e) = (a * b) * (c * d)
    BY <1>2, <1>4, TenToIsTwosAndFives
  <1>6. (a * b) * (c * d) = (a * c) * (b * d) /\ b * d \in Nat
    OBVIOUS
  <1>7. y = a * c
    BY <1>2, <1>3
  <1> QED
    BY <1>5, <1>6, <1>7

LEMMA SignOfZero == Sign(0) = 0
  BY DEF Sign

LEMMA ExactQuotients ==
  ASSUME NEW a, NEW b, a.coefficient \in Int, a.scale \in Int, b.coefficient \in Int \ {0}, b.scale \in Int,
         NEW z, z = Div(a, b), z.kind = "decimal"
  PROVE  ValueOrder(Product(z, b), a) = 0
  <1>1. PICK N \in Int, g \in Nat \ {0}, y \in Nat \ {0} : Lowest(a, b, N, g, y) /\ z = DivBy(a, b, N, y)
    BY DivIs
  <1>2. PICK t \in Nat, f \in Nat, e \in Nat :
           t = Multiplicity(2, y) /\ f = Multiplicity(5, y) /\ e = ExtraDigits(y) /\ t <= e /\ f <= e
    BY ExtraDigitsAre
  <1>3. PICK v : v = (N * TenTo(e)) \div y
    OBVIOUS
  <1>4. y = PowerOf(2, t) * PowerOf(5, f) /\ z = Decimal(v, a.scale - b.scale + e)
    <2>1. z # LimitsExceeded /\ \A why : z # Panic(why)
      BY PanicKind
    <2> QED
      BY <1>1, <1>2, <1>3, <2>1, Zenon DEF DivBy
  <1>5. PICK w \in Nat : TenTo(e) = y * w
    BY <1>2, <1>4, TwosAndFivesDivide
  <1>6. v \in Int /\ v = N * w
    <2>1. PICK r \in Int : r = N * TenTo(e) /\ r = (N * w) * y
      BY <1>5
    <2>2. r % y = 0
      <3>1. PICK x \in Int : x = N * w
        OBVIOUS
      <3>2. r = x * y
        BY <2>1, <3>1
      <3> QED
        BY <3>2, Multiples
    <2>3. r = y * (r \div y) + (r % y) /\ r \div y \in Int
      OBVIOUS
    <2>4. PICK q \in Int : q = r \div y
      BY <2>3
    <2>5. y * q = (N * w) * y
      BY <2>1, <2>2, <2>3, <2>4
    <2>6. q = N * w
      <3>1. PICK nw \in Int : nw = N * w
        OBVIOUS
      <3>2. y * q = y * nw
        BY <2>5, <3>1
      <3>3. q = nw
        BY <3>2
      <3> QED
        BY <3>1, <3>3
    <2> QED
      BY <1>3, <2>1, <2>4, <2>6
  <1>7. PICK m \in Int, n \in Int \ {0}, s \in {-1, 1} :
          m = a.coefficient /\ n = b.coefficient /\ s = Sign(n) /\ Abs(n) = s * n
    <2>1. Sign(b.coefficient) \in {-1, 1} /\ Abs(b.coefficient) = Sign(b.coefficient) * b.coefficient
      BY DEF Sign, Abs
    <2> QED
      BY <2>1
  <1>8. N * g = s * m /\ s * n = y * g
    BY <1>1, <1>7, Zenon DEF Lowest
  <1>9. PICK T \in Nat : T = TenTo(e) /\ T = y * w
    BY <1>5
  <1>10. v * n = m * T
    <2>1. (N * w) * (y * g) = (N * g) * (y * w)
      OBVIOUS
    <2>2. (N * w) * (s * n) = (s * m) * T
      BY <1>8, <1>9, <2>1
    <2>3. v * (s * n) = (s * m) * T
      BY <1>6, <2>2
    <2>4. CASE s = 1
      BY <1>6, <2>3, <2>4
    <2>5. CASE s = -1
      <3>1. v * (-n) = (-m) * T
        BY <1>6, <2>3, <2>5
      <3>2. v * (-n) = -(v * n) /\ (-m) * T = -(m * T) /\ v * n \in Int /\ m * T \in Int
        BY <1>6
      <3> QED
        BY <3>1, <3>2
    <2> QED
      BY <2>4, <2>5
  <1>11. PICK P : P = Product(z, b)
    OBVIOUS
  <1>12. z.coefficient = v /\ z.scale = a.scale - b.scale + e
    BY <1>4 DEF Decimal
  <1>13. P.coefficient = v * n /\ P.scale = a.scale + e
    <2>1. P.coefficient = z.coefficient * b.coefficient /\ P.scale = z.scale + b.scale
      BY <1>11 DEF Product, Decimal
    <2>2. P.coefficient = v * n
      BY <1>7, <1>12, <2>1
    <2>3. P.scale = a.scale + e
      BY <1>12, <2>1
    <2> QED
      BY <2>2, <2>3
  <1>14. PICK c : c = Max({P.scale, a.scale})
    OBVIOUS
  <1>15. c = P.scale /\ c \in Int /\ c - a.scale = e
    BY <1>13, <1>14, MaxOfTwo
  <1>16. v * n \in Int
    BY <1>6
  <1>17. At(P, c) = v * n
    BY <1>13, <1>15, <1>16, AtItsOwnScale
  <1>18. At(a, c) = m * T
    BY <1>7, <1>9, <1>15, Zenon DEF At
  <1>19. At(P, c) - At(a, c) = 0
    BY <1>10, <1>16, <1>17, <1>18
  <1> QED
    BY <1>11, <1>14, <1>19, SignOfZero, Zenon DEF ValueOrder

LEMMA FivesOdd ==
  ASSUME NEW n \in Nat
  PROVE  PowerOf(5, n) \in Nat \ {0} /\ PowerOf(5, n) % 2 # 0
  <1>1. PICK five \in Nat \ {0} : five = 5
    OBVIOUS
  <1> DEFINE T == {k \in Nat : \E j \in Nat : PowerOf(five, k) = 2 * j + 1}
  <1>2. 0 \in T
    <2>1. PowerOf(five, 0) = 2 * 0 + 1
      BY PowerZero
    <2> QED
      BY <2>1
  <1>3. ASSUME NEW k \in Nat, k \in T PROVE k + 1 \in T
    <2>1. PICK j \in Nat : PowerOf(five, k) = 2 * j + 1
      BY <1>3
    <2>2. PowerOf(five, k + 1) = five * (2 * j + 1)
      BY <2>1, PowerNext
    <2>3. PICK i \in Nat : i = 5 * j + 2
      OBVIOUS
    <2>4. PowerOf(five, k + 1) = 2 * i + 1
      BY <1>1, <2>2, <2>3
    <2> QED
      BY <2>4
  <1> HIDE DEF T
  <1>4. n \in T
    BY <1>2, <1>3, NatInduct
  <1>5. PICK j \in Nat : PowerOf(five, n) = 2 * j + 1
    BY <1>4 DEF T
  <1>6. PowerOf(5, n) = 2 * j + 1
    BY <1>1, <1>5
  <1> QED
    BY <1>6

(* What is left of a number without its twos and fives. *)
LEMMA TwosAndFivesAside ==
  ASSUME NEW y \in Nat \ {0}
  PROVE  \E r \in Nat \ {0} : /\ r % 2 # 0 /\ r % 5 # 0
                              /\ y = (PowerOf(2, Multiplicity(2, y)) * PowerOf(5, Multiplicity(5, y))) * r
  <1>1. PICK t \in Nat, f \in Nat :
           /\ t = Multiplicity(2, y) /\ f = Multiplicity(5, y)
           /\ y % PowerOf(2, t) = 0 /\ y % PowerOf(2, t + 1) # 0
           /\ y % PowerOf(5, f) = 0 /\ y % PowerOf(5, f + 1) # 0
    BY ExtraDigitsAre
  <1>2. PICK two \in Nat \ {0}, five \in Nat \ {0} : two = 2 /\ five = 5
    OBVIOUS
  <1>3. PICK a \in Nat \ {0}, b \in Nat \ {0} : a = PowerOf(two, t) /\ b = PowerOf(five, f)
    BY PowerPositive
  <1>4. PowerOf(two, t + 1) = two * a /\ PowerOf(five, f + 1) = five * b
    BY <1>3, PowerNext
  <1>5. y % a = 0 /\ y % b = 0 /\ y % (2 * a) # 0 /\ y % (5 * b) # 0
    BY <1>1, <1>2, <1>3, <1>4
  <1>16. \E u \in Nat : y = a * u
    BY <1>5, Divides
  <1>17. \E v \in Nat : y = b * v
    BY <1>5, Divides
  <1>6. PICK u \in Nat, v \in Nat : y = a * u /\ y = b * v
    BY <1>16, <1>17
  <1>7. PrimeIn(two, b)
    BY <1>2, <1>3, FivesOdd, TwoPrime
  <1>8. Cancels(b, a)
    BY <1>3, <1>7, PowersInFactor
  <1>9. b * v = a * u
    BY <1>6
  <1>10. PICK r \in Nat : v = a * r /\ b * r = u
    BY <1>8, <1>9, Zenon DEF Cancels
  <1>11. y = (a * b) * r
    BY <1>6, <1>10
  <1>12. r # 0
    BY <1>11
  <1>13. r % 2 # 0
    <2> SUFFICES ASSUME r % 2 = 0 PROVE FALSE
      OBVIOUS
    <2>1. PICK x \in Nat : r = 2 * x
      OBVIOUS
    <2>2. y = (2 * a) * (b * x) /\ b * x \in Int /\ 2 * a \in Nat \ {0}
      BY <1>11, <2>1
    <2> QED
      BY <1>5, <2>2, Divides
  <1>14. r % 5 # 0
    <2> SUFFICES ASSUME r % 5 = 0 PROVE FALSE
      OBVIOUS
    <2>1. PICK x \in Nat : r = 5 * x
      OBVIOUS
    <2>2. y = (5 * b) * (a * x) /\ a * x \in Int /\ 5 * b \in Nat \ {0}
      BY <1>11, <2>1
    <2> QED
      BY <1>5, <2>2, Divides
  <1>15. y = (PowerOf(2, Multiplicity(2, y)) * PowerOf(5, Multiplicity(5, y))) * r
    BY <1>1, <1>2, <1>3, <1>11
  <1>18. r \in Nat \ {0}
    BY <1>12
  <1> QED
    BY <1>13, <1>14, <1>15, <1>18, Zenon

(* Numbers without a common divisor: one divides a power of ten times the
   other only if it has no factors but two and five. *)
LEMMA OnlyTwosAndFives ==
  ASSUME NEW n \in Nat, NEW y \in Nat \ {0}, NEW k \in Nat, NEW q \in Nat, n * TenTo(k) = y * q, Coprime(n, y)
  PROVE  y = PowerOf(2, Multiplicity(2, y)) * PowerOf(5, Multiplicity(5, y))
  <1>1. PICK c : c = PowerOf(2, Multiplicity(2, y)) * PowerOf(5, Multiplicity(5, y))
    OBVIOUS
  <1>14. \E r \in Nat \ {0} : /\ r % 2 # 0 /\ r % 5 # 0
                              /\ y = (PowerOf(2, Multiplicity(2, y)) * PowerOf(5, Multiplicity(5, y))) * r
    BY TwosAndFivesAside, Zenon
  <1>2. PICK r \in Nat \ {0} : r % 2 # 0 /\ r % 5 # 0 /\ y = c * r
    BY <1>1, <1>14, Zenon
  <1>3. c \in Nat
    <2>1. PICK t \in Nat, f \in Nat : t = Multiplicity(2, y) /\ f = Multiplicity(5, y)
      BY ExtraDigitsAre
    <2>2. PICK two \in Nat \ {0}, five \in Nat \ {0} : two = 2 /\ five = 5
      OBVIOUS
    <2>3. PICK a \in Nat, b \in Nat : a = PowerOf(two, t) /\ b = PowerOf(five, f)
      BY PowerPositive
    <2>4. c = a * b
      BY <1>1, <2>1, <2>2, <2>3
    <2> QED
      BY <2>3, <2>4
  <1>4. PICK two \in Nat \ {0}, five \in Nat \ {0} : two = 2 /\ five = 5
    OBVIOUS
  <1>5. PICK A \in Nat, B \in Nat : A = PowerOf(two, k) /\ B = PowerOf(five, k)
    BY PowerPositive
  <1>6. TenTo(k) = A * B
    BY <1>4, <1>5, TenToIsTwosAndFives
  <1>7. Cancels(r, A) /\ Cancels(r, B)
    <2>1. PrimeIn(two, r) /\ PrimeIn(five, r)
      BY <1>2, <1>4, TwoPrime, FivePrime
    <2>2. Cancels(r, PowerOf(two, k)) /\ Cancels(r, PowerOf(five, k))
      BY <2>1, PowersInFactor
    <2> QED
      BY <1>5, <2>2
  <1>8. PICK cq \in Nat, Bn \in Nat : cq = c * q /\ Bn = B * n
    BY <1>3
  <1>9. r * cq = A * Bn
    <2>1. n * (A * B) = (c * r) * q
      BY <1>2, <1>6
    <2>2. n * (A * B) = A * (B * n) /\ (c * r) * q = r * (c * q)
      BY <1>3
    <2> QED
      BY <1>8, <2>1, <2>2
  <1>15. PICK z \in Nat : cq = A * z /\ r * z = Bn
    <2>1. \A u, w \in Nat : r * u = A * w => \E z \in Nat : u = A * z /\ r * z = w
      BY <1>7, Zenon DEF Cancels
    <2>2. r * cq = A * Bn => \E z \in Nat : cq = A * z /\ r * z = Bn
      BY <2>1, Zenon
    <2>3. \E z \in Nat : cq = A * z /\ r * z = Bn
      BY <1>9, <2>2, Zenon
    <2> QED
      BY <2>3, Zenon
  <1>10. r * z = B * n
    BY <1>8, <1>15
  <1>11. PICK x \in Nat : z = B * x /\ r * x = n
    <2>1. \A u, w \in Nat : r * u = B * w => \E x \in Nat : u = B * x /\ r * x = w
      BY <1>7, Zenon DEF Cancels
    <2>2. r * z = B * n => \E x \in Nat : z = B * x /\ r * x = n
      BY <2>1, Zenon
    <2>3. \E x \in Nat : z = B * x /\ r * x = n
      BY <1>10, <2>2, Zenon
    <2> QED
      BY <2>3, Zenon
  <1>12. n = r * x /\ y = r * c
    BY <1>2, <1>3, <1>11
  <1>13. r = 1
    BY <1>3, <1>12 DEF Coprime
  <1> QED
    BY <1>1, <1>2, <1>3, <1>13

Endless == Panic("non-terminating decimal division")

LEMMA PanicsDiffer ==
  /\ Endless # LimitsExceeded /\ Endless # Panic("decimal scale out of range")
  /\ \A c, s : Endless # Decimal(c, s)
  BY DEF Endless, Panic, LimitsExceeded, Decimal

LEMMA InexactQuotients ==
  ASSUME NEW a, NEW b, a.coefficient \in Int, a.scale \in Int, b.coefficient \in Int \ {0}, b.scale \in Int,
         Div(a, b) = Endless, NEW k \in Nat
  PROVE  Rem(a.coefficient * TenTo(k), b.coefficient) # 0
  <1>1. PICK N \in Int, g \in Nat \ {0}, y \in Nat \ {0} : Lowest(a, b, N, g, y) /\ Div(a, b) = DivBy(a, b, N, y)
    BY DivIs
  <1>2. y # PowerOf(2, Multiplicity(2, y)) * PowerOf(5, Multiplicity(5, y))
    BY <1>1, PanicsDiffer, Zenon DEF DivBy
  <1>3. PICK m \in Int, n \in Int \ {0}, s \in {-1, 1} :
          m = a.coefficient /\ n = b.coefficient /\ s = Sign(n) /\ Abs(n) = s * n
    <2>1. Sign(b.coefficient) \in {-1, 1} /\ Abs(b.coefficient) = Sign(b.coefficient) * b.coefficient
      BY DEF Sign, Abs
    <2> QED
      BY <2>1
  <1>4. N * g = s * m /\ s * n = y * g
    BY <1>1, <1>3, Zenon DEF Lowest
  <1>5. PICK T \in Nat \ {0} : T = TenTo(k)
    BY TenToPositive
  <1> SUFFICES ASSUME Rem(m * T, n) = 0 PROVE FALSE
    BY <1>3, <1>5
  <1>6. PICK q \in Int : m * T = q * n
    <2>1. PICK M \in Int : M = m * T
      OBVIOUS
    <2>2. PICK q, z : q = Quot(M, n) /\ z = Rem(M, n)
      OBVIOUS
    <2>3. q \in Int /\ M - q * n = z
      BY <2>2, RestOfDivision
    <2>4. z = 0
      BY <2>1, <2>2
    <2>5. M = q * n
      BY <2>3, <2>4
    <2> QED
      BY <2>1, <2>3, <2>5
  <1>7. N * T = q * y
    <2>1. (s * m) * T = q * (s * n)
      BY <1>6
    <2>2. (N * g) * T = q * (y * g)
      BY <1>4, <2>1
    <2>3. PICK X \in Int, Y \in Int : X = N * T /\ Y = q * y
      OBVIOUS
    <2>4. g * X = g * Y
      BY <2>2, <2>3
    <2>5. X = Y
      BY <2>4
    <2> QED
      BY <2>3, <2>5
  <1>8. PICK n1 \in Nat, q1 \in Nat : n1 = Abs(N) /\ q1 = Abs(q) /\ n1 * T = y * q1
    <2>1. Abs(N) \in Nat /\ Abs(q) \in Nat
      BY DEF Abs
    <2>2. CASE N >= 0
      <3>1. N * T >= 0
        BY <2>2
      <3>2. q >= 0
        BY <1>7, <3>1
      <3>3. Abs(N) = N /\ Abs(q) = q
        BY <2>2, <3>2 DEF Abs
      <3> QED
        BY <1>7, <2>1, <3>3
    <2>3. CASE N < 0
      <3>1. N * T < 0
        BY <2>3
      <3>2. q < 0
        BY <1>7, <3>1
      <3>3. Abs(N) = -N /\ Abs(q) = -q
        BY <2>3, <3>2 DEF Abs
      <3>4. (-N) * T = -(N * T) /\ y * (-q) = -(q * y)
        OBVIOUS
      <3> QED
        BY <1>7, <2>1, <3>3, <3>4
    <2> QED
      BY <2>2, <2>3
  <1>9. Coprime(n1, y)
    BY <1>1, <1>8, Zenon DEF Lowest
  <1>10. n1 * TenTo(k) = y * q1
    BY <1>5, <1>8
  <1> QED
    BY <1>2, <1>9, <1>10, OnlyTwosAndFives

----------------------------------------------------------------------------
(* Decimals: digits, order and keys *)

LEMMA DigitCountIs ==
  ASSUME NEW n \in Int \ {0}
  PROVE  \E k \in Nat \ {0}, m \in Nat \ {0} :
           k = DigitCount(n) /\ m = Abs(n) /\ m < TenTo(k) /\ m >= TenTo(k - 1)
  <1>1. PICK m \in Nat \ {0} : m = Abs(n)
    <2>1. Abs(n) \in Nat \ {0}
      BY DEF Abs
    <2> QED
      BY <2>1
  <1> DEFINE S == {k \in Nat : k # 0 /\ m < TenTo(k)}
  <1>2. m \in S
    <2>1. PICK ten \in Nat : ten = 10 /\ ten >= 2
      OBVIOUS
    <2>2. PowerOf(ten, m) \in Nat /\ PowerOf(ten, m) > m
      BY <2>1, PowerBeyond
    <2>3. TenTo(m) \in Nat /\ TenTo(m) > m
      BY <2>1, <2>2 DEF TenTo
    <2> QED
      BY <2>3
  <1>3. PICK k \in S : \A j \in S : k <= j
    <2>1. S \subseteq Nat /\ S # {}
      BY <1>2
    <2> HIDE DEF S
    <2> QED
      BY <2>1, NatMin
  <1>4. k \in 1 .. m /\ m < TenTo(k)
    BY <1>2, <1>3
  <1>5. k > 1 => m >= TenTo(k - 1)
    <2> SUFFICES ASSUME k > 1 PROVE m >= TenTo(k - 1)
      OBVIOUS
    <2>1. PICK j \in Nat : j = k - 1 /\ j # 0 /\ j < k
      OBVIOUS
    <2>2. j \notin S
      BY <1>3, <2>1
    <2>3. TenTo(j) \in Nat \ {0}
      BY TenToPositive
    <2> QED
      BY <2>1, <2>2, <2>3
  <1> HIDE DEF S
  <1>6. PICK h : h = DigitCount(n)
    OBVIOUS
  <1>7. h \in 1 .. m + 1 /\ m < TenTo(h) /\ (h > 1 => m >= TenTo(h - 1))
    <2>1. \E j \in 1 .. m + 1 : m < TenTo(j) /\ (j > 1 => m >= TenTo(j - 1))
      <3>1. k \in 1 .. m + 1
        BY <1>4
      <3> QED
        BY <1>4, <1>5, <3>1, Zenon
    <2>2. h = CHOOSE j \in 1 .. m + 1 : m < TenTo(j) /\ (j > 1 => m >= TenTo(j - 1))
      BY <1>1, <1>6, Zenon DEF DigitCount
    <2> QED
      BY <2>1, <2>2, Zenon
  <1>8. h \in Nat \ {0}
    BY <1>7
  <1>9. m >= TenTo(h - 1)
    <2>1. CASE h = 1
      <3>1. h - 1 = 0
        BY <2>1
      <3>2. TenTo(h - 1) = 1
        BY <3>1, TenToZero
      <3> QED
        BY <3>2
    <2>2. CASE h # 1
      BY <1>7, <1>8, <2>2
    <2> QED
      BY <2>1, <2>2
  <1> QED
    BY <1>1, <1>6, <1>7, <1>8, <1>9, Zenon

LEMMA SignScaled ==
  ASSUME NEW x \in Int, NEW c \in Nat \ {0}
  PROVE  Sign(x * c) = Sign(x)
  <1>1. CASE x < 0
    <2>1. x * c < 0
      BY <1>1
    <2> QED
      BY <1>1, <2>1 DEF Sign
  <1>2. CASE x = 0
    BY <1>2
  <1>3. CASE x > 0
    <2>1. x * c > 0
      BY <1>3
    <2> QED
      BY <1>3, <2>1 DEF Sign
  <1> QED
    BY <1>1, <1>2, <1>3

(* A number whose first digit stands further left is larger. *)
LEMMA FurtherLeft ==
  ASSUME NEW A \in Nat, NEW B \in Nat, NEW la \in Nat \ {0}, NEW lb \in Nat \ {0}, NEW e \in Nat, NEW f \in Nat,
         A >= TenTo(la - 1), B < TenTo(lb), la + e > lb + f
  PROVE  A * TenTo(e) > B * TenTo(f)
  <1>1. PICK h \in Nat : h = la - 1
    OBVIOUS
  <1>2. PICK x \in Nat \ {0}, y \in Nat \ {0}, p \in Nat \ {0}, q \in Nat \ {0} :
           x = TenTo(e) /\ y = TenTo(f) /\ p = TenTo(h) /\ q = TenTo(lb)
    BY TenToPositive
  <1>3. TenTo(h + e) = p * x /\ TenTo(lb + f) = q * y
    BY <1>2, TenToSum
  <1>4. TenTo(lb + f) <= TenTo(h + e)
    <2>1. lb + f <= h + e /\ lb + f \in Nat /\ h + e \in Nat
      BY <1>1
    <2> QED
      BY <2>1, TenToLarger
  <1>5. q * y <= p * x
    BY <1>3, <1>4
  <1>6. A >= p /\ B < q
    BY <1>1, <1>2
  <1>7. A * x >= p * x
    BY <1>6
  <1>8. B * y < q * y
    BY <1>6
  <1>9. A * x > B * y
    <2>1. PICK Ax \in Int, px \in Int, By \in Int, qy \in Int : Ax = A * x /\ px = p * x /\ By = B * y /\ qy = q * y
      OBVIOUS
    <2> QED
      BY <1>5, <1>7, <1>8, <2>1
  <1> QED
    BY <1>2, <1>9

(* Numbers whose first digits stand at the same place compare like their
   digits, padded with zeros. *)
SameOrder(A, B, e, f, i, j) ==
  Sign(A * TenTo(e) - B * TenTo(f)) = Sign(A * TenTo(i) - B * TenTo(j))

LEMMA SamePlace ==
  ASSUME NEW A \in Nat, NEW B \in Nat, NEW e \in Nat, NEW f \in Nat, NEW i \in Nat, NEW j \in Nat,
         e - i = f - j
  PROVE  SameOrder(A, B, e, f, i, j)
  <1> SUFFICES Sign(A * TenTo(e) - B * TenTo(f)) = Sign(A * TenTo(i) - B * TenTo(j))
    BY Zenon DEF SameOrder
  <1>1. PICK x \in Nat \ {0}, y \in Nat \ {0}, p \in Nat \ {0}, q \in Nat \ {0} :
           x = TenTo(e) /\ y = TenTo(f) /\ p = TenTo(i) /\ q = TenTo(j)
    BY TenToPositive
  <1>2. CASE e >= i
    <2>1. PICK d \in Nat : e = i + d /\ f = j + d
      <3>1. e - i \in Nat /\ e = i + (e - i) /\ f = j + (e - i)
        BY <1>2
      <3> QED
        BY <3>1
    <2>2. PICK c \in Nat \ {0} : c = TenTo(d)
      BY TenToPositive
    <2>3. TenTo(i + d) = p * c /\ TenTo(j + d) = q * c
      BY <1>1, <2>2, TenToSum
    <2>4. x = p * c /\ y = q * c
      BY <1>1, <2>1, <2>3
    <2>5. A * x - B * y = (A * p - B * q) * c
      BY <2>4
    <2>6. A * p - B * q \in Int
      OBVIOUS
    <2> QED
      BY <1>1, <2>5, <2>6, SignScaled
  <1>3. CASE e < i
    <2>1. PICK d \in Nat : i = e + d /\ j = f + d
      <3>1. i - e \in Nat /\ i = e + (i - e) /\ j = f + (i - e)
        BY <1>3
      <3> QED
        BY <3>1
    <2>2. PICK c \in Nat \ {0} : c = TenTo(d)
      BY TenToPositive
    <2>3. TenTo(e + d) = x * c /\ TenTo(f + d) = y * c
      BY <1>1, <2>2, TenToSum
    <2>4. p = x * c /\ q = y * c
      BY <1>1, <2>1, <2>3
    <2>5. A * p - B * q = (A * x - B * y) * c
      BY <2>4
    <2>6. A * x - B * y \in Int
      OBVIOUS
    <2> QED
      BY <1>1, <2>5, <2>6, SignScaled
  <1> QED
    BY <1>2, <1>3

LEMMA SignIs ==
  ASSUME NEW x \in Int
  PROVE  /\ Sign(x) \in {-1, 0, 1}
         /\ x > 0 <=> Sign(x) = 1
         /\ x < 0 <=> Sign(x) = -1
         /\ x = 0 <=> Sign(x) = 0
         /\ Sign(-x) = -Sign(x)
  BY DEF Sign

(* What Compare settles between numbers of one sign. *)
OrderOf(A, B, la, lb, left, right) ==
  LET exponent == Sign(left - right)
      width == Max({la, lb})
  IN IF exponent # 0 THEN exponent ELSE Sign(A * TenTo(width - la) - B * TenTo(width - lb))

(* ... which is the order of A times TenTo(e) and B times TenTo(f). *)
Settles(A, B, la, lb, left, right, e, f) ==
  OrderOf(A, B, la, lb, left, right) = Sign(A * TenTo(e) - B * TenTo(f))

LEMMA SizesCompare ==
  ASSUME NEW A \in Nat, NEW B \in Nat, NEW la \in Nat \ {0}, NEW lb \in Nat \ {0}, NEW e \in Nat, NEW f \in Nat,
         A < TenTo(la), A >= TenTo(la - 1), B < TenTo(lb), B >= TenTo(lb - 1),
         NEW left \in Int, NEW right \in Int, left - right = (la + e) - (lb + f)
  PROVE  Settles(A, B, la, lb, left, right, e, f)
  <1> SUFFICES OrderOf(A, B, la, lb, left, right) = Sign(A * TenTo(e) - B * TenTo(f))
    BY Zenon DEF Settles
  <1>1. PICK x \in Nat, y \in Nat : x = TenTo(e) /\ y = TenTo(f)
    BY TenToPositive
  <1>2. PICK u \in Int, v \in Int : u = A * x /\ v = B * y
    OBVIOUS
  <1>3. PICK o : o = OrderOf(A, B, la, lb, left, right)
    OBVIOUS
  <1>4. PICK d \in Int : d = left - right
    OBVIOUS
  <1>5. CASE la + e > lb + f
    <2>1. u > v
      BY <1>1, <1>2, <1>5, FurtherLeft
    <2>2. Sign(d) = 1 /\ Sign(u - v) = 1
      <3>1. d > 0 /\ u - v > 0
        BY <1>4, <1>5, <2>1
      <3> QED
        BY <3>1, SignIs
    <2>3. o = Sign(d)
      BY <1>3, <1>4, <2>2 DEF OrderOf
    <2> QED
      BY <1>1, <1>2, <1>3, <2>2, <2>3
  <1>6. CASE la + e < lb + f
    <2>1. v > u
      BY <1>1, <1>2, <1>6, FurtherLeft
    <2>2. Sign(d) = -1 /\ Sign(u - v) = -1
      <3>1. d < 0 /\ u - v < 0
        BY <1>4, <1>6, <2>1
      <3> QED
        BY <3>1, SignIs
    <2>3. o = Sign(d)
      BY <1>3, <1>4, <2>2 DEF OrderOf
    <2> QED
      BY <1>1, <1>2, <1>3, <2>2, <2>3
  <1>7. CASE la + e = lb + f
    <2>1. Sign(d) = 0
      <3>1. d = 0
        BY <1>4, <1>7
      <3> QED
        BY <3>1, SignIs
    <2>2. PICK w : w = Max({la, lb})
      OBVIOUS
    <2>3. w = (IF la >= lb THEN la ELSE lb)
      BY <2>2, MaxOfTwo
    <2>4. PICK i \in Nat, j \in Nat : i = w - la /\ j = w - lb
      <3>1. w - la \in Nat /\ w - lb \in Nat
        BY <2>3
      <3> QED
        BY <3>1
    <2>5. o = Sign(A * TenTo(i) - B * TenTo(j))
      BY <1>3, <1>4, <2>1, <2>2, <2>4, Zenon DEF OrderOf
    <2>6. e - i = f - j
      BY <1>7, <2>3, <2>4
    <2>7. SameOrder(A, B, e, f, i, j)
      BY <2>6, SamePlace, Zenon
    <2>8. Sign(A * TenTo(e) - B * TenTo(f)) = Sign(A * TenTo(i) - B * TenTo(j))
      BY <2>7, Zenon DEF SameOrder
    <2> QED
      BY <1>3, <2>5, <2>8, Zenon
  <1> QED
    BY <1>5, <1>6, <1>7

(* Both numbers at the larger of their scales. *)
LEMMA ValueOrderIs ==
  ASSUME NEW a, NEW b, a.coefficient \in Int, a.scale \in Int, b.coefficient \in Int, b.scale \in Int
  PROVE  \E e \in Nat, f \in Nat : /\ a.scale + e = b.scale + f
                                   /\ ValueOrder(a, b) = Sign(a.coefficient * TenTo(e) - b.coefficient * TenTo(f))
  <1>1. PICK s : s = Max({a.scale, b.scale})
    OBVIOUS
  <1>2. s = (IF a.scale >= b.scale THEN a.scale ELSE b.scale)
    BY <1>1, MaxOfTwo
  <1>3. PICK e \in Nat, f \in Nat : e = s - a.scale /\ f = s - b.scale
    <2>1. s - a.scale \in Nat /\ s - b.scale \in Nat
      BY <1>2
    <2> QED
      BY <2>1
  <1>4. a.scale + e = b.scale + f
    BY <1>2, <1>3
  <1>5. ValueOrder(a, b) = Sign(a.coefficient * TenTo(e) - b.coefficient * TenTo(f))
    BY <1>1, <1>3, Zenon DEF ValueOrder, At
  <1> QED
    BY <1>4, <1>5

LEMMA CompareIs ==
  ASSUME NEW a, NEW b, a.coefficient \in Int, a.scale \in Int, b.coefficient \in Int, b.scale \in Int
  PROVE  Compare(a, b) = ValueOrder(a, b)
  <1>1. PICK m \in Int, n \in Int, p \in Int, q \in Int :
          m = a.coefficient /\ n = b.coefficient /\ p = a.scale /\ q = b.scale
    OBVIOUS
  <1>2. PICK e \in Nat, f \in Nat : p + e = q + f /\ ValueOrder(a, b) = Sign(m * TenTo(e) - n * TenTo(f))
    BY <1>1, ValueOrderIs
  <1>3. PICK x \in Nat \ {0}, y \in Nat \ {0} : x = TenTo(e) /\ y = TenTo(f)
    BY TenToPositive
  <1>4. PICK X \in Int, Y \in Int : X = m * x /\ Y = n * y
    OBVIOUS
  <1>5. Sign(X) = Sign(m) /\ Sign(Y) = Sign(n)
    BY <1>4, SignScaled
  <1>6. PICK s \in {-1, 0, 1}, t \in {-1, 0, 1} : s = Sign(m) /\ t = Sign(n)
    BY SignIs
  <1>7. PICK A, B, la, lb : A = Abs(m) /\ B = Abs(n) /\ la = DigitCount(m) /\ lb = DigitCount(n)
    OBVIOUS
  <1>8. PICK o : o = OrderOf(A, B, la, lb, la - p, lb - q)
    OBVIOUS
  <1>9. Compare(a, b) = IF s # t THEN Sign(s - t) ELSE IF s = 0 THEN 0 ELSE s * o
    BY <1>1, <1>6, <1>7, <1>8, Zenon DEF Compare, OrderOf
  <1>10. CASE s # t
    <2>1. Sign(s - t) = Sign(X - Y)
      <3>1. s > t => Sign(s - t) = 1 /\ Sign(X - Y) = 1
        <4> SUFFICES ASSUME s > t PROVE Sign(s - t) = 1 /\ Sign(X - Y) = 1
          OBVIOUS
        <4>1. (s = 1 /\ t # 1) \/ (s = 0 /\ t = -1)
          OBVIOUS
        <4>2. X > Y
          BY <1>5, <1>6, <4>1, SignIs
        <4>3. s - t > 0 /\ X - Y > 0 /\ s - t \in Int /\ X - Y \in Int
          BY <4>2
        <4> QED
          BY <4>3, SignIs
      <3>2. s < t => Sign(s - t) = -1 /\ Sign(X - Y) = -1
        <4> SUFFICES ASSUME s < t PROVE Sign(s - t) = -1 /\ Sign(X - Y) = -1
          OBVIOUS
        <4>1. (t = 1 /\ s # 1) \/ (t = 0 /\ s = -1)
          OBVIOUS
        <4>2. X < Y
          BY <1>5, <1>6, <4>1, SignIs
        <4>3. s - t < 0 /\ X - Y < 0 /\ s - t \in Int /\ X - Y \in Int
          BY <4>2
        <4> QED
          BY <4>3, SignIs
      <3> QED
        BY <1>10, <3>1, <3>2
    <2> QED
      BY <1>2, <1>3, <1>4, <1>9, <1>10, <2>1
  <1>11. CASE s = t /\ s = 0
    <2>1. m = 0 /\ n = 0
      BY <1>6, <1>11, SignIs
    <2>2. X - Y = 0
      BY <1>4, <2>1
    <2> QED
      BY <1>2, <1>3, <1>4, <1>9, <1>11, <2>2, SignIs
  <1>12. CASE s = t /\ s # 0
    <2>1. m # 0 /\ n # 0
      BY <1>6, <1>12, SignIs
    <2>2. la \in Nat \ {0} /\ A \in Nat /\ A < TenTo(la) /\ A >= TenTo(la - 1)
      BY <1>7, <2>1, DigitCountIs
    <2>3. lb \in Nat \ {0} /\ B \in Nat /\ B < TenTo(lb) /\ B >= TenTo(lb - 1)
      BY <1>7, <2>1, DigitCountIs
    <2>4. (la - p) - (lb - q) = (la + e) - (lb + f) /\ la - p \in Int /\ lb - q \in Int
      BY <1>2, <2>2, <2>3
    <2>5. o = Sign(A * x - B * y)
      <3>1. PICK left \in Int, right \in Int : left = la - p /\ right = lb - q
        BY <2>4
      <3>2. left - right = (la + e) - (lb + f)
        BY <2>4, <3>1
      <3>3. OrderOf(A, B, la, lb, left, right) = Sign(A * TenTo(e) - B * TenTo(f))
        <4>1. PICK C \in Nat, D \in Nat, lc \in Nat \ {0}, ld \in Nat \ {0} : C = A /\ D = B /\ lc = la /\ ld = lb
          BY <2>2, <2>3
        <4>2. C < TenTo(lc) /\ C >= TenTo(lc - 1)
          BY <2>2, <4>1, Zenon
        <4>3. D < TenTo(ld) /\ D >= TenTo(ld - 1)
          BY <2>3, <4>1, Zenon
        <4>4. left - right = (lc + e) - (ld + f)
          BY <3>2, <4>1, Zenon
        <4>5. Settles(C, D, lc, ld, left, right, e, f)
          BY <4>2, <4>3, <4>4, SizesCompare, Zenon
        <4> QED
          BY <4>1, <4>5, Zenon DEF Settles
      <3> QED
        BY <1>3, <1>8, <3>1, <3>3, Zenon
    <2>6. CASE s = 1
      <3>1. m > 0 /\ n > 0
        BY <1>6, <1>12, <2>6, SignIs
      <3>2. A = m /\ B = n
        BY <1>7, <3>1 DEF Abs
      <3>3. o = Sign(X - Y)
        BY <1>4, <2>5, <3>2
      <3>4. Sign(X - Y) \in Int
        BY SignIs
      <3> QED
        BY <1>2, <1>3, <1>4, <1>9, <1>12, <2>6, <3>3, <3>4
    <2>7. CASE s = -1
      <3>1. m < 0 /\ n < 0
        BY <1>6, <1>12, <2>7, SignIs
      <3>2. A = -m /\ B = -n
        BY <1>7, <3>1 DEF Abs
      <3>3. A * x - B * y = -(X - Y)
        BY <1>4, <3>2
      <3>4. o = -Sign(X - Y) /\ Sign(X - Y) \in {-1, 0, 1}
        <4>1. X - Y \in Int
          OBVIOUS
        <4> QED
          BY <2>5, <3>3, <4>1, SignIs
      <3> QED
        BY <1>2, <1>3, <1>4, <1>9, <1>12, <2>7, <3>4
    <2> QED
      BY <1>12, <2>6, <2>7
  <1> QED
    BY <1>10, <1>11, <1>12

(* The stripped digits and the place of the last of them. *)
LEMMA KeyIs ==
  ASSUME NEW a, a.coefficient \in Int \ {0}, a.scale \in Int
  PROVE  \E k \in Nat, q \in Int \ {0} :
           /\ a.coefficient = q * TenTo(k) /\ (\A z \in Int : q # 10 * z)
           /\ CanonicalKey(a) = <<q, a.scale - k>>
  <1>1. PICK m \in Int \ {0} : m = a.coefficient
    OBVIOUS
  <1>2. PICK n \in Nat \ {0} : n = Abs(m) /\ m = (IF m < 0 THEN -n ELSE n)
    <2>1. Abs(m) \in Nat \ {0} /\ m = (IF m < 0 THEN -Abs(m) ELSE Abs(m))
      BY DEF Abs
    <2> QED
      BY <2>1
  <1>3. PICK ten \in Nat : ten = 10 /\ ten >= 2
    OBVIOUS
  <1>4. PICK k \in Nat : k = Multiplicity(ten, n) /\ n % PowerOf(ten, k) = 0 /\ n % PowerOf(ten, k + 1) # 0
    BY <1>3, MultiplicityIs
  <1>5. k = TrailingZeros(n) /\ n % TenTo(k) = 0 /\ n % TenTo(k + 1) # 0
    BY <1>3, <1>4 DEF TrailingZeros, TenTo
  <1>6. PICK t \in Nat \ {0} : t = TenTo(k)
    BY TenToPositive
  <1>7. TenTo(k + 1) = t * 10
    BY <1>6, TenToSum, TenToOne
  <1>8. PICK r \in Nat : n = t * r
    BY <1>5, <1>6, Divides
  <1>9. r # 0
    BY <1>8
  <1>10. ASSUME NEW z \in Int, r = 10 * z PROVE FALSE
    <2>1. n = (t * 10) * z /\ t * 10 \in Nat \ {0}
      BY <1>8, <1>10
    <2>2. PICK d \in Nat \ {0} : d = t * 10
      BY <2>1
    <2>3. n = d * z /\ n % d # 0
      BY <1>5, <1>7, <2>1, <2>2
    <2>4. z \in Nat
      BY <2>3
    <2> QED
      BY <2>3, <2>4, Divides
  <1>11. PICK q \in Int \ {0} : q = (IF m < 0 THEN -r ELSE r)
    BY <1>9
  <1>12. m = q * t
    BY <1>2, <1>8, <1>11
  <1>13. Quot(m, t) = q
    <2>1. Abs(t) = t /\ ~(t < 0)
      BY DEF Abs
    <2>2. PICK h \in Nat : h = n \div t
      OBVIOUS
    <2>3. h = r
      <3>1. n % t = 0 /\ n = t * (n \div t) + (n % t)
        <4>1. n % t = 0
          BY <1>5, <1>6
        <4>2. n = t * (n \div t) + (n % t)
          OBVIOUS
        <4> QED
          BY <4>1, <4>2
      <3>2. t * h = t * r
        BY <1>8, <2>2, <3>1
      <3> QED
        BY <3>2
    <2>4. Quot(m, t) = (IF m < 0 THEN -h ELSE h)
      BY <1>2, <2>1, <2>2, Zenon DEF Quot
    <2> QED
      BY <1>11, <2>3, <2>4
  <1>14. ASSUME NEW z \in Int, q = 10 * z PROVE FALSE
    <2>1. r = 10 * z \/ r = 10 * (-z)
      BY <1>11, <1>14
    <2>2. -z \in Int
      OBVIOUS
    <2> QED
      BY <1>10, <2>1, <2>2
  <1>15. CanonicalKey(a) = <<q, a.scale - k>>
    BY <1>1, <1>2, <1>5, <1>6, <1>13, Zenon DEF CanonicalKey
  <1>16. a.coefficient = q * TenTo(k)
    BY <1>1, <1>6, <1>12
  <1>17. \A z \in Int : q # 10 * z
    BY <1>14
  <1> QED
    BY <1>15, <1>16, <1>17, Zenon

(* Numbers without a zero at the end, at different places, differ. *)
LEMMA PlacesTell ==
  ASSUME NEW q \in Int, NEW r \in Int \ {0}, NEW i \in Nat, NEW j \in Nat, i > j,
         \A z \in Int : r # 10 * z
  PROVE  q * TenTo(i) # r * TenTo(j)
  <1> SUFFICES ASSUME q * TenTo(i) = r * TenTo(j) PROVE FALSE
    OBVIOUS
  <1>1. PICK d \in Nat : i = j + (1 + d)
    <2>1. i - j - 1 \in Nat /\ i = j + (1 + (i - j - 1))
      OBVIOUS
    <2> QED
      BY <2>1
  <1>2. PICK x \in Nat \ {0}, y \in Nat \ {0} : x = TenTo(j) /\ y = TenTo(d)
    BY TenToPositive
  <1>3. TenTo(1 + d) = 10 * y /\ 1 + d \in Nat
    BY <1>2, TenToSum, TenToOne
  <1>4. TenTo(i) = x * (10 * y)
    BY <1>1, <1>2, <1>3, TenToSum
  <1>5. PICK z \in Int : z = q * y
    OBVIOUS
  <1>6. x * (10 * z) = x * r
    <2>1. q * (x * (10 * y)) = r * x
      BY <1>2, <1>4
    <2>2. q * (x * (10 * y)) = x * (10 * (q * y))
      OBVIOUS
    <2> QED
      BY <1>5, <2>1, <2>2
  <1>7. 10 * z = r
    <2>1. PICK w \in Int : w = 10 * z
      OBVIOUS
    <2>2. x * w = x * r
      BY <1>6, <2>1
    <2>3. w = r
      BY <2>2
    <2> QED
      BY <2>1, <2>3
  <1> QED
    BY <1>7

(* Equal values have one key, and unequal ones two. *)
LEMMA KeysAgree ==
  ASSUME NEW a, NEW b, a.coefficient \in Int, a.scale \in Int, b.coefficient \in Int, b.scale \in Int
  PROVE  ValueOrder(a, b) = 0 <=> CanonicalKey(a) = CanonicalKey(b)
  <1>1. PICK m \in Int, n \in Int, p \in Int, s \in Int :
          m = a.coefficient /\ n = b.coefficient /\ p = a.scale /\ s = b.scale
    OBVIOUS
  <1>2. PICK e \in Nat, f \in Nat : p + e = s + f /\ ValueOrder(a, b) = Sign(m * TenTo(e) - n * TenTo(f))
    BY <1>1, ValueOrderIs
  <1>3. PICK x \in Nat \ {0}, y \in Nat \ {0} : x = TenTo(e) /\ y = TenTo(f)
    BY TenToPositive
  <1>4. PICK X \in Int, Y \in Int : X = m * x /\ Y = n * y
    OBVIOUS
  <1>5. ValueOrder(a, b) = 0 <=> X = Y
    <2>1. ValueOrder(a, b) = Sign(X - Y)
      BY <1>2, <1>3, <1>4
    <2>2. X - Y \in Int /\ (X - Y = 0 <=> X = Y)
      OBVIOUS
    <2> QED
      BY <2>1, <2>2, SignIs
  <1>6. m = 0 => X = 0 /\ CanonicalKey(a) = <<0, 0>>
    BY <1>1, <1>4 DEF CanonicalKey
  <1>7. n = 0 => Y = 0 /\ CanonicalKey(b) = <<0, 0>>
    BY <1>1, <1>4 DEF CanonicalKey
  <1>8. ASSUME m # 0
        PROVE  \E k \in Nat, q \in Int \ {0} :
                 m = q * TenTo(k) /\ (\A z \in Int : q # 10 * z) /\ CanonicalKey(a) = <<q, p - k>>
    BY <1>1, <1>8, KeyIs
  <1>9. ASSUME n # 0
        PROVE  \E l \in Nat, r \in Int \ {0} :
                 n = r * TenTo(l) /\ (\A z \in Int : r # 10 * z) /\ CanonicalKey(b) = <<r, s - l>>
    BY <1>1, <1>9, KeyIs
  <1>10. CASE m = 0 /\ n = 0
    BY <1>5, <1>6, <1>7, <1>10
  <1>11. CASE m = 0 /\ n # 0
    <2>1. Y # 0
      BY <1>4, <1>11
    <2> QED
      BY <1>5, <1>6, <1>9, <1>11, <2>1
  <1>12. CASE m # 0 /\ n = 0
    <2>1. X # 0
      BY <1>4, <1>12
    <2> QED
      BY <1>5, <1>7, <1>8, <1>12, <2>1
  <1>13. CASE m # 0 /\ n # 0
    <2>1. PICK k \in Nat, q \in Int \ {0} :
            m = q * TenTo(k) /\ (\A z \in Int : q # 10 * z) /\ CanonicalKey(a) = <<q, p - k>>
      BY <1>8, <1>13
    <2>2. PICK l \in Nat, r \in Int \ {0} :
            n = r * TenTo(l) /\ (\A z \in Int : r # 10 * z) /\ CanonicalKey(b) = <<r, s - l>>
      BY <1>9, <1>13
    <2>3. PICK i \in Nat, j \in Nat : i = k + e /\ j = l + f
      OBVIOUS
    <2>4. X = q * TenTo(i)
      <3>1. PICK g \in Nat : g = TenTo(k)
        BY TenToPositive
      <3>2. TenTo(i) = g * x
        BY <1>3, <2>3, <3>1, TenToSum
      <3>3. q * (g * x) = (q * g) * x
        OBVIOUS
      <3> QED
        BY <1>4, <2>1, <3>1, <3>2, <3>3
    <2>5. Y = r * TenTo(j)
      <3>1. PICK g \in Nat : g = TenTo(l)
        BY TenToPositive
      <3>2. TenTo(j) = g * y
        BY <1>3, <2>3, <3>1, TenToSum
      <3>3. r * (g * y) = (r * g) * y
        OBVIOUS
      <3> QED
        BY <1>4, <2>2, <3>1, <3>2, <3>3
    <2>6. CanonicalKey(a) = CanonicalKey(b) <=> q = r /\ i = j
      <3>1. p - k = s - l <=> i = j
        BY <1>2, <2>3
      <3> QED
        BY <2>1, <2>2, <3>1
    <2>7. CASE i = j
      <3>1. PICK g \in Nat \ {0} : g = TenTo(i)
        BY TenToPositive
      <3>2. q * g = r * g <=> q = r
        OBVIOUS
      <3> QED
        BY <1>5, <2>4, <2>5, <2>6, <2>7, <3>1, <3>2
    <2>8. CASE i > j
      <3>1. q * TenTo(i) # r * TenTo(j)
        BY <2>2, <2>8, PlacesTell
      <3> QED
        BY <1>5, <2>4, <2>5, <2>6, <2>8, <3>1
    <2>9. CASE j > i
      <3>1. r * TenTo(j) # q * TenTo(i)
        BY <2>1, <2>9, PlacesTell
      <3> QED
        BY <1>5, <2>4, <2>5, <2>6, <2>9, <3>1
    <2> QED
      BY <2>7, <2>8, <2>9
  <1> QED
    BY <1>10, <1>11, <1>12, <1>13

(* A number below a positive one is not a multiple of it. *)
LEMMA NotAMultiple ==
  ASSUME NEW m \in Int \ {0}, NEW t \in Nat \ {0}, Abs(m) < t
  PROVE  Rem(m, t) # 0
  <1>1. PICK n \in Nat, d \in Nat \ {0}, k \in Nat, r \in Nat :
           /\ n = Abs(m) /\ d = Abs(t) /\ n = k * d + r /\ r < d /\ k <= n
           /\ Quot(m, t) = (IF (m < 0 <=> t < 0) THEN k ELSE -k)
           /\ Rem(m, t) = (IF m < 0 THEN -r ELSE r)
    <2>1. t \in Int \ {0}
      OBVIOUS
    <2> QED
      BY <2>1, Truncates
  <1>2. d = t /\ n # 0
    BY <1>1 DEF Abs
  <1>3. ASSUME r = 0 PROVE FALSE
    <2>1. k = 0 \/ k * d >= d
      OBVIOUS
    <2> QED
      BY <1>1, <1>2, <1>3, <2>1
  <1> QED
    BY <1>1, <1>3

LEMMA QuotOfZero ==
  ASSUME NEW t \in Nat \ {0}
  PROVE  Quot(0, t) = 0 /\ Rem(0, t) = 0
  <1>1. t \in Int \ {0} /\ 0 \in Int
    OBVIOUS
  <1>2. PICK n \in Nat, d \in Nat \ {0}, k \in Nat, r \in Nat :
           /\ n = Abs(0) /\ d = Abs(t) /\ n = k * d + r /\ r < d /\ k <= n
           /\ Quot(0, t) = (IF (0 < 0 <=> t < 0) THEN k ELSE -k)
           /\ Rem(0, t) = (IF 0 < 0 THEN -r ELSE r)
    BY <1>1, Truncates
  <1>3. n = 0 /\ k = 0
    BY <1>2 DEF Abs
  <1>4. r = 0
    BY <1>2, <1>3
  <1> QED
    BY <1>2, <1>3, <1>4

(* The conversion to Int: the digits that do not fit are counted before a
   power of ten is computed. *)
LEMMA ToIntIs ==
  ASSUME NEW a, a.coefficient \in Int, a.scale \in Int, a.scale <= MaxAlignment,
         NEW whole, whole = (a.scale <= 0 \/ Rem(a.coefficient, TenTo(a.scale)) = 0),
         NEW value, value = (IF a.scale > 0 THEN Quot(a.coefficient, TenTo(a.scale)) ELSE At(a, 0))
  PROVE  ToInt(a) = (IF whole /\ Fits(value) THEN AnInt(value) ELSE None)
  <1>1. PICK m \in Int, s \in Int : m = a.coefficient /\ s = a.scale
    OBVIOUS
  <1>2. whole <=> (s <= 0 \/ Rem(m, TenTo(s)) = 0)
    BY <1>1
  <1>3. PICK minus \in Int : minus = -s
    OBVIOUS
  <1>4. value = (IF s > 0 THEN Quot(m, TenTo(s)) ELSE m * TenTo(minus))
    <2>1. 0 - s = minus
      BY <1>3
    <2> QED
      BY <1>1, <2>1, Zenon DEF At
  <1>5. MaxAlignment \in Nat /\ IntDigits \in Nat /\ IntDigits <= MaxAlignment /\ s <= MaxAlignment
    BY <1>1, AlignmentAssumption, DigitsAssumption
  <1>6. IntMax \in Nat /\ 0 \in Int64 /\ (\A v \in Int64 : v \in Int /\ v <= IntMax /\ v >= -IntMax - 1)
    BY WidthAssumption DEF Int64, IntMin
  <1>7. CASE m = 0
    <2>1. ToInt(a) = AnInt(0)
      BY <1>1, <1>7, Zenon DEF ToInt
    <2>2. whole /\ value = 0
      <3>1. CASE s > 0
        <4>1. PICK t \in Nat \ {0} : t = TenTo(s)
          BY <3>1, TenToPositive
        <4>2. Quot(m, t) = 0 /\ Rem(m, t) = 0
          BY <1>7, QuotOfZero
        <4> QED
          BY <1>2, <1>4, <3>1, <4>1, <4>2
      <3>2. CASE ~(s > 0)
        <4>1. PICK t \in Nat \ {0} : t = TenTo(minus)
          BY <1>3, <3>2, TenToPositive
        <4>2. m * t = 0
          BY <1>7
        <4> QED
          BY <1>2, <1>4, <3>2, <4>1, <4>2
      <3> QED
        BY <3>1, <3>2
    <2> QED
      BY <1>6, <2>1, <2>2 DEF Fits
  <1>8. CASE m # 0
    <2>1. PICK k \in Nat \ {0}, n \in Nat \ {0} :
             k = DigitCount(m) /\ n = Abs(m) /\ n < TenTo(k) /\ n >= TenTo(k - 1)
      BY <1>8, DigitCountIs
    <2>2. CASE s > 0
      <3>1. PICK t \in Nat \ {0} : t = TenTo(s)
        BY <2>2, TenToPositive
      <3>2. Power(s) # << >>
        BY <1>5, <2>2 DEF Power
      <3>3. ToInt(a) = IF s >= k \/ Rem(m, t) # 0 THEN None
                       ELSE IF Fits(Quot(m, t)) THEN AnInt(Quot(m, t)) ELSE None
        <4>1. ~(s <= 0)
          BY <2>2
        <4> QED
          BY <1>1, <1>8, <2>1, <2>2, <3>1, <3>2, <4>1, Zenon DEF ToInt
      <3>4. ASSUME s >= k PROVE Rem(m, t) # 0
        <4>1. TenTo(k) <= t /\ TenTo(k) \in Nat
          BY <2>2, <3>1, <3>4, TenToLarger, TenToPositive
        <4>2. n < t
          BY <2>1, <4>1
        <4> QED
          BY <1>8, <2>1, <4>2, NotAMultiple
      <3>5. whole <=> Rem(m, t) = 0
        BY <1>2, <2>2, <3>1
      <3>6. value = Quot(m, t)
        BY <1>4, <2>2, <3>1
      <3> QED
        BY <3>3, <3>4, <3>5, <3>6, Zenon
    <2>3. CASE ~(s > 0)
      <3>1. minus \in Nat /\ s <= 0 /\ k - s = k + minus
        BY <1>3, <2>3
      <3>2. PICK t \in Nat \ {0} : t = TenTo(minus)
        BY <3>1, TenToPositive
      <3>3. value = m * t /\ whole
        BY <1>2, <1>4, <2>3, <3>1, <3>2
      <3>4. ToInt(a) = IF k - s > IntDigits \/ Power(minus) = << >> THEN None
                       ELSE IF Fits(m * t) THEN AnInt(m * t) ELSE None
        BY <1>1, <1>3, <1>8, <2>1, <2>3, <3>1, <3>2, Zenon DEF ToInt
      <3>5. ASSUME k - s > IntDigits PROVE ~Fits(m * t)
        <4>1. PICK i \in Nat : i = (k - 1) + minus /\ i >= IntDigits
          <5>1. (k - 1) + minus \in Nat /\ (k - 1) + minus >= IntDigits
            BY <1>5, <3>1, <3>5
          <5> QED
            BY <5>1
        <4>2. PICK c \in Nat, d \in Nat, g \in Nat : c = TenTo(k - 1) /\ d = TenTo(i) /\ g = TenTo(IntDigits)
          <5>1. k - 1 \in Nat
            OBVIOUS
          <5> QED
            BY <1>5, <5>1, TenToPositive
        <4>3. d = c * t
          <5>1. k - 1 \in Nat
            OBVIOUS
          <5> QED
            BY <3>1, <3>2, <4>1, <4>2, <5>1, TenToSum
        <4>4. g <= d /\ g > IntMax + 1
          BY <1>5, <4>1, <4>2, TenToLarger, DigitsAssumption
        <4>5. n * t >= c * t
          <5>1. n >= c
            BY <2>1, <4>2
          <5> QED
            BY <5>1
        <4>6. n * t > IntMax + 1
          BY <1>6, <4>3, <4>4, <4>5
        <4>7. m * t = n * t \/ m * t = -(n * t)
          <5>1. m = n \/ m = -n
            BY <2>1 DEF Abs
          <5> QED
            BY <5>1
        <4>8. PICK v \in Int, w \in Int : v = m * t /\ w = n * t
          OBVIOUS
        <4>9. v \notin Int64
          BY <1>6, <4>6, <4>7, <4>8
        <4> QED
          BY <4>8, <4>9 DEF Fits
      <3>6. ASSUME ~(k - s > IntDigits) PROVE Power(minus) # << >>
        BY <1>5, <3>1, <3>6 DEF Power
      <3> QED
        BY <3>3, <3>4, <3>5, <3>6, Zenon
    <2> QED
      BY <2>2, <2>3
  <1> QED
    BY <1>7, <1>8

----------------------------------------------------------------------------
(* The computations *)

IsDecimal(a) == a.coefficient \in Int /\ a.scale \in Int

(* The operands are the ones the program can have. *)
TaskWhole ==
  /\ task.op \in {"none", "pow", "add", "rem", "mul", "div", "divide", "toInt", "compare", "intDiv", "intRem"}
  /\ task.op = "pow" => task.value \in Int64 /\ task.exponent \in Int64
  /\ task.op \in {"intDiv", "intRem"} => task.left \in Int64 /\ task.right \in Int64
  /\ task.op \in {"add", "rem", "div", "divide", "compare"} => IsDecimal(task.left) /\ IsDecimal(task.right)
  /\ task.op = "toInt" => IsDecimal(task.left)
  /\ task.op = "divide" => task.scale \in Int /\ task.rounding \in Roundings

(* Under way, a power is what the loop has left to do. *)
PowUnderWay ==
  Computing("pow") =>
    IF task.exponent < 0 THEN loop.remaining = task.exponent
    ELSE PowGoes(PowerOf(task.value, task.exponent), loop.result, loop.factor, loop.remaining)

NumbersTyped ==
  /\ loop \in [result : Int64, factor : Int64, remaining : Int]
  /\ answer = << >> \/ \E z : answer = <<z>>

NumbersInv ==
  /\ TaskWhole /\ NumbersTyped /\ PowUnderWay
  /\ NumbersAreExact

LEMMA NumbersInitInv == NumbersInit => NumbersInv
  <1> SUFFICES ASSUME NumbersInit PROVE NumbersInv
    OBVIOUS
  <1>1. TaskWhole
    <2>1. ASSUME NEW p \in PowInputs, task = [op |-> "pow", value |-> p[1], exponent |-> p[2]]
          PROVE  TaskWhole
      <3>1. p[1] \in Int64 /\ p[2] \in Int64
        BY OperandAssumption
      <3>2. task.op = "pow" /\ task.value \in Int64 /\ task.exponent \in Int64
        BY <2>1, <3>1
      <3> QED
        BY <3>2 DEF TaskWhole
    <2>2. ASSUME NEW p \in IntPairs, NEW o \in {"intDiv", "intRem"}, task = [op |-> o, left |-> p[1], right |-> p[2]]
          PROVE  TaskWhole
      <3>1. p[1] \in Int64 /\ p[2] \in Int64
        BY OperandAssumption
      <3>2. task.op \in {"intDiv", "intRem"} /\ task.left \in Int64 /\ task.right \in Int64
        BY <2>2, <3>1
      <3> QED
        BY <3>2 DEF TaskWhole
    <2>3. ASSUME NEW a \in Decimals, task = [op |-> "toInt", left |-> a]
          PROVE  TaskWhole
      <3>1. task.op = "toInt" /\ IsDecimal(task.left)
        BY <2>3, OperandAssumption DEF IsDecimal
      <3> QED
        BY <3>1 DEF TaskWhole
    <2>4. ASSUME NEW a \in Decimals, NEW b \in Decimals, task = [op |-> "compare", left |-> a, right |-> b]
          PROVE  TaskWhole
      <3>1. task.op = "compare" /\ IsDecimal(task.left) /\ IsDecimal(task.right)
        BY <2>4, OperandAssumption DEF IsDecimal
      <3> QED
        BY <3>1 DEF TaskWhole
    <2>5. ASSUME NEW a \in Decimals, NEW b \in Operands, NEW o \in {"add", "rem", "mul", "div"},
                 task = [op |-> o, left |-> a, right |-> b]
          PROVE  TaskWhole
      <3>1. IsDecimal(a) /\ IsDecimal(b)
        BY OperandAssumption DEF IsDecimal
      <3>2. task.op = o /\ task.left = a /\ task.right = b
        BY <2>5
      <3> QED
        BY <3>1, <3>2 DEF TaskWhole
    <2>6. ASSUME NEW a \in Decimals, NEW b \in Operands, NEW s \in Scales, NEW r \in Roundings,
                 task = [op |-> "divide", left |-> a, right |-> b, scale |-> s, rounding |-> r]
          PROVE  TaskWhole
      <3>1. IsDecimal(a) /\ IsDecimal(b) /\ s \in Int
        BY OperandAssumption DEF IsDecimal
      <3>2. task.op = "divide" /\ task.left = a /\ task.right = b /\ task.scale = s /\ task.rounding = r
        BY <2>6
      <3> QED
        BY <3>1, <3>2 DEF TaskWhole
    <2> QED
      BY <2>1, <2>2, <2>3, <2>4, <2>5, <2>6 DEF NumbersInit
  <1>2. answer = << >> /\ loop = Start(task)
    BY DEF NumbersInit
  <1>3. CASE task.op = "pow"
    <2>1. PICK v, e : v = task.value /\ e = task.exponent
      OBVIOUS
    <2>2. v \in Int64 /\ e \in Int64 /\ v \in Int /\ e \in Int
      BY <1>1, <1>3, <2>1, Width DEF TaskWhole
    <2>3. loop = [result |-> 1, factor |-> v, remaining |-> e]
      BY <1>2, <1>3, <2>1 DEF Start
    <2>4. 1 \in Int64
      BY WidthAssumption DEF Int64, IntMin
    <2>5. NumbersTyped
      BY <1>2, <2>2, <2>3, <2>4 DEF NumbersTyped
    <2>6. e >= 0 => PowGoes(PowerOf(v, e), 1, v, e)
      <3> SUFFICES ASSUME e >= 0 PROVE PowGoes(PowerOf(v, e), 1, v, e)
        OBVIOUS
      <3>1. e \in Nat /\ PowerOf(v, e) \in Int
        <4>1. e \in Nat
          BY <2>2
        <4> QED
          BY <2>2, <4>1, PowerInt
      <3> QED
        BY <2>2, <2>4, <3>1 DEF PowGoes
    <2>7. loop.result = 1 /\ loop.factor = v /\ loop.remaining = e
      BY <2>3
    <2>8. PowUnderWay
      BY <2>1, <2>2, <2>6, <2>7 DEF PowUnderWay
    <2> QED
      BY <1>1, <1>2, <2>5, <2>8
      DEF NumbersInv, NumbersAreExact, IntegersAreExact, PowIsExact, IntDivisionTruncates, DecimalsAreExact,
          DivisionIsExact, DivideRoundsAsAsked, ToIntIsExact, SumsAreExact, KeysFollowEquality, Answered
  <1>4. CASE task.op # "pow"
    <2>1. loop = [result |-> 0, factor |-> 0, remaining |-> 0]
      BY <1>2, <1>4 DEF Start
    <2>2. NumbersTyped
      BY <1>2, <2>1, Width DEF NumbersTyped
    <2>3. PowUnderWay
      BY <1>4 DEF PowUnderWay, Computing
    <2> QED
      BY <1>1, <1>2, <2>2, <2>3
      DEF NumbersInv, NumbersAreExact, IntegersAreExact, PowIsExact, IntDivisionTruncates, DecimalsAreExact,
          DivisionIsExact, DivideRoundsAsAsked, ToIntIsExact, SumsAreExact, KeysFollowEquality, Answered
  <1> QED
    BY <1>3, <1>4

(* A checked product is << >> or the product. *)
LEMMA CheckedProduct ==
  ASSUME NEW a, NEW b, NEW c, c = a * b
  PROVE  /\ CheckedMul(a, b) = << >> <=> c \notin Int64
         /\ c \in Int64 => CheckedMul(a, b) # << >> /\ Head(CheckedMul(a, b)) = c
  <1>1. CASE c \in Int64
    <2>1. CheckedMul(a, b) = <<c>>
      BY <1>1 DEF CheckedMul, Checked, Fits
    <2>2. <<c>> # << >> /\ Head(<<c>>) = c
      OBVIOUS
    <2> QED
      BY <1>1, <2>1, <2>2
  <1>2. CASE c \notin Int64
    BY <1>2 DEF CheckedMul, Checked, Fits
  <1> QED
    BY <1>1, <1>2

(* What one answer of the loop of a power settles. *)
LEMMA PowAnswered ==
  ASSUME NumbersInv, task.op = "pow", task' = task, loop' = loop, NEW z, answer' = <<z>>,
         z = IF task.exponent < 0 THEN None
             ELSE IF Fits(PowerOf(task.value, task.exponent))
                  THEN AnInt(PowerOf(task.value, task.exponent)) ELSE None
  PROVE  NumbersInv'
  <1>1. Head(answer') = z /\ answer' # << >>
    OBVIOUS
  <1>2. TaskWhole'
    BY DEF NumbersInv, TaskWhole
  <1>3. NumbersTyped'
    BY DEF NumbersInv, NumbersTyped
  <1>4. PowUnderWay'
    BY <1>1 DEF PowUnderWay, Computing
  <1>5. PowIsExact'
    BY <1>1 DEF PowIsExact, Answered, Answer
  <1>6. IntDivisionTruncates' /\ DecimalsAreExact' /\ KeysFollowEquality'
    BY DEF IntDivisionTruncates, DecimalsAreExact, DivisionIsExact, DivideRoundsAsAsked, ToIntIsExact, SumsAreExact,
           KeysFollowEquality, Answered
  <1> QED
    BY <1>2, <1>3, <1>4, <1>5, <1>6 DEF NumbersInv, NumbersAreExact, IntegersAreExact

LEMMA RefuseExponentInv == NumbersInv /\ RefuseExponent => NumbersInv'
  <1> SUFFICES ASSUME NumbersInv, RefuseExponent PROVE NumbersInv'
    OBVIOUS
  <1>1. Computing("pow") /\ task.op = "pow" /\ task' = task /\ loop' = loop /\ answer' = <<None>> /\ loop.remaining < 0
    BY DEF RefuseExponent, Computing
  <1>2. task.exponent < 0
    <2>1. ~(loop.remaining \in Nat)
      BY <1>1
    <2> QED
      BY <1>1, <2>1 DEF NumbersInv, PowUnderWay, PowGoes
  <1> QED
    BY <1>1, <1>2, PowAnswered

LEMMA PowDoneInv == NumbersInv /\ PowDone => NumbersInv'
  <1> SUFFICES ASSUME NumbersInv, PowDone PROVE NumbersInv'
    OBVIOUS
  <1>1. Computing("pow") /\ task.op = "pow" /\ task' = task /\ loop' = loop
        /\ answer' = <<AnInt(loop.result)>> /\ loop.remaining = 0
    BY DEF PowDone, Computing
  <1>2. PICK p : p = PowerOf(task.value, task.exponent)
    OBVIOUS
  <1>3. ~(task.exponent < 0)
    BY <1>1 DEF NumbersInv, PowUnderWay
  <1>4. PowGoes(p, loop.result, loop.factor, loop.remaining)
    BY <1>1, <1>2, <1>3 DEF NumbersInv, PowUnderWay
  <1>5. PICK r, f : r = loop.result /\ f = loop.factor
    OBVIOUS
  <1>6. r \in Int64 /\ f \in Int /\ r \in Int /\ r * PowerOf(f, 0) = p
    BY <1>1, <1>4, <1>5, Width DEF PowGoes
  <1>7. PowerOf(f, 0) = 1
    BY <1>6, PowerZero
  <1>8. p = r
    BY <1>6, <1>7
  <1> QED
    BY <1>1, <1>2, <1>3, <1>5, <1>6, <1>8, PowAnswered DEF Fits

LEMMA PowStepInv == NumbersInv /\ PowStep => NumbersInv'
  <1> SUFFICES ASSUME NumbersInv, PowStep PROVE NumbersInv'
    OBVIOUS
  <1>1. Computing("pow") /\ task.op = "pow" /\ answer = << >> /\ task' = task /\ loop.remaining > 0
    BY DEF PowStep, Computing
  <1>2. PICK p : p = PowerOf(task.value, task.exponent)
    OBVIOUS
  <1>3. PICK r, f, n : r = loop.result /\ f = loop.factor /\ n = loop.remaining
    OBVIOUS
  <1>4. n \in Int /\ n > 0
    BY <1>1, <1>3 DEF NumbersInv, NumbersTyped
  <1>5. ~(task.exponent < 0)
    BY <1>1, <1>3, <1>4 DEF NumbersInv, PowUnderWay
  <1>6. PowGoes(p, r, f, n) /\ n \in Nat \ {0}
    BY <1>1, <1>2, <1>3, <1>4, <1>5 DEF NumbersInv, PowUnderWay
  <1>7. PICK h, w, q : h = n \div 2 /\ w = f * f /\ q = IF n % 2 = 1 THEN r * f ELSE r
    OBVIOUS
  <1>8. /\ h \in Nat /\ p \in Int /\ q \in Int /\ w \in Int
        /\ q \in Int64 /\ h # 0 /\ w \in Int64 => PowGoes(p, q, w, h)
        /\ q \in Int64 /\ h = 0 => PowGoes(p, q, f, h)
        /\ q \notin Int64 => p \notin Int64
        /\ h # 0 /\ w \notin Int64 => p \notin Int64
    BY <1>6, <1>7, PowRound
  <1>9. PICK product : product = IF n % 2 = 1 THEN CheckedMul(r, f) ELSE <<r>>
    OBVIOUS
  <1>10. PICK squared : squared = IF Square(h) THEN CheckedMul(f, f) ELSE <<f>>
    OBVIOUS
  <1>11. IF product = << >> \/ squared = << >>
         THEN answer' = <<None>> /\ loop' = loop
         ELSE loop' = [result |-> Head(product), factor |-> Head(squared), remaining |-> h] /\ answer' = answer
    BY <1>3, <1>7, <1>9, <1>10, Zenon DEF PowStep
  <1>12. /\ product = << >> <=> q \notin Int64
         /\ q \in Int64 => Head(product) = q
    <2>1. CASE n % 2 = 1
      BY <1>7, <1>9, <2>1, CheckedProduct
    <2>2. CASE n % 2 # 1
      <3>1. product = <<r>> /\ q = r /\ <<r>> # << >> /\ Head(<<r>>) = r
        BY <1>7, <1>9, <2>2
      <3> QED
        BY <1>6, <3>1 DEF PowGoes
    <2> QED
      BY <2>1, <2>2
  <1>13. /\ squared = << >> <=> h # 0 /\ w \notin Int64
         /\ squared # << >> => Head(squared) = IF h # 0 THEN w ELSE f
    <2>1. CASE h # 0
      BY <1>7, <1>10, <2>1, CheckedProduct DEF Square
    <2>2. CASE h = 0
      <3>1. squared = <<f>> /\ <<f>> # << >> /\ Head(<<f>>) = f
        BY <1>10, <2>2 DEF Square
      <3> QED
        BY <2>2, <3>1
    <2> QED
      BY <2>1, <2>2
  <1>14. CASE product = << >> \/ squared = << >>
    <2>1. answer' = <<None>> /\ loop' = loop
      BY <1>11, <1>14
    <2>2. p \notin Int64
      BY <1>8, <1>12, <1>13, <1>14
    <2> QED
      BY <1>1, <1>2, <1>5, <2>1, <2>2, PowAnswered DEF Fits
  <1>15. CASE product # << >> /\ squared # << >>
    <2>1. PICK g : g = IF h # 0 THEN w ELSE f
      OBVIOUS
    <2>2. loop' = [result |-> q, factor |-> g, remaining |-> h] /\ answer' = answer
      BY <1>11, <1>12, <1>13, <1>15, <2>1
    <2>3. PowGoes(p, q, g, h)
      BY <1>8, <1>12, <1>13, <1>15, <2>1
    <2>4. loop'.result = q /\ loop'.factor = g /\ loop'.remaining = h
      BY <2>2
    <2>5. PowUnderWay'
      BY <1>1, <1>2, <1>5, <2>3, <2>4, Zenon DEF PowUnderWay
    <2>6. NumbersTyped'
      BY <1>1, <2>2, <2>3 DEF NumbersTyped, PowGoes
    <2>7. TaskWhole'
      BY <1>1 DEF NumbersInv, TaskWhole
    <2>8. NumbersAreExact'
      BY <1>1, <2>2
      DEF NumbersAreExact, IntegersAreExact, PowIsExact, IntDivisionTruncates, DecimalsAreExact,
          DivisionIsExact, DivideRoundsAsAsked, ToIntIsExact, SumsAreExact, KeysFollowEquality, Answered
    <2> QED
      BY <2>5, <2>6, <2>7, <2>8 DEF NumbersInv
  <1> QED
    BY <1>14, <1>15


LEMMA ComputeIntInv == NumbersInv /\ ComputeInt => NumbersInv'
  <1> SUFFICES ASSUME NumbersInv, ComputeInt PROVE NumbersInv'
    OBVIOUS
  <1>1. task.op \in {"intDiv", "intRem"} /\ answer = << >> /\ task' = task /\ loop' = loop
    BY DEF ComputeInt
  <1>2. PICK a, b, o : a = task.left /\ b = task.right /\ o = task.op
    OBVIOUS
  <1>3. a \in Int64 /\ b \in Int64 /\ a \in Int /\ b \in Int
    BY <1>1, <1>2, Width DEF NumbersInv, TaskWhole
  <1>4. PICK checked : checked = IF o = "intDiv" THEN CheckedDiv(a, b) ELSE CheckedRem(a, b)
    OBVIOUS
  <1>5. PICK z : z = IF checked = << >> THEN Panic("integer overflow or division by zero") ELSE AnInt(Head(checked))
    OBVIOUS
  <1>6. answer' = <<z>>
    BY <1>2, <1>4, <1>5, Zenon DEF ComputeInt
  <1>7. Head(answer') = z /\ answer' # << >>
    BY <1>6
  <1>8. TaskWhole'
    BY <1>1 DEF NumbersInv, TaskWhole
  <1>9. NumbersTyped'
    BY <1>1, <1>6 DEF NumbersInv, NumbersTyped
  <1>10. PowUnderWay' /\ PowIsExact' /\ DecimalsAreExact' /\ KeysFollowEquality'
    BY <1>1 DEF PowUnderWay, Computing, PowIsExact, DecimalsAreExact, DivisionIsExact, DivideRoundsAsAsked,
                ToIntIsExact, SumsAreExact, KeysFollowEquality, Answered
  <1>11. IntDivisionTruncates'
    <2>1. CASE checked = << >>
      <3>1. z.kind = "panic"
        BY <1>5, <2>1 DEF Panic
      <3>2. b = 0 \/ (o = "intDiv" /\ a = IntMin /\ b = -1)
        <4> SUFFICES ASSUME b # 0 PROVE o = "intDiv" /\ a = IntMin /\ b = -1
          OBVIOUS
        <4>1. Quot(a, b) \in Int64 \/ (a = IntMin /\ b = -1)
          BY <1>3, QuotientsFit
        <4>2. Rem(a, b) \in Int64
          BY <1>3, QuotientsFit
        <4>3. CASE o = "intDiv"
          <5>1. Quot(a, b) \notin Int64
            BY <1>4, <2>1, <4>3 DEF CheckedDiv, Checked, Fits
          <5> QED
            BY <4>1, <4>3, <5>1
        <4>4. CASE o # "intDiv"
          BY <1>4, <2>1, <4>2, <4>4 DEF CheckedRem, Checked, Fits
        <4> QED
          BY <4>3, <4>4
      <3> QED
        BY <1>1, <1>2, <1>7, <3>1, <3>2 DEF IntDivisionTruncates, Answer, Panics
    <2>2. CASE checked # << >>
      <3>1. b # 0
        BY <1>4, <2>2 DEF CheckedDiv, CheckedRem
      <3>2. PICK q, s : q = Quot(a, b) /\ s = Rem(a, b)
        OBVIOUS
      <3>3. PICK y : y = Head(checked)
        OBVIOUS
      <3>4. z = AnInt(y) /\ z.kind = "int" /\ z.value = y
        BY <1>5, <2>2, <3>3 DEF AnInt
      <3>5. y \in Int64 /\ y = IF o = "intDiv" THEN q ELSE s
        <4>1. CASE o = "intDiv"
          <5>1. checked = Checked(q)
            BY <1>4, <3>1, <3>2, <4>1 DEF CheckedDiv
          <5>2. q \in Int64 /\ checked = <<q>>
            BY <2>2, <5>1 DEF Checked, Fits
          <5> QED
            BY <3>3, <4>1, <5>2
        <4>2. CASE o # "intDiv"
          <5>1. checked = Checked(s)
            BY <1>4, <3>1, <3>2, <4>2 DEF CheckedRem
          <5>2. s \in Int64 /\ checked = <<s>>
            BY <2>2, <5>1 DEF Checked, Fits
          <5> QED
            BY <3>3, <4>2, <5>2
        <4> QED
          BY <4>1, <4>2
      <3>6. /\ q \in Int /\ s \in Int
            /\ a - q * b = s
            /\ Abs(s) < Abs(b) /\ (s = 0 \/ (s < 0 <=> a < 0))
            /\ (a - s) % Abs(b) = 0
        <4>1. b \in Int \ {0}
          BY <1>3, <3>1
        <4>2. q \in Int /\ s \in Int
          BY <1>3, <3>2, <4>1, RestOfDivision
        <4>3. a - q * b = s
          BY <1>3, <3>2, <4>1, RestOfDivision
        <4>4. Abs(s) < Abs(b)
          BY <1>3, <3>2, <4>1, RestOfDivision
        <4>5. s = 0 \/ (s < 0 <=> a < 0)
          BY <1>3, <3>2, <4>1, RestOfDivision
        <4>6. (a - s) % Abs(b) = 0
          BY <1>3, <3>2, <4>1, RestOfDivision
        <4> QED
          BY <4>2, <4>3, <4>4, <4>5, <4>6
      <3>7. PICK rest : rest = IF o = "intRem" THEN y ELSE a - y * b
        OBVIOUS
      <3>8. rest = s
        BY <1>1, <1>2, <3>5, <3>6, <3>7
      <3>9. task'.op = o /\ task'.left = a /\ task'.right = b /\ Answer' = z
        BY <1>1, <1>2, <1>7 DEF Answer
      <3> QED
        BY <3>1, <3>4, <3>5, <3>6, <3>7, <3>8, <3>9 DEF IntDivisionTruncates, Panics, Fits
    <2> QED
      BY <2>1, <2>2
  <1> QED
    BY <1>8, <1>9, <1>10, <1>11 DEF NumbersInv, NumbersAreExact, IntegersAreExact

LEMMA ComputeInv == NumbersInv /\ Compute => NumbersInv'
  <1> SUFFICES ASSUME NumbersInv, Compute PROVE NumbersInv'
    OBVIOUS
  <1>1. /\ task.op \in {"add", "rem", "mul", "div", "divide", "toInt", "compare"}
        /\ answer = << >> /\ task' = task /\ loop' = loop
    BY DEF Compute
  <1>2. PICK a, b : a = task.left /\ b = task.right
    OBVIOUS
  <1>3. PICK z : answer' = <<z>> /\ (task.op = "add" => z = Add(a, b)) /\ (task.op = "rem" => z = Remainder(a, b))
                 /\ (task.op = "divide" => z = Divide(a, b, task.scale, task.rounding))
                 /\ (task.op = "div" => z = Div(a, b)) /\ (task.op = "toInt" => z = ToInt(a))
                 /\ (task.op = "compare" => z = AnInt(Compare(a, b)))
    BY <1>1, <1>2 DEF Compute
  <1>4. Head(answer') = z /\ answer' # << >>
    BY <1>3
  <1>5. TaskWhole'
    BY <1>1 DEF NumbersInv, TaskWhole
  <1>6. NumbersTyped'
    BY <1>1, <1>3 DEF NumbersInv, NumbersTyped
  <1>7. PowUnderWay' /\ IntegersAreExact'
    BY <1>1 DEF PowUnderWay, Computing, IntegersAreExact, PowIsExact, IntDivisionTruncates, Answered
  <1>8. task'.op = task.op /\ task'.left = a /\ task'.right = b /\ Answer' = z
    BY <1>1, <1>2, <1>4 DEF Answer
  <1>9. /\ task.op \in {"add", "rem", "div", "divide", "compare"} =>
             a.coefficient \in Int /\ a.scale \in Int /\ b.coefficient \in Int /\ b.scale \in Int
        /\ task.op = "toInt" => a.coefficient \in Int /\ a.scale \in Int
    BY <1>2 DEF NumbersInv, TaskWhole, IsDecimal
  <1>10. SumsAreExact'
    <2>1. ASSUME task.op = "add", z.kind # "panic"
          PROVE  At(z, z.scale) = At(a, z.scale) + At(b, z.scale)
      BY <1>3, <1>9, <2>1, AddIsExact
    <2>2. ASSUME task.op = "rem", z.kind # "panic"
          PROVE  \A n, d : n = At(a, z.scale) /\ d = At(b, z.scale) =>
                   Rem(n - z.coefficient, d) = 0 /\ Abs(z.coefficient) < Abs(d) /\ z.coefficient * n >= 0
      BY <1>3, <1>9, <2>2, RemainderIsExact
    <2> QED
      BY <1>8, <2>1, <2>2, Zenon DEF SumsAreExact, Answered, Panics
  <1>11. DivideRoundsAsAsked'
    <2> SUFFICES ASSUME task.op = "divide", z.kind = "decimal" PROVE DivideRoundsAsAsked'
      BY <1>8, Zenon DEF DivideRoundsAsAsked, Answered
    <2>1. PICK s, r : s = task.scale /\ r = task.rounding
      OBVIOUS
    <2>2. s \in Int /\ r \in Roundings /\ z = Divide(a, b, s, r)
      BY <1>3, <2>1 DEF NumbersInv, TaskWhole
    <2>3. \A e, n, d : /\ e = s + b.scale - a.scale
                       /\ n = (IF e >= 0 THEN a.coefficient * TenTo(e) ELSE a.coefficient)
                       /\ d = (IF e >= 0 THEN b.coefficient ELSE b.coefficient * TenTo(-e))
                       => IsRounded(n, d, r, z.coefficient) /\ z.scale = s
      BY <1>9, <2>2, DivideIsRounded
    <2> QED
      BY <1>1, <1>8, <2>1, <2>3, Zenon DEF DivideRoundsAsAsked
  <1>12. DivisionIsExact'
    <2> SUFFICES ASSUME task.op = "div", b.coefficient # 0
                 PROVE  CASE z.kind = "decimal" -> ValueOrder(Product(z, b), a) = 0
                          [] z = Endless ->
                               \A k \in 0..MaxAlignment + 1 : Rem(a.coefficient * TenTo(k), b.coefficient) # 0
                          [] OTHER -> TRUE
      BY <1>8, Zenon DEF DivisionIsExact, Answered, Endless
    <2>1. z = Div(a, b) /\ a.coefficient \in Int /\ a.scale \in Int /\ b.coefficient \in Int \ {0} /\ b.scale \in Int
      BY <1>3, <1>9
    <2>2. z.kind = "decimal" => ValueOrder(Product(z, b), a) = 0
      BY <2>1, ExactQuotients
    <2>3. ASSUME z = Endless
          PROVE  \A k \in 0..MaxAlignment + 1 : Rem(a.coefficient * TenTo(k), b.coefficient) # 0
      <3>1. \A k \in Nat : Rem(a.coefficient * TenTo(k), b.coefficient) # 0
        BY <2>1, <2>3, InexactQuotients
      <3>2. \A k \in 0..MaxAlignment + 1 : k \in Nat
        BY AlignmentAssumption
      <3> QED
        BY <3>1, <3>2, Zenon
    <2> QED
      BY <2>2, <2>3, Zenon
  <1>13. ToIntIsExact'
    <2> SUFFICES ASSUME task.op = "toInt", a.scale <= MaxAlignment PROVE ToIntIsExact'
      BY <1>8, Zenon DEF ToIntIsExact, Answered
    <2>1. \A whole, value : /\ whole = (a.scale <= 0 \/ Rem(a.coefficient, TenTo(a.scale)) = 0)
                            /\ value = (IF a.scale > 0 THEN Quot(a.coefficient, TenTo(a.scale)) ELSE At(a, 0))
                            => z = IF whole /\ Fits(value) THEN AnInt(value) ELSE None
      BY <1>3, <1>9, ToIntIs
    <2> QED
      BY <1>8, <2>1, Zenon DEF ToIntIsExact
  <1>14. KeysFollowEquality'
    <2> SUFFICES ASSUME task.op = "compare" PROVE KeysFollowEquality'
      BY <1>8, Zenon DEF KeysFollowEquality, Answered
    <2>1. Compare(a, b) = ValueOrder(a, b) /\ (ValueOrder(a, b) = 0 <=> CanonicalKey(a) = CanonicalKey(b))
      BY <1>9, CompareIs, KeysAgree
    <2>2. z.value = ValueOrder(a, b)
      BY <1>3, <2>1 DEF AnInt
    <2> QED
      BY <1>8, <2>1, <2>2, Zenon DEF KeysFollowEquality
  <1> QED
    BY <1>5, <1>6, <1>7, <1>10, <1>11, <1>12, <1>13, <1>14 DEF NumbersInv, NumbersAreExact, DecimalsAreExact

(* The inductive invariant of the computations: under way, a power is what
   the loop has left to do; answered, every result is the one that was asked
   for. *)
THEOREM NumbersInvariant == NumbersSpec => []NumbersInv
  <1>1. NumbersInv /\ UNCHANGED numberVars => NumbersInv'
    <2> SUFFICES ASSUME NumbersInv, UNCHANGED numberVars PROVE NumbersInv'
      OBVIOUS
    <2>1. task' = task /\ loop' = loop /\ answer' = answer
      BY DEF numberVars
    <2>2. TaskWhole' /\ NumbersTyped' /\ PowUnderWay'
      BY <2>1 DEF NumbersInv, TaskWhole, NumbersTyped, PowUnderWay, Computing
    <2>3. IntegersAreExact' /\ KeysFollowEquality'
      BY <2>1 DEF NumbersInv, NumbersAreExact, IntegersAreExact, PowIsExact, IntDivisionTruncates, KeysFollowEquality,
                  Answered, Answer, Panics
    <2>4. DivisionIsExact'
      BY <2>1, Zenon DEF NumbersInv, NumbersAreExact, DecimalsAreExact, DivisionIsExact, Answered, Answer
    <2>5. DivideRoundsAsAsked' /\ ToIntIsExact' /\ SumsAreExact'
      BY <2>1 DEF NumbersInv, NumbersAreExact, DecimalsAreExact, DivideRoundsAsAsked, ToIntIsExact, SumsAreExact,
                  Answered, Answer, Panics
    <2> QED
      BY <2>2, <2>3, <2>4, <2>5 DEF NumbersInv, NumbersAreExact, DecimalsAreExact
  <1>2. NumbersInv /\ [NumbersNext]_numberVars => NumbersInv'
    BY <1>1, RefuseExponentInv, PowStepInv, PowDoneInv, ComputeIntInv, ComputeInv DEF NumbersNext
  <1> QED
    BY <1>2, NumbersInitInv, PTL DEF NumbersSpec

(* int_overflow.md: a power of an Int is the power when it fits and None when
   it does not, although the loop multiplies and squares in another order;
   and the quotient and the remainder of every two Ints rebuild the dividend,
   or there is no such Int. *)
THEOREM IntegersAlwaysExact == NumbersSpec => []IntegersAreExact
  <1>1. NumbersInv => IntegersAreExact
    BY DEF NumbersInv, NumbersAreExact
  <1> QED
    BY <1>1, NumbersInvariant, PTL

(* decimal.rs: a quotient without a scale is exact, or no number of digits
   makes it so, or a limit is exceeded; one with a scale is rounded as the
   mode asks, for all eight modes and every sign (syntax.md:5760); a sum and
   a remainder are the exact ones, whatever the scales; toInt answers the
   value, or there is no such Int. *)
THEOREM DecimalsAlwaysExact == NumbersSpec => []DecimalsAreExact
  <1>1. NumbersInv => DecimalsAreExact
    BY DEF NumbersInv, NumbersAreExact
  <1> QED
    BY <1>1, NumbersInvariant, PTL

(* All the numbers promise (numeric.rs, decimal.rs): Ints and Decimals as
   above, and the order found from the places of the first digits is the
   order of the values, equal exactly when the keys that are hashed are. *)
THEOREM NumbersAlwaysExact == NumbersSpec => []NumbersAreExact
  <1>1. NumbersInv => NumbersAreExact
    BY DEF NumbersInv
  <1> QED
    BY <1>1, NumbersInvariant, PTL

=============================================================================
