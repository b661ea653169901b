-------------------------------- MODULE Files --------------------------------
(***************************************************************************)
(* Reading one file, as the interpreter does it                            *)
(* (rust/crates/lume/src/interpreter.rs: FileStream, TextFileReader) and as *)
(* the Java runtime does it (lume/core: LumeFileStream, LumeTextFileReader), *)
(* side by side: every call is answered by both.  Reads may fail, anywhere, *)
(* and in Java closing may.                                                *)
(*                                                                         *)
(* A byte is "a", "cr", "lf" or "bad", one that no UTF-8 text holds;         *)
(* positions count the bytes before them.  The names of files, opening them *)
(* and the text of messages are left out; a file does not change while it   *)
(* is read.  Memory for what is read is taken to be there, but for a read   *)
(* that asks for more bytes than a Java array holds.                       *)
(***************************************************************************)
EXTENDS Integers, Sequences, SequencesExt, FiniteSetsExt

CONSTANTS
  FileContents,   \* the files, sequences of bytes
  Offsets,        \* what a program seeks by, and the bytes it asks for
  MaxOffset,      \* the largest Int
  MaxRead,        \* the longest array of Java, Integer.MAX_VALUE
  MaxFaults       \* Bound: the calls that fail

FileBytes == {"a", "bad", "cr", "lf"}

(* No file is longer than the largest Int. *)
ASSUME FilesAssumption ==
  /\ MaxOffset \in Nat /\ MaxRead \in 0 .. MaxOffset /\ MaxFaults \in Nat /\ Offsets \subseteq Int
  /\ \A f \in FileContents : f \in Seq(FileBytes) /\ Len(f) <= MaxOffset

VARIABLES
  file,
  reading,     \* "text" or "bytes"
  at,          \* the position of the file itself, as the interpreter has it open
  javaAt,      \* the same of Java; only reads of bytes part the two
  open,        \* [rust, java]: whether it holds the file
  position,    \* [rust, java]: the position its text reader keeps
  start,       \* where the file was before the last call
  asked,       \* auxiliary: the most bytes a read has asked for
  replies,     \* [rust, java]: what they answered
  faults       \* the calls that failed

fileVars == <<file, reading, at, javaAt, open, position, start, asked, replies, faults>>

Both(value) == [rust |-> value, java |-> value]
Reply(kind, what) == [kind |-> kind, what |-> what]
Closed == Reply("Closed", << >>)
IoFailure == Reply("IoFailure", << >>)
Unit == Reply("Ok", << >>)

Bytes(from, to) == SubSeq(file, from + 1, to)

Call(kind) ==
  /\ reading = kind /\ start' = at
  /\ UNCHANGED <<file, reading>>

Reads(kind) == Call(kind) /\ open.rust

Fault == faults < MaxFaults /\ faults' = faults + 1

----------------------------------------------------------------------------
(* TextFileReader *)

(* The text of bytes read from base, or the offset where it stops being one. *)
DecodeText(kind, bytes, base) ==
  LET bad == {i \in DOMAIN bytes : bytes[i] = "bad"} IN
  IF bad = {} THEN Reply(kind, bytes) ELSE Reply("InvalidEncoding", <<base + Min(bad) - 1>>)

LineEnd ==
  LET feeds == {i \in at + 1 .. Len(file) : file[i] = "lf"}
  IN IF feeds = {} THEN Len(file) ELSE Min(feeds)

IsFed(bytes) == bytes # << >> /\ Last(bytes) = "lf"

(* Without its line feed and the carriage return before it. *)
Stripped(bytes) ==
  IF ~IsFed(bytes) THEN bytes
  ELSE IF Len(bytes) > 1 /\ bytes[Len(bytes) - 1] = "cr" THEN SubSeq(bytes, 1, Len(bytes) - 2)
  ELSE Front(bytes)

Line(bytes, base) ==
  IF bytes = << >> THEN Reply("None", << >>) ELSE DecodeText("Some", Stripped(bytes), base)

\* Mutant: the position is counted without the ends of the lines.
CountsText(reader, to) == position[reader] + Len(Stripped(Bytes(at, to)))

Counted(reader, to) == position[reader] + (to - at)

(* Both count what a call has read.  Bytes read before it fails are lost; of
   these only readLine of Java, which counts one by one, has counted any. *)
Got(to) ==
  /\ at' = to /\ javaAt' = to
  /\ position' = [rust |-> Counted("rust", to), java |-> Counted("java", to)]
  /\ UNCHANGED <<open, asked, faults>>

Lost(to, counted) ==
  /\ Fault /\ at' = to /\ javaAt' = to
  /\ position' = IF counted THEN [position EXCEPT !.java = Counted("java", to)] ELSE position
  /\ replies' = Both(IoFailure)
  /\ UNCHANGED <<open, asked>>

ReadLine ==
  /\ Reads("text")
  /\ LET bytes == Bytes(at, LineEnd) IN
     \/ /\ Got(LineEnd)
        /\ replies' = [rust |-> Line(bytes, position.rust), java |-> Line(bytes, position.java)]
     \/ \E to \in at .. (IF IsFed(bytes) THEN LineEnd - 1 ELSE LineEnd) : Lost(to, TRUE)

ReadTextToEnd ==
  /\ Reads("text")
  /\ LET bytes == Bytes(at, Len(file)) IN
     \/ /\ Got(Len(file))
        /\ replies' = [rust |-> DecodeText("Ok", bytes, position.rust),
                       java |-> DecodeText("Ok", bytes, position.java)]
     \/ \E to \in at .. Len(file) : Lost(to, FALSE)

----------------------------------------------------------------------------
(* FileStream *)

Stay == UNCHANGED <<open, position>>

(* Where n bytes read from a position end; behind the end of the file there are none. *)
Reached(from, n) == Max({from, Min({from + n, Len(file)})})

Refused == replies' = Both(IoFailure) /\ UNCHANGED <<at, javaAt>>

(* The system gives n bytes, or what is left.  Java refuses a read of more than
   it has an array for before it asks the system. *)
Gives(n, max) ==
  /\ at' = Reached(at, n)
  /\ javaAt' = IF max <= MaxRead THEN Reached(javaAt, n) ELSE javaAt
  /\ replies' = [rust |-> Reply("Ok", Bytes(at, Reached(at, n))),
                 java |-> IF max <= MaxRead THEN Reply("Ok", Bytes(javaAt, Reached(javaAt, n)))
                          ELSE IoFailure]

(* A read may be short.  The interpreter refuses one it cannot reserve the
   memory for. *)
Read ==
  /\ Reads("bytes")
  /\ \E max \in Offsets :
       /\ asked' = Max({asked, max})
       /\ \/ /\ max >= 0
             /\ \E n \in Min({1, max}) .. max : Gives(n, max)
             /\ UNCHANGED faults
          \/ (max < 0 \/ max > MaxRead) /\ Refused /\ UNCHANGED faults
          \/ max >= 0 /\ Fault /\ Refused
  /\ Stay

ReadBytesToEnd ==
  /\ Reads("bytes")
  /\ \/ /\ at' = Reached(at, Len(file)) /\ javaAt' = Reached(javaAt, Len(file))
        /\ replies' = [rust |-> Reply("Ok", Bytes(at, Len(file))),
                       java |-> Reply("Ok", Bytes(javaAt, Len(file)))]
        /\ UNCHANGED faults
     \/ \E n \in 0 .. Len(file) :
          /\ Fault
          /\ at' = Reached(at, n) /\ javaAt' = Reached(javaAt, n) /\ replies' = Both(IoFailure)
  /\ Stay /\ UNCHANGED asked

Origin(from, here) ==
  CASE from = "Start" -> 0 [] from = "Current" -> here [] from = "End" -> Len(file)

Sought(target) == IF target \in 0 .. MaxOffset THEN Reply("Ok", <<target>>) ELSE IoFailure

Moved(here, target) == IF target \in 0 .. MaxOffset THEN target ELSE here

(* A target that is no position is refused: by the stream itself in Java, by
   the operating system for the interpreter. *)
Seek ==
  /\ Reads("bytes")
  /\ \E offset \in Offsets, from \in {"Start", "Current", "End"} :
       LET target == Origin(from, at) + offset
           javaTarget == Origin(from, javaAt) + offset
       IN /\ at' = Moved(at, target) /\ javaAt' = Moved(javaAt, javaTarget)
          /\ replies' = [rust |-> Sought(target), java |-> Sought(javaTarget)]
  /\ Stay /\ UNCHANGED <<asked, faults>>

----------------------------------------------------------------------------
(* Both *)

(* The interpreter drops the file, which cannot fail.  In Java closing can: the
   reader keeps the channel, which counts as closed all the same, and closing it
   once more succeeds. *)
Close ==
  /\ Call(reading)
  /\ \/ open' = Both(FALSE) /\ replies' = Both(Unit) /\ UNCHANGED faults
     \/ /\ open.rust /\ Fault
        /\ open' = [rust |-> FALSE, java |-> TRUE]
        /\ replies' = [rust |-> Unit, java |-> IoFailure]
  /\ UNCHANGED <<at, javaAt, position, asked>>

(* A read of what was closed.  The interpreter looks at the argument before it
   notices, Java the other way round. *)
ReadClosed ==
  /\ Call(reading) /\ ~open.rust
  /\ \E wrong \in {FALSE, reading = "bytes"} :
       replies' = [rust |-> IF wrong THEN IoFailure ELSE Closed,
                   java |-> IF open.java THEN IoFailure ELSE Closed]
  /\ Stay /\ UNCHANGED <<at, javaAt, asked, faults>>

----------------------------------------------------------------------------

FilesIdle ==
  /\ file = << >> /\ reading = "nothing" /\ at = 0 /\ javaAt = 0 /\ open = Both(FALSE)
  /\ position = Both(0) /\ start = 0 /\ asked = 0 /\ replies = Both(Unit) /\ faults = 0

FilesInit ==
  /\ file \in FileContents /\ reading \in {"text", "bytes"}
  /\ at = 0 /\ javaAt = 0 /\ open = Both(TRUE) /\ position = Both(0)
  /\ start = 0 /\ asked = 0 /\ replies = Both(Unit) /\ faults = 0

FilesNext ==
  ReadLine \/ ReadTextToEnd \/ Read \/ ReadBytesToEnd \/ Seek \/ Close \/ ReadClosed

FilesSpec == FilesInit /\ [][FilesNext]_fileVars

----------------------------------------------------------------------------

FilesTypeOK ==
  /\ reading \in {"nothing", "text", "bytes"}
  /\ {at, javaAt, start} \subseteq 0 .. MaxOffset /\ asked \in Nat /\ faults \in 0 .. MaxFaults
  /\ open \in [{"rust", "java"} -> BOOLEAN] /\ open.rust => open.java
  /\ \A r \in {"rust", "java"} : position[r] \in 0 .. Len(file)

(* Where the bytes after `from` stop being text. *)
FirstBad(from) == Min({i \in from + 1 .. Len(file) : file[i] = "bad"}) - 1

(* The interpreter and the Java runtime read a file alike, as long as no read
   asks for more bytes than a Java array holds: until a call fails they answer
   the same, but for a wrong argument to a closed stream, and the offset of an
   encoding error is the one of the byte at fault.  After a failed read they
   still answer with text, or bytes, or fail, alike; the offsets fall behind the
   file, those of the interpreter at least as far. *)
FilesReadAlike ==
  /\ faults = 0 /\ asked <= MaxRead =>
       /\ replies.rust = replies.java \/ (replies.java = Closed /\ replies.rust = IoFailure)
       /\ replies.java.kind = "InvalidEncoding" => replies.java.what = <<FirstBad(start)>>
  /\ open.rust /\ asked <= MaxRead => replies.rust.kind = replies.java.kind
  /\ open.rust /\ reading = "text" => position.rust <= position.java /\ position.java <= at
=============================================================================
