----------------------------- MODULE BlockMachine -----------------------------
(***************************************************************************)
(* The interpreter running the basic blocks of one callable body           *)
(* (rust/crates/lume/src/interpreter.rs, call_function), next to what the  *)
(* statements of the body promise.  The lowering that made the blocks and  *)
(* the meaning of the statements are parameters: modules Lowering and      *)
(* SourceOrder.                                                            *)
(*                                                                         *)
(* Values are strings: what a call answers, the payload of a lifted value, *)
(* "unit".  A call of a name in Questions answers "true" or "false" (a     *)
(* condition, a pattern that matches or not, a lifted value that holds a   *)
(* payload or not, an iterator that has an item or not); a call of any     *)
(* other name answers that name.  The calls made, with their arguments and *)
(* in their order, are what a program can observe.                         *)
(***************************************************************************)
EXTENDS Naturals, Sequences, SequencesExt

CONSTANTS
  CallableBodies,  \* the callable bodies considered
  Questions,       \* the names whose call answers "true" or "false"
  MaxAnswers,      \* bound on the questions one execution asks
  Compiled(_),     \* the blocks of a body, and how many locals they use
  Intended(_, _)   \* what a body does when its questions get given answers

VARIABLES
  body,      \* the callable body, as core statements
  code,      \* the basic blocks it was lowered to
  block,     \* the block being executed
  index,     \* the statement of it to execute next
  locals,    \* the frame's locals: 1 is x, the others are temporaries
  answers,   \* the answers given so far to the questions asked
  trace,     \* the calls made so far
  result     \* what the body returned, "none" while it runs

blockVars == <<body, code, block, index, locals, answers, trace, result>>

ASSUME BoundAssumption == MaxAnswers \in Nat

EvalOperand(v) == IF v.k = "const" THEN v.value ELSE locals[v.local]

Current == code[block]
AtInstruction == result = "none" /\ index <= Len(Current.code)
Instruction == Current.code[index]
AtEnd == result = "none" /\ index > Len(Current.code)

AtQuestion == AtInstruction /\ Instruction.op = "call" /\ Instruction.id \in Questions
ThisCall == <<Instruction.id, [i \in DOMAIN Instruction.args |-> EvalOperand(Instruction.args[i])]>>

BlocksInit ==
  /\ body \in CallableBodies
  /\ LET L == Compiled(body)
     IN  /\ code = L.blocks
         /\ locals = [n \in 1 .. L.locals |-> "unit"]
  /\ block = 1
  /\ index = 1
  /\ answers = <<>>
  /\ trace = <<>>
  /\ result = "none"

Store(v) == /\ locals' = [locals EXCEPT ![Instruction.target] = v]
            /\ index' = index + 1

\* A call that answers yes or no.
Ask ==
  /\ AtQuestion
  /\ Len(answers) < MaxAnswers
  /\ \E a \in {"true", "false"} : Store(a) /\ answers' = Append(answers, a)
  /\ trace' = Append(trace, ThisCall)
  /\ UNCHANGED <<body, code, block, result>>

\* Any other call.
MakeCall ==
  /\ AtInstruction /\ Instruction.op = "call" /\ ~AtQuestion
  /\ Store(Instruction.id)
  /\ trace' = Append(trace, ThisCall)
  /\ UNCHANGED <<body, code, block, answers, result>>

Evaluate ==
  /\ AtInstruction /\ Instruction.op # "call"
  /\ Store(IF Instruction.op = "extract" THEN "payload" ELSE EvalOperand(Instruction.args[1]))
  /\ UNCHANGED <<body, code, block, answers, trace, result>>

GoTo(b) ==
  /\ block' = b
  /\ index' = 1
  /\ UNCHANGED <<body, code, locals, answers, trace, result>>

Jump == AtEnd /\ Current.term.k = "goto" /\ GoTo(Current.term.to)

Choose ==
  /\ AtEnd /\ Current.term.k = "branch"
  /\ \/ EvalOperand(Current.term.condition) = "true" /\ GoTo(Current.term.then)
     \/ EvalOperand(Current.term.condition) = "false" /\ GoTo(Current.term.else)

Leave ==
  /\ AtEnd /\ Current.term.k = "return"
  /\ result' = EvalOperand(Current.term.value)
  /\ UNCHANGED <<body, code, block, index, locals, answers, trace>>

\* The body returned, or the bound on questions is reached.
Stopped == result # "none" \/ (AtQuestion /\ Len(answers) = MaxAnswers)

Stop == Stopped /\ UNCHANGED blockVars

BlocksNext == Ask \/ MakeCall \/ Evaluate \/ Jump \/ Choose \/ Leave \/ Stop

BlocksSpec == BlocksInit /\ [][BlocksNext]_blockVars

\* The interpreter is one thread that nothing blocks.
FairBlocksSpec == BlocksSpec /\ WF_blockVars(BlocksNext)

-----------------------------------------------------------------------------
(* Properties.                                                             *)

\* What the source does with the answers given so far.
Promise == Intended(body, answers)

\* Safety of the control flow: at every moment the calls the blocks made are
\* the first of those the statements make: no call is skipped, repeated, made
\* out of order or with another argument.  And the blocks never ask a question
\* the source would not ask next (the clause of a condition after one that
\* failed, a guard of a case that did not match, the condition of a loop that
\* was left).
FollowsSource ==
  /\ IsPrefix(trace, Promise.calls)
  /\ AtQuestion => Promise.flow = "asking" /\ Promise.asked = ThisCall /\ trace = Promise.calls

\* A body that returned made every call its source makes, and returned what
\* the source returns: a branch's value is not lost at a join.
ReturnsWhatSourceReturns ==
  result # "none" => /\ Promise.flow \in {"next", "return"}
                     /\ trace = Promise.calls
                     /\ result = Promise.value

\* The blocks never spin without asking or calling: an execution gets to the
\* end of the body or to one question too many for the bound.
Settles == <>Stopped
=============================================================================
