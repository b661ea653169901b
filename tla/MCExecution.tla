----------------------------- MODULE MCExecution ----------------------------
(* The interpreter at work: one behaviour runs a program, with its globals,  *)
(* objects, specs and cleanups, or the basic blocks of one callable body.    *)
EXTENDS MCInterpreter, MCLowering

VARIABLE part   \* what this behaviour runs

\* A run of the test runner that finds no spec, and a body that does nothing.
NothingToTest == [Run(Blank) EXCEPT !.mode = "test"]

ExecutionPrograms == MCPrograms \cup {NothingToTest}

ExecutionBodies == MCCallables \cup {<<>>}

\* The runner has found nothing to test.
InterpreterIdle ==
  /\ program = NothingToTest /\ driver = "done" /\ globalsReady = TRUE
  /\ stack = <<>> /\ calls = <<>> /\ globals = [v \in Globals |-> DefaultValue]
  /\ singletons = [t \in Objects |-> 0] /\ served = [t \in Objects |-> {}] /\ allocated = 0
  /\ nextSpec = 1 /\ diagnostics = <<Raised(NoSite)>> /\ verdicts = <<>>

\* The empty body has run.
BlocksIdle ==
  /\ body = <<>> /\ code = Compiled(body).blocks /\ locals = <<"unit">>
  /\ block = 1 /\ index = 1 /\ answers = <<>> /\ trace = <<>> /\ result = "unit"

ExecutionInit ==
  \/ part = "program" /\ Init /\ BlocksIdle
  \/ part = "blocks" /\ BlocksInit /\ InterpreterIdle

ExecutionNext ==
  /\ UNCHANGED part
  /\ \/ part = "program" /\ Next /\ UNCHANGED blockVars
     \/ part = "blocks" /\ BlocksNext /\ UNCHANGED vars

\* The interpreter is one thread that nothing blocks.
ExecutionSpec ==
  ExecutionInit /\ [][ExecutionNext]_<<part, vars, blockVars>> /\ WF_vars(Next) /\ WF_blockVars(BlocksNext)
=============================================================================
