---------------------------- MODULE Transactions ----------------------------
(* lume/db: JdbcDatabase, JdbcTransaction and `transactionally`.

   Each client is a thread that performs one unit of work on a shared
   Database: a single statement (Database.exec) or a transaction run by
   transactionally, whose `work` may also end the transaction itself.  One
   step is one call of the JDBC driver, so the clients interleave between any
   two of them; every driver call may fail.

   The driver and the connection pool (HikariCP) are external: they are
   modelled from how the adapter uses them. *)
EXTENDS Naturals, FiniteSets

CONSTANTS
  Clients,       \* threads, each with one unit of work
  Connections,   \* the connections the pool holds
  NoConnection,  \* no connection yet
  NoClient,      \* the owner of a connection that is in the pool
  MaxRows,       \* rows one unit of work writes at most
  MayDoubt       \* a commit that fails may have taken effect

ASSUME NoConnectionIsNone == NoConnection \notin Connections

ASSUME NoClientIsNone == NoClient \notin Clients

ASSUME MayDoubtIsBoolean == MayDoubt \in BOOLEAN

ASSUME MaxRowsNat == MaxRows \in Nat

Row == Clients \X (1..MaxRows)

RowsOf(c) == {r \in Row : r[1] = c}

VARIABLES
  unit,      \* what each client is doing; its JdbcTransaction
  owner,     \* who took a connection from the pool, if anybody
  pending,   \* rows written on a connection and not committed
  table,     \* committed rows
  poolOpen,  \* the data source has not been closed
  wrote,     \* auxiliary: rows whose statement succeeded
  events     \* auxiliary: what went wrong in each unit of work

vars == <<unit, owner, pending, table, poolOpen, wrote, events>>

\* The step of the client: `call` is the method of the transaction it is in,
\* `then` who called that: the work itself, transactionally's commit after
\* the work, or its rollback.
At ==
  {"idle", "opening", "work", "commit", "closeCommitted", "rollback",
   "closeRolledBack", "single", "closeSingle", "done"}

\* A driver call that failed, a panic, or a commit called by the work itself.
Event ==
  {"statement", "panic", "autoCommit", "inDoubt", "rollback", "close", "ownCommit"}

Unit ==
  [at : At, call : {"none", "commit", "rollback"}, then : {"work", "commit", "fail"},
   connection : Connections \cup {NoConnection},
   state : {"OPEN", "COMMITTED", "ROLLED_BACK"}, rollbackOnly : BOOLEAN,
   answer : {"none", "ok", "err", "panic"}]

\* The steps of commit() and rollback().
EndSteps == {"commit", "closeCommitted", "rollback", "closeRolledBack"}

\* What the fields of a unit say of each other: a call is under way exactly in
\* its own steps, the connection is closed only by a transaction that is still
\* open, and a step that uses a connection has one.
Placed(u) ==
  /\ u.call = "none" <=> u.at \notin EndSteps
  /\ u.at \in {"closeCommitted", "closeRolledBack"} => u.state = "OPEN"
  /\ u.at \notin {"idle", "done"} => u.connection \in Connections

TypeOK ==
  /\ unit \in [Clients -> {u \in Unit : Placed(u)}]
  /\ owner \in [Connections -> Clients \cup {NoClient}]
  /\ pending \in [Connections -> SUBSET Row]
  /\ table \subseteq Row
  /\ poolOpen \in BOOLEAN
  /\ wrote \in [Clients -> SUBSET Row]
  /\ events \in [Clients -> SUBSET Event]

-----------------------------------------------------------------------------
(* The driver and the pool. *)

Taken(k, c) == owner' = [owner EXCEPT ![k] = c]

\* connection.commit() makes what is pending on k visible.
Committed(k) ==
  /\ table' = table \cup pending[k]
  /\ pending' = [pending EXCEPT ![k] = {}]

\* connection.rollback() forgets it.
Forgotten(k) == pending' = [pending EXCEPT ![k] = {}]

\* connection.close() gives k back, rolling back what is still pending, even
\* when it then throws.
GivenBack(k) ==
  /\ owner' = [owner EXCEPT ![k] = NoClient]
  /\ Forgotten(k)

-----------------------------------------------------------------------------
(* Steps of a client c. *)

Becomes(c, u) == unit' = [unit EXCEPT ![c] = u]

Notes(c, f) == events' = [events EXCEPT ![c] = @ \cup {f}]

Answered(u, a) ==
  [u EXCEPT !.at = "done", !.call = "none", !.then = "work", !.answer = a]

\* Mutant: transactionally gives up when commit fails, without a rollback.
ResumedNoRollback(u, ok) ==
  CASE u.then = "work" -> [u EXCEPT !.at = "work", !.call = "none"]
    [] u.then = "commit" /\ ok -> Answered(u, "ok")
    [] OTHER -> Answered(u, "err")

\* The commit or rollback that u is in returns, successfully or not.
Resumed(u, ok) ==
  CASE u.then = "work" -> [u EXCEPT !.at = "work", !.call = "none"]
    [] u.then = "commit" /\ ok -> Answered(u, "ok")
    [] u.then = "commit" /\ ~ok ->
         [u EXCEPT !.at = "rollback", !.call = "rollback", !.then = "fail"]
    [] u.then = "fail" -> Answered(u, "err")

\* Mutant: commit() passes on the result of the rollback it chose.
ReturnsResult(u, ok) == ok

\* commit() reports failure even when the rollback it chose succeeded.
ReturnsOk(u, ok) == ok /\ ~(u.call = "commit" /\ u.at \in {"rollback", "closeRolledBack"})

\* openConnection, for a transaction or for a single statement.
Open(c, at) ==
  /\ unit[c].at = "idle"
  /\ poolOpen
  /\ \E k \in Connections :
       /\ owner[k] = NoClient
       /\ Taken(k, c)
       /\ Becomes(c, [unit[c] EXCEPT !.at = at, !.connection = k])
  /\ UNCHANGED <<pending, table, poolOpen, wrote, events>>

\* No connection: the pool is closed, stays empty until the timeout, or cannot
\* connect; or the bindings of a single statement are rejected.
OpenFails(c) ==
  /\ unit[c].at = "idle"
  /\ \E a \in {"err", "panic"} : Becomes(c, Answered(unit[c], a))
  /\ UNCHANGED <<owner, pending, table, poolOpen, wrote, events>>

\* beginTransaction
SetAutoCommit(c) ==
  /\ unit[c].at = "opening"
  /\ Becomes(c, [unit[c] EXCEPT !.at = "work"])
  /\ UNCHANGED <<owner, pending, table, poolOpen, wrote, events>>

\* setAutoCommit throws: the connection is not closed.
SetAutoCommitFails(c) ==
  /\ unit[c].at = "opening"
  /\ Becomes(c, Answered(unit[c], "err"))
  /\ Notes(c, "autoCommit")
  /\ UNCHANGED <<owner, pending, table, poolOpen, wrote>>

NewRow(c) == <<c, Cardinality(wrote[c]) + 1>>

\* Mutant: a transaction that is over, or must be rolled back, runs statements.
MayRunAnything(u) == u.at = "work"

\* JdbcTransaction.run lets a statement through.
MayRun(u) == u.at = "work" /\ u.state = "OPEN" /\ ~u.rollbackOnly

Statement(c) ==
  /\ MayRun(unit[c])
  /\ NewRow(c) \in Row
  /\ LET k == unit[c].connection
     IN pending' = [pending EXCEPT ![k] = @ \cup {NewRow(c)}]
  /\ wrote' = [wrote EXCEPT ![c] = @ \cup {NewRow(c)}]
  /\ UNCHANGED <<unit, owner, table, poolOpen, events>>

\* Mutant: the failure of a statement leaves no trace in the transaction.
NotMarked(u) == u

\* A statement throws SQLException.
Marked(u) == [u EXCEPT !.rollbackOnly = TRUE]

\* It may throw when it is closed, after it has written its row.
StatementFails(c) ==
  /\ MayRun(unit[c])
  /\ \E rows \in {{}, {NewRow(c)} \cap Row} :
       pending' = [pending EXCEPT ![unit[c].connection] = @ \cup rows]
  /\ Becomes(c, Marked(unit[c]))
  /\ Notes(c, "statement")
  /\ UNCHANGED <<owner, table, poolOpen, wrote>>

\* work throws a RuntimeException: it passes through transactionally.
WorkPanics(c) ==
  /\ unit[c].at = "work"
  /\ Becomes(c, Answered(unit[c], "panic"))
  /\ Notes(c, "panic")
  /\ UNCHANGED <<owner, pending, table, poolOpen, wrote>>

\* work calls tx.commit(), tx.rollback() or tx.close().
WorkCalls(c) ==
  /\ unit[c].at = "work"
  /\ \E m \in {"commit", "rollback"} :
       /\ Becomes(c, [unit[c] EXCEPT !.at = m, !.call = m, !.then = "work"])
       /\ IF m = "commit" THEN Notes(c, "ownCommit") ELSE UNCHANGED events
  /\ UNCHANGED <<owner, pending, table, poolOpen, wrote>>

\* Mutant: after an Err the transaction is committed.
WorkAlwaysCommits(c) ==
  /\ unit[c].at = "work"
  /\ \E then \in {"commit", "fail"} :
       Becomes(c, [unit[c] EXCEPT !.at = "commit", !.call = "commit", !.then = then])
  /\ UNCHANGED <<owner, pending, table, poolOpen, wrote, events>>

\* work returns Ok, or Err.
WorkReturns(c) ==
  /\ unit[c].at = "work"
  /\ \/ Becomes(c, [unit[c] EXCEPT !.at = "commit", !.call = "commit", !.then = "commit"])
     \/ Becomes(c, [unit[c] EXCEPT !.at = "rollback", !.call = "rollback", !.then = "fail"])
  /\ UNCHANGED <<owner, pending, table, poolOpen, wrote, events>>

\* commit() of a transaction that is over.
CommitTooLate(c) ==
  /\ unit[c].at = "commit" /\ unit[c].state # "OPEN"
  /\ Becomes(c, Resumed(unit[c], unit[c].state = "COMMITTED"))
  /\ UNCHANGED <<owner, pending, table, poolOpen, wrote, events>>

\* commit() after a statement has failed.
CommitRefused(c) ==
  /\ unit[c].at = "commit" /\ unit[c].state = "OPEN" /\ unit[c].rollbackOnly
  /\ Becomes(c, [unit[c] EXCEPT !.at = "rollback"])
  /\ UNCHANGED <<owner, pending, table, poolOpen, wrote, events>>

\* Mutant: commit() forgets to look at the state.
CommitAnyState(u) == u.at = "commit" /\ ~u.rollbackOnly

MayCommit(u) == u.at = "commit" /\ u.state = "OPEN" /\ ~u.rollbackOnly

Commit(c) ==
  /\ MayCommit(unit[c])
  /\ Committed(unit[c].connection)
  /\ Becomes(c, [unit[c] EXCEPT !.at = "closeCommitted"])
  /\ UNCHANGED <<owner, poolOpen, wrote, events>>

\* connection.commit() throws.
CommitFails(c) ==
  /\ MayCommit(unit[c])
  /\ Becomes(c, Resumed(unit[c], FALSE))
  /\ UNCHANGED <<owner, pending, table, poolOpen, wrote, events>>

\* It throws although it took effect: the answer of the database was lost.
CommitInDoubt(c) ==
  /\ MayDoubt
  /\ MayCommit(unit[c])
  /\ Committed(unit[c].connection)
  /\ Becomes(c, Resumed(unit[c], FALSE))
  /\ Notes(c, "inDoubt")
  /\ UNCHANGED <<owner, poolOpen, wrote>>

\* rollback() of a transaction that is over.
RollbackTooLate(c) ==
  /\ unit[c].at = "rollback" /\ unit[c].state # "OPEN"
  /\ Becomes(c, Resumed(unit[c], ReturnsOk(unit[c], TRUE)))
  /\ UNCHANGED <<owner, pending, table, poolOpen, wrote, events>>

Rollback(c) ==
  /\ unit[c].at = "rollback" /\ unit[c].state = "OPEN"
  /\ Forgotten(unit[c].connection)
  /\ Becomes(c, [unit[c] EXCEPT !.at = "closeRolledBack"])
  /\ UNCHANGED <<owner, table, poolOpen, wrote, events>>

\* connection.rollback() throws: the transaction stays open, its connection is
\* not given back.
RollbackFails(c) ==
  /\ unit[c].at = "rollback" /\ unit[c].state = "OPEN"
  /\ Becomes(c, Resumed(unit[c], FALSE))
  /\ Notes(c, "rollback")
  /\ UNCHANGED <<owner, pending, table, poolOpen, wrote>>

\* Mutant: the state is only set when close succeeds.
EndStateAfterClose(u, ok) ==
  IF ~ok THEN u.state
  ELSE IF u.at = "closeCommitted" THEN "COMMITTED" ELSE "ROLLED_BACK"

\* The state closeConnection sets, in a finally block.
EndState(u, ok) == IF u.at = "closeCommitted" THEN "COMMITTED" ELSE "ROLLED_BACK"

CloseConnection(c, ok) ==
  /\ unit[c].at \in {"closeCommitted", "closeRolledBack"}
  /\ GivenBack(unit[c].connection)
  /\ Becomes(c, Resumed([unit[c] EXCEPT !.state = EndState(unit[c], ok)],
                        ReturnsOk(unit[c], ok)))
  /\ IF ok THEN UNCHANGED events ELSE Notes(c, "close")
  /\ UNCHANGED <<table, poolOpen, wrote>>

\* JdbcDatabase.run: one statement on a connection that commits by itself;
\* closing the statement may fail.
Single(c, ok) ==
  /\ unit[c].at = "single"
  /\ NewRow(c) \in Row
  /\ table' = table \cup {NewRow(c)}
  /\ wrote' = [wrote EXCEPT ![c] = @ \cup {NewRow(c)}]
  /\ Becomes(c, [unit[c] EXCEPT !.at = "closeSingle"])
  /\ IF ok THEN UNCHANGED events ELSE Notes(c, "close")
  /\ UNCHANGED <<owner, pending, poolOpen>>

SingleFails(c) ==
  /\ unit[c].at = "single"
  /\ Becomes(c, [unit[c] EXCEPT !.at = "closeSingle"])
  /\ \E f \in {"statement", "panic"} : Notes(c, f)
  /\ UNCHANGED <<owner, pending, table, poolOpen, wrote>>

\* The connection is closed in any case; an exception of close is the answer
\* unless the statement had one.
CloseSingle(c, ok) ==
  /\ unit[c].at = "closeSingle"
  /\ GivenBack(unit[c].connection)
  /\ Becomes(c, Answered(unit[c],
       IF "panic" \in events[c] THEN "panic"
       ELSE IF events[c] \cap {"statement", "close"} # {} \/ ~ok THEN "err" ELSE "ok"))
  /\ IF ok THEN UNCHANGED events ELSE Notes(c, "close")
  /\ UNCHANGED <<table, poolOpen, wrote>>

\* JdbcDatabase.close
ClosePool ==
  /\ poolOpen
  /\ poolOpen' = FALSE
  /\ UNCHANGED <<unit, owner, pending, table, wrote, events>>

-----------------------------------------------------------------------------
Init ==
  /\ unit = [c \in Clients |->
       [at |-> "idle", call |-> "none", then |-> "work", connection |-> NoConnection,
        state |-> "OPEN", rollbackOnly |-> FALSE, answer |-> "none"]]
  /\ owner = [k \in Connections |-> NoClient]
  /\ pending = [k \in Connections |-> {}]
  /\ table = {}
  /\ poolOpen = TRUE
  /\ wrote = [c \in Clients |-> {}]
  /\ events = [c \in Clients |-> {}]

BeginStep(c) ==
  Open(c, "opening") \/ Open(c, "single") \/ OpenFails(c) \/ SetAutoCommit(c) \/ SetAutoCommitFails(c)

WorkStep(c) ==
  Statement(c) \/ StatementFails(c) \/ WorkPanics(c) \/ WorkCalls(c) \/ WorkReturns(c)

EndStep(c) ==
  \/ CommitTooLate(c) \/ CommitRefused(c) \/ Commit(c) \/ CommitFails(c) \/ CommitInDoubt(c)
  \/ RollbackTooLate(c) \/ Rollback(c) \/ RollbackFails(c)
  \/ \E ok \in BOOLEAN : CloseConnection(c, ok)

SingleStep(c) ==
  SingleFails(c) \/ \E ok \in BOOLEAN : Single(c, ok) \/ CloseSingle(c, ok)

ClientStep(c) == BeginStep(c) \/ WorkStep(c) \/ EndStep(c) \/ SingleStep(c)

Next == (\E c \in Clients : ClientStep(c)) \/ ClosePool

Spec == Init /\ [][Next]_vars

\* Every thread goes on, and every work returns or panics in the end.
FairSpec ==
  Spec /\ \A c \in Clients : WF_vars(ClientStep(c)) /\ SF_vars(WorkReturns(c) \/ WorkPanics(c))

-----------------------------------------------------------------------------
(* Properties. *)

Visible(c) == table \cap RowsOf(c)

Had(c, es) == events[c] \cap es # {}

\* The rows a unit of work wrote become visible together or not at all, unless
\* the database lost the answer to a commit, after which a work that called
\* commit itself may go on writing (JdbcTransaction.commit leaves the state
\* OPEN when connection.commit() throws).
AllOrNothing ==
  \A c \in Clients : Had(c, {"inDoubt"}) \/ Visible(c) \in {{}, wrote[c]}

\* A work may ignore a failed statement and return Ok, or commit: what it
\* wrote, before or after, is never committed (rollbackOnly).
FailedStatementUndone ==
  \A c \in Clients : Had(c, {"statement"}) => Had(c, {"inDoubt"}) \/ Visible(c) = {}

\* transactionally, or exec, answers Ok only if everything was committed: a
\* commit that is too late, refused or failed is never taken for one that
\* succeeded.
OkMeansCommitted ==
  \A c \in Clients : unit[c].answer = "ok" => wrote[c] \subseteq table /\ ~Had(c, {"statement"})

\* An Err is the whole truth unless the statement or the connection could not be
\* closed after the commit, the commit was in doubt, or the work had committed by itself.
ErrMeansUndone ==
  \A c \in Clients :
    unit[c].answer = "err" /\ Visible(c) # {} => Had(c, {"close", "inDoubt", "ownCommit"})

\* The driver may still be called on connection k for the client c.
Uses(c, k) ==
  /\ unit[c].connection = k
  /\ unit[c].at \notin {"idle", "done"}
  /\ unit[c].state = "OPEN"

\* No call reaches a connection that has been given back, or that another unit
\* of work has taken since, whichever of the calls before it failed; and no
\* connection goes back, or to its next owner, with rows that are not committed.
ConnectionsSeparate ==
  \A k \in Connections :
    /\ \A c \in Clients : Uses(c, k) => owner[k] = c
    /\ owner[k] = NoClient => pending[k] = {}
    /\ owner[k] # NoClient => pending[k] \subseteq RowsOf(owner[k])

\* A unit of work that is over has given its connection back, except in the
\* three cases the code does not cover: setAutoCommit threw in
\* beginTransaction, every rollback threw, or the work panicked.
LeakOnlyAfterFault ==
  \A k \in Connections, c \in Clients :
    owner[k] = c /\ unit[c].at = "done" => Had(c, {"autoCommit", "rollback", "panic"})

\* A connection taken by a unit of work in which none of those three went wrong.
Lent(k) ==
  \E c \in Clients : owner[k] = c /\ ~Had(c, {"autoCommit", "rollback", "panic"})

\* Nobody keeps a connection for ever, whatever the others do and in which of
\* its calls the driver fails, except in those three cases.
ConnectionsComeBack == \A k \in Connections : Lent(k) ~> ~Lent(k)

\* Seen through the table and the answers, a Database is a set of units of work
\* (commits in doubt aside): each call of the driver is a step of UnitOfWork or
\* is invisible.
Abstract ==
  INSTANCE UnitOfWork WITH
    broken <- [c \in Clients |-> Had(c, {"statement"})],
    answer <- [c \in Clients |-> unit[c].answer]

ImplementsUnitOfWork == Abstract!Spec
=============================================================================
