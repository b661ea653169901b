------------------------- MODULE TransactionsProofs -------------------------
(* What Transactions promises its clients, for any number of clients and of
   pooled connections and whichever calls of the driver fail.

   Every step is a step of one client.  The invariant therefore says, for each
   client, how its unit of work, the rows it wrote, the rows of its own that
   are visible, the events, the connections it owns and the rows pending on
   them fit together (Sound), and a step of one client leaves all of these
   alone for the others (Frame), because what is pending on a connection
   belongs to its owner (PendingOwned). *)
EXTENDS Transactions, TLAPS

Mine(c) == {k \in Connections : owner[k] = c}

Rows(c) == UNION {pending[k] : k \in Mine(c)}

Faults == {"autoCommit", "rollback", "panic"}

Excuses == {"close", "inDoubt", "ownCommit"}

\* A unit owns a connection from Open until it is given back, and keeps it for
\* good only after one of the three faults.
Owning(u, E, mine) ==
  /\ mine \subseteq {u.connection}
  /\ u.at \notin {"idle", "done"} /\ u.state = "OPEN" => mine = {u.connection}
  /\ u.at = "idle" \/ u.state # "OPEN" => mine = {}
  /\ u.at = "done" /\ mine # {} => E \cap Faults # {}

\* Who is called by whom, and when there is an answer.
Calling(u, E) ==
  /\ u.at \in {"commit", "closeCommitted"} => u.call = "commit"
  /\ u.at \in EndSteps /\ u.then = "commit" => u.call = "commit"
  /\ u.at \in EndSteps /\ u.then = "fail" => u.call = "rollback"
  /\ u.call = "commit" /\ u.then = "work" => "ownCommit" \in E
  /\ u.answer = "none" <=> u.at # "done"

\* Before the first statement.
Fresh(u, W, V, E, rows) ==
  u.at \in {"idle", "opening", "single"} =>
    /\ W = {} /\ V = {} /\ rows = {} /\ E = {}
    /\ u.state = "OPEN" /\ ~u.rollbackOnly

\* A transaction that has not ended: nothing is visible, and what is pending is
\* what was written unless it is going to be rolled back.
Working(u, W, V, E, rows) ==
  /\ u.at \in {"work"} \cup EndSteps /\ u.state = "OPEN" =>
       ("statement" \in E <=> u.rollbackOnly)
  /\ u.at \in {"work", "commit", "rollback", "closeRolledBack"} /\ u.state = "OPEN" =>
       "inDoubt" \in E \/ V = {}
  /\ u.at \in {"work", "commit", "rollback"} /\ u.state = "OPEN" /\ ~u.rollbackOnly =>
       rows \subseteq W /\ W \subseteq rows \cup V

\* A unit of work that has ended, or is giving its connection back.
Over(u, W, V, E) ==
  /\ u.at = "closeCommitted" \/ u.state = "COMMITTED" \/ u.answer = "ok" =>
       W \subseteq V /\ "statement" \notin E
  /\ u.at = "closeSingle" => W \subseteq V /\ u.state = "OPEN"
  /\ u.state = "ROLLED_BACK" => "inDoubt" \in E \/ V = {}

\* What the rows of a unit look like to the others.
Seen(u, W, V, E) ==
  /\ "inDoubt" \in E \/ V \in {{}, W}
  /\ "statement" \in E => "inDoubt" \in E \/ V = {}
  /\ V # {} =>
       \/ E \cap Excuses # {}
       \/ u.at = "closeCommitted" /\ u.then = "commit"
       \/ u.at = "closeSingle" /\ "statement" \notin E /\ "panic" \notin E
       \/ u.answer = "ok"

Sound(u, W, V, E, mine, rows) ==
  /\ Owning(u, E, mine)
  /\ Calling(u, E)
  /\ Fresh(u, W, V, E, rows)
  /\ Working(u, W, V, E, rows)
  /\ Over(u, W, V, E)
  /\ Seen(u, W, V, E)

ClientSound(c) == Sound(unit[c], wrote[c], Visible(c), events[c], Mine(c), Rows(c))

PendingOwned ==
  \A k \in Connections :
    /\ owner[k] = NoClient => pending[k] = {}
    /\ owner[k] # NoClient => pending[k] \subseteq RowsOf(owner[k])

IInv == TypeOK /\ PendingOwned /\ \A c \in Clients : ClientSound(c)

-----------------------------------------------------------------------------
(* The records a step leaves behind. *)

GoodUnit == {u \in Unit : Placed(u)}

LEMMA AnsweredUnit ==
  ASSUME NEW u \in Unit, NEW a \in {"ok", "err", "panic"}
  PROVE  /\ Answered(u, a) \in GoodUnit
         /\ Answered(u, a).at = "done"
         /\ Answered(u, a).call = "none"
         /\ Answered(u, a).answer = a
         /\ Answered(u, a).connection = u.connection
         /\ Answered(u, a).state = u.state
         /\ Answered(u, a).rollbackOnly = u.rollbackOnly
  BY DEF GoodUnit, Unit, Placed, Answered, EndSteps, At

\* The unit stays in the transaction: at another step, in another call.
LEMMA MovedUnit ==
  ASSUME NEW u \in Unit, u.connection \in Connections,
         NEW at \in {"work"} \cup EndSteps, NEW call \in {"none", "commit", "rollback"},
         NEW then \in {"work", "commit", "fail"},
         call = "none" <=> at = "work",
         at \in {"closeCommitted", "closeRolledBack"} => u.state = "OPEN"
  PROVE  [u EXCEPT !.at = at, !.call = call, !.then = then] \in GoodUnit
  BY DEF GoodUnit, Unit, Placed, EndSteps, At

\* What Resumed makes of a unit: where it goes on, and what it answers.
Resumes(u, ok, v) ==
  /\ v \in GoodUnit
  /\ v.connection = u.connection
  /\ v.state = u.state
  /\ v.rollbackOnly = u.rollbackOnly
  /\ u.then = "work" =>
       v.at = "work" /\ v.call = "none" /\ v.answer = u.answer
  /\ u.then = "commit" /\ ~ok =>
       v.at = "rollback" /\ v.call = "rollback" /\ v.then = "fail" /\ v.answer = u.answer
  /\ u.then = "commit" /\ ok => v.at = "done" /\ v.call = "none" /\ v.answer = "ok"
  /\ u.then = "fail" => v.at = "done" /\ v.call = "none" /\ v.answer = "err"

LEMMA ResumedUnit ==
  ASSUME NEW u \in Unit, u.connection \in Connections, NEW ok \in BOOLEAN
  PROVE  Resumes(u, ok, Resumed(u, ok))
<1>0. u.then \in {"work", "commit", "fail"}
  BY DEF Unit
<1>1. CASE u.then = "work"
  <2>1. Resumed(u, ok) = [u EXCEPT !.at = "work", !.call = "none"]
    BY <1>1 DEF Resumed
  <2>2. [u EXCEPT !.at = "work", !.call = "none"] \in GoodUnit
    BY <1>0 DEF GoodUnit, Unit, Placed, EndSteps, At
  <2>. QED  BY <1>0, <1>1, <2>1, <2>2 DEF Resumes, Unit
<1>2. CASE u.then = "commit" /\ ~ok
  <2>1. Resumed(u, ok) = [u EXCEPT !.at = "rollback", !.call = "rollback", !.then = "fail"]
    BY <1>2 DEF Resumed
  <2>2. [u EXCEPT !.at = "rollback", !.call = "rollback", !.then = "fail"] \in GoodUnit
    BY <1>0, MovedUnit DEF EndSteps
  <2>. QED  BY <1>0, <1>2, <2>1, <2>2 DEF Resumes, Unit
<1>3. CASE u.then = "commit" /\ ok
  <2>1. Resumed(u, ok) = Answered(u, "ok")
    BY <1>3 DEF Resumed
  <2>2. PICK v : v = Answered(u, "ok")
    OBVIOUS
  <2>3. /\ v \in GoodUnit
        /\ v.at = "done" /\ v.call = "none" /\ v.answer = "ok"
        /\ v.connection = u.connection /\ v.state = u.state
        /\ v.rollbackOnly = u.rollbackOnly
    BY <2>2, AnsweredUnit
  <2>. QED  BY <1>3, <2>1, <2>2, <2>3 DEF Resumes
<1>4. CASE u.then = "fail"
  <2>1. Resumed(u, ok) = Answered(u, "err")
    BY <1>4 DEF Resumed
  <2>2. PICK v : v = Answered(u, "err")
    OBVIOUS
  <2>3. /\ v \in GoodUnit
        /\ v.at = "done" /\ v.call = "none" /\ v.answer = "err"
        /\ v.connection = u.connection /\ v.state = u.state
        /\ v.rollbackOnly = u.rollbackOnly
    BY <2>2, AnsweredUnit
  <2>. QED  BY <1>4, <2>1, <2>2, <2>3 DEF Resumes
<1>. QED  BY <1>0, <1>1, <1>2, <1>3, <1>4

-----------------------------------------------------------------------------
(* How one unit moves: lemmas about Sound alone. *)

\* A call that is over resumes: nothing changes but the unit, and the events
\* grow by f.
LEMMA ResumeSound ==
  ASSUME NEW u \in GoodUnit, NEW v, NEW ok \in BOOLEAN, Resumes(u, ok, v),
         u.at \in EndSteps,
         NEW W, NEW V, NEW E, NEW f, NEW mine, NEW rows,
         Sound(u, W, V, E, mine, rows),
         f \subseteq {"rollback"},
         u.at \in {"commit", "rollback"},
         u.at = "rollback" /\ u.state = "OPEN" => f = {"rollback"},
         ok => u.state # "OPEN",
         ok /\ u.then = "commit" => u.state = "COMMITTED"
  PROVE  Sound(v, W, V, E \cup f, mine, rows)
<1>0. /\ u.then \in {"work", "commit", "fail"}
      /\ u.state \in {"OPEN", "COMMITTED", "ROLLED_BACK"}
      /\ u.answer = "none"
      /\ v \in Unit
  BY DEF GoodUnit, Unit, Sound, Calling, EndSteps, Resumes
<1>1. \A e : e # "rollback" => (e \in E \cup f <=> e \in E)
  OBVIOUS
<1>2. Owning(v, E \cup f, mine)
  BY <1>0 DEF Sound, Owning, Calling, Resumes, Faults, EndSteps
<1>3. Calling(v, E \cup f)
  BY <1>0 DEF Sound, Calling, Resumes, EndSteps
<1>4. Fresh(v, W, V, E \cup f, rows)
  BY <1>0 DEF Fresh, Resumes
<1>5. Working(v, W, V, E \cup f, rows)
  BY <1>0, <1>1 DEF Sound, Working, Resumes, EndSteps
<1>6. Over(v, W, V, E \cup f)
  BY <1>0, <1>1 DEF Sound, Over, Calling, Resumes, EndSteps
<1>7. Seen(v, W, V, E \cup f)
  BY <1>0, <1>1 DEF Sound, Seen, Calling, Resumes, EndSteps, Excuses
<1>. QED  BY <1>2, <1>3, <1>4, <1>5, <1>6, <1>7 DEF Sound

\* A commit in doubt: everything pending is visible now, and it has failed.
LEMMA DoubtSound ==
  ASSUME NEW u \in GoodUnit, NEW v, Resumes(u, FALSE, v), MayCommit(u),
         NEW W, NEW V, NEW E, NEW mine, NEW rows,
         Sound(u, W, V, E, mine, rows)
  PROVE  Sound(v, W, V \cup rows, E \cup {"inDoubt"}, mine, {})
<1>0. /\ u.then \in {"work", "commit", "fail"}
      /\ u.at = "commit" /\ u.state = "OPEN" /\ ~u.rollbackOnly
      /\ u.answer = "none" /\ u.call = "commit"
      /\ v \in Unit
  BY DEF GoodUnit, Unit, Sound, Calling, EndSteps, Resumes, MayCommit
<1>1. \A e : e # "inDoubt" => (e \in E \cup {"inDoubt"} <=> e \in E)
  OBVIOUS
<1>2. Owning(v, E \cup {"inDoubt"}, mine)
  BY <1>0 DEF Sound, Owning, Calling, Resumes, Faults, EndSteps
<1>3. Calling(v, E \cup {"inDoubt"})
  BY <1>0 DEF Sound, Calling, Resumes, EndSteps
<1>4. Fresh(v, W, V \cup rows, E \cup {"inDoubt"}, {})
  BY <1>0 DEF Fresh, Resumes
<1>5. Working(v, W, V \cup rows, E \cup {"inDoubt"}, {})
  <2>1. "statement" \notin E /\ W \subseteq rows \cup V
    BY <1>0 DEF Sound, Working, EndSteps
  <2>. QED  BY <1>0, <1>1, <2>1 DEF Working, Resumes
<1>6. Over(v, W, V \cup rows, E \cup {"inDoubt"})
  BY <1>0, <1>1 DEF Sound, Over, Calling, Resumes, EndSteps
<1>7. Seen(v, W, V \cup rows, E \cup {"inDoubt"})
  BY <1>0, <1>1 DEF Seen, Excuses
<1>. QED  BY <1>2, <1>3, <1>4, <1>5, <1>6, <1>7 DEF Sound

\* The commit succeeds.
LEMMA CommitSound ==
  ASSUME NEW u \in GoodUnit, MayCommit(u),
         NEW W, NEW V, NEW E, NEW mine, NEW rows,
         Sound(u, W, V, E, mine, rows)
  PROVE  Sound([u EXCEPT !.at = "closeCommitted"], W, V \cup rows, E, mine, {})
<1>0. /\ u.then \in {"work", "commit", "fail"}
      /\ u.at = "commit" /\ u.state = "OPEN" /\ ~u.rollbackOnly
      /\ u.answer = "none" /\ u.call = "commit"
  BY DEF GoodUnit, Unit, Sound, Calling, EndSteps, MayCommit
<1>1. PICK v : v = [u EXCEPT !.at = "closeCommitted"]
  OBVIOUS
<1>2. /\ v.at = "closeCommitted" /\ v.call = u.call /\ v.then = u.then
      /\ v.connection = u.connection /\ v.state = u.state
      /\ v.rollbackOnly = u.rollbackOnly /\ v.answer = u.answer
  BY <1>1 DEF GoodUnit, Unit
<1>3. /\ "statement" \notin E /\ W \subseteq V \cup rows
      /\ "inDoubt" \in E \/ V = {}
      /\ rows \subseteq W
  BY <1>0 DEF Sound, Working, EndSteps
<1>4. Owning(v, E, mine)
  BY <1>0, <1>2 DEF Sound, Owning
<1>5. Calling(v, E)
  BY <1>0, <1>2 DEF Sound, Calling, EndSteps
<1>6. Fresh(v, W, V \cup rows, E, {})
  BY <1>2 DEF Fresh
<1>7. Working(v, W, V \cup rows, E, {})
  BY <1>0, <1>2, <1>3 DEF Working
<1>8. Over(v, W, V \cup rows, E)
  BY <1>0, <1>2, <1>3 DEF Over
<1>9. Seen(v, W, V \cup rows, E)
  <2>1. u.then = "fail" => FALSE
    BY <1>0 DEF Sound, Calling, EndSteps
  <2>2. u.then = "work" => "ownCommit" \in E
    BY <1>0 DEF Sound, Calling
  <2>3. "inDoubt" \notin E => V \cup rows = W
    BY <1>3
  <2>. QED  BY <1>0, <1>2, <1>3, <2>1, <2>2, <2>3 DEF Seen, Excuses
<1>. QED  BY <1>1, <1>4, <1>5, <1>6, <1>7, <1>8, <1>9 DEF Sound

\* The rollback succeeds.
LEMMA RollbackSound ==
  ASSUME NEW u \in GoodUnit, u.at = "rollback", u.state = "OPEN",
         NEW W, NEW V, NEW E, NEW mine, NEW rows,
         Sound(u, W, V, E, mine, rows)
  PROVE  Sound([u EXCEPT !.at = "closeRolledBack"], W, V, E, mine, {})
<1>0. u.answer = "none"
  BY DEF Sound, Calling
<1>1. PICK v : v = [u EXCEPT !.at = "closeRolledBack"]
  OBVIOUS
<1>2. /\ v.at = "closeRolledBack" /\ v.call = u.call /\ v.then = u.then
      /\ v.connection = u.connection /\ v.state = u.state
      /\ v.rollbackOnly = u.rollbackOnly /\ v.answer = u.answer
  BY <1>1 DEF GoodUnit, Unit
<1>3. Owning(v, E, mine)
  BY <1>2 DEF Sound, Owning
<1>4. Calling(v, E)
  BY <1>0, <1>2 DEF Sound, Calling, EndSteps
<1>5. Fresh(v, W, V, E, {}) /\ Over(v, W, V, E)
  BY <1>0, <1>2 DEF Fresh, Over
<1>6. Working(v, W, V, E, {})
  BY <1>2 DEF Sound, Working, EndSteps
<1>7. Seen(v, W, V, E)
  BY <1>0, <1>2 DEF Sound, Seen
<1>. QED  BY <1>1, <1>3, <1>4, <1>5, <1>6, <1>7 DEF Sound

\* The connection is given back, with or without an exception, and the call
\* that ended the transaction resumes.
LEMMA CloseSound ==
  ASSUME NEW u \in GoodUnit, u.at \in {"closeCommitted", "closeRolledBack"},
         NEW ok \in BOOLEAN,
         NEW W, NEW V, NEW E, NEW mine, NEW rows,
         Sound(u, W, V, E, mine, rows)
  PROVE  LET w == [u EXCEPT !.state = EndState(u, ok)]
         IN  /\ Resumed(w, ReturnsOk(u, ok)) \in GoodUnit
             /\ Sound(Resumed(w, ReturnsOk(u, ok)), W, V,
                      E \cup (IF ok THEN {} ELSE {"close"}), {}, {})
<1>0. /\ u.then \in {"work", "commit", "fail"}
      /\ u.state = "OPEN" /\ u.answer = "none" /\ u.at \in EndSteps
      /\ u \in Unit /\ u.connection \in Connections
      /\ u.call \in {"commit", "rollback"}
  BY DEF GoodUnit, Unit, Sound, Calling, Placed, EndSteps
<1>1. PICK s : s = EndState(u, ok)
  OBVIOUS
<1>2. s = IF u.at = "closeCommitted" THEN "COMMITTED" ELSE "ROLLED_BACK"
  BY <1>1 DEF EndState
<1>3. PICK r \in BOOLEAN : r = ReturnsOk(u, ok)
  <2>1. ReturnsOk(u, ok) \in BOOLEAN
    BY Zenon DEF ReturnsOk
  <2>. QED  BY <2>1
<1>4. PICK w : w = [u EXCEPT !.state = s]
  OBVIOUS
<1>5. /\ w.at = u.at /\ w.call = u.call /\ w.then = u.then /\ w.state = s
      /\ w.connection = u.connection /\ w.rollbackOnly = u.rollbackOnly
      /\ w.answer = u.answer
  BY <1>0, <1>4 DEF Unit
<1>6. w \in Unit
  BY <1>0, <1>2, <1>4 DEF Unit
<1>7. (r => ok) /\ (r /\ u.at = "closeRolledBack" => u.call = "rollback")
  <2>1. r => ReturnsOk(u, ok)
    BY <1>3
  <2>. QED  BY <1>0, <2>1 DEF ReturnsOk
<1>8. ok /\ u.at = "closeCommitted" => r
  <2>1. ReturnsOk(u, ok) => r
    BY <1>3
  <2>. QED  BY <2>1 DEF ReturnsOk
<1>9. PICK v : v = Resumed(w, r)
  OBVIOUS
<1>10. Resumes(w, r, v)
  BY <1>0, <1>5, <1>6, <1>7, <1>9, ResumedUnit
<1>11. PICK F : F = E \cup (IF ok THEN {} ELSE {"close"})
  OBVIOUS
<1>12. /\ \A e : e # "close" => (e \in F <=> e \in E)
       /\ ~ok => "close" \in F
       /\ E \subseteq F
  BY <1>11
<1>13. v \in GoodUnit /\ v \in Unit
  BY <1>10 DEF Resumes, GoodUnit
<1>14. Owning(v, F, {})
  BY <1>0, <1>2, <1>5, <1>10 DEF Owning, Resumes
<1>15. Calling(v, F)
  BY <1>0, <1>5, <1>10, <1>12, <1>13 DEF Sound, Calling, Resumes, EndSteps
<1>16. Fresh(v, W, V, F, {}) /\ Working(v, W, V, F, {})
  BY <1>0, <1>2, <1>5, <1>10, <1>12 DEF Fresh, Working, Resumes, EndSteps
<1>17. Over(v, W, V, F)
  <2>1. CASE u.at = "closeCommitted"
    <3>1. W \subseteq V /\ "statement" \notin F
      BY <1>12, <2>1 DEF Sound, Over
    <3>. QED  BY <1>0, <1>2, <1>5, <1>10, <2>1, <3>1 DEF Over, Resumes
  <2>2. CASE u.at = "closeRolledBack"
    <3>1. "inDoubt" \in F \/ V = {}
      BY <1>0, <1>12, <2>2 DEF Sound, Working
    <3>2. v.answer # "ok"
      BY <1>0, <1>5, <1>7, <1>10, <2>2 DEF Sound, Calling, Resumes, EndSteps
    <3>. QED  BY <1>0, <1>2, <1>5, <1>10, <2>2, <3>1, <3>2 DEF Over, Resumes
  <2>. QED  BY <2>1, <2>2
<1>18. Seen(v, W, V, F)
  <2>1. CASE u.at = "closeCommitted"
    <3>1. u.then # "fail"
      BY <1>0, <2>1 DEF Sound, Calling, EndSteps
    <3>2. v.answer = "ok" \/ F \cap Excuses # {}
      BY <1>0, <1>5, <1>8, <1>10, <1>12, <2>1, <3>1 DEF Sound, Calling, Resumes, Excuses, EndSteps
    <3>. QED  BY <1>12, <3>2 DEF Sound, Seen
  <2>2. CASE u.at = "closeRolledBack"
    <3>1. "inDoubt" \in F \/ V = {}
      BY <1>0, <1>12, <2>2 DEF Sound, Working
    <3>. QED  BY <3>1 DEF Seen, Excuses
  <2>. QED  BY <2>1, <2>2
<1>19. Sound(v, W, V, F, {}, {})
  BY <1>14, <1>15, <1>16, <1>17, <1>18 DEF Sound
<1>. QED  BY <1>1, <1>3, <1>4, <1>9, <1>11, <1>13, <1>19

\* The unit goes on to another step of the transaction without a call of the
\* driver; only a commit that the work calls itself is an event.
LEMMA MoveSound ==
  ASSUME NEW u \in GoodUnit, u.at \in {"opening", "work", "commit"}, u.at # "commit" \/ u.state = "OPEN",
         NEW at \in {"work", "commit", "rollback"},
         NEW call \in {"none", "commit", "rollback"},
         NEW then \in {"work", "commit", "fail"},
         call = "none" <=> at = "work",
         at = "commit" => call = "commit",
         at # "work" /\ then = "commit" => call = "commit",
         at # "work" /\ then = "fail" => call = "rollback",
         NEW W, NEW V, NEW E, NEW f, NEW mine, NEW rows,
         f \subseteq {"ownCommit"},
         call = "commit" /\ then = "work" => f = {"ownCommit"} \/ "ownCommit" \in E,
         Sound(u, W, V, E, mine, rows)
  PROVE  LET v == [u EXCEPT !.at = at, !.call = call, !.then = then]
         IN  v \in GoodUnit /\ Sound(v, W, V, E \cup f, mine, rows)
<1>0. /\ u \in Unit /\ u.connection \in Connections
      /\ u.answer = "none"
      /\ u.state \in {"OPEN", "COMMITTED", "ROLLED_BACK"}
  BY DEF GoodUnit, Unit, Placed, Sound, Calling
<1>1. PICK v : v = [u EXCEPT !.at = at, !.call = call, !.then = then]
  OBVIOUS
<1>2. /\ v.at = at /\ v.call = call /\ v.then = then
      /\ v.connection = u.connection /\ v.state = u.state
      /\ v.rollbackOnly = u.rollbackOnly /\ v.answer = u.answer
  BY <1>0, <1>1 DEF Unit
<1>3. v \in GoodUnit
  BY <1>0, <1>1, MovedUnit DEF EndSteps
<1>4. PICK F : F = E \cup f
  OBVIOUS
<1>5. \A e : e # "ownCommit" => (e \in F <=> e \in E)
  BY <1>4
<1>6. E \subseteq F /\ (call = "commit" /\ then = "work" => "ownCommit" \in F)
  BY <1>4
<1>7. Owning(v, F, mine)
  BY <1>2 DEF Sound, Owning
<1>8. Calling(v, F)
  BY <1>0, <1>2, <1>6 DEF Calling, EndSteps
<1>9. Fresh(v, W, V, F, rows)
  BY <1>2 DEF Fresh
<1>10. Working(v, W, V, F, rows)
  <2>1. CASE u.at = "opening"
    BY <1>2, <1>5, <2>1 DEF Sound, Fresh, Working
  <2>2. CASE u.at # "opening"
    BY <1>2, <1>5, <2>2 DEF Sound, Working, EndSteps
  <2>. QED  BY <2>1, <2>2
<1>11. Over(v, W, V, F)
  BY <1>0, <1>2, <1>5 DEF Sound, Over
<1>12. Seen(v, W, V, F)
  BY <1>0, <1>2, <1>5, <1>6 DEF Sound, Seen, Excuses
<1>13. Sound(v, W, V, F, mine, rows)
  BY <1>7, <1>8, <1>9, <1>10, <1>11, <1>12 DEF Sound
<1>. QED  BY <1>1, <1>3, <1>4, <1>13

\* A unit that ends before or in its work, after one of the three faults if it
\* has a connection.
LEMMA DoneSound ==
  ASSUME NEW u \in GoodUnit, u.at \in {"idle", "opening", "work"},
         NEW a \in {"err", "panic"},
         NEW W, NEW V, NEW E, NEW f, NEW mine, NEW rows,
         f \subseteq Faults,
         u.at # "idle" => f # {},
         Sound(u, W, V, E, mine, rows)
  PROVE  Sound(Answered(u, a), W, V, E \cup f, mine, rows)
<1>0. /\ u \in Unit /\ u.answer = "none"
      /\ u.state \in {"OPEN", "COMMITTED", "ROLLED_BACK"}
  BY DEF GoodUnit, Unit, Sound, Calling
<1>1. PICK v : v = Answered(u, a)
  OBVIOUS
<1>2. /\ v.at = "done" /\ v.call = "none" /\ v.answer = a
      /\ v.connection = u.connection /\ v.state = u.state
      /\ v.rollbackOnly = u.rollbackOnly
  BY <1>0, <1>1, AnsweredUnit
<1>3. PICK F : F = E \cup f
  OBVIOUS
<1>4. \A e : e \notin Faults => (e \in F <=> e \in E)
  BY <1>3
<1>5. /\ "statement" \notin Faults /\ "inDoubt" \notin Faults
      /\ E \subseteq F /\ (f # {} => F \cap Faults # {})
  BY <1>3 DEF Faults
<1>6. Owning(v, F, mine)
  BY <1>2, <1>5 DEF Sound, Owning
<1>7. Calling(v, F)
  BY <1>2 DEF Calling, EndSteps
<1>8. Fresh(v, W, V, F, rows) /\ Working(v, W, V, F, rows)
  BY <1>2 DEF Fresh, Working, EndSteps
<1>9. Over(v, W, V, F)
  BY <1>0, <1>2, <1>4, <1>5 DEF Sound, Over
<1>10. Seen(v, W, V, F)
  BY <1>0, <1>2, <1>4, <1>5 DEF Sound, Seen, Excuses
<1>. QED  BY <1>1, <1>3, <1>6, <1>7, <1>8, <1>9, <1>10 DEF Sound

\* A connection is taken.
LEMMA OpenSound ==
  ASSUME NEW u \in GoodUnit, u.at = "idle", NEW k \in Connections,
         NEW at \in {"opening", "single"},
         NEW W, NEW V, NEW E, NEW mine, NEW rows,
         Sound(u, W, V, E, mine, rows)
  PROVE  LET v == [u EXCEPT !.at = at, !.connection = k]
         IN  v \in GoodUnit /\ Sound(v, W, V, E, {k}, {})
<1>0. u.answer = "none" /\ u.call = "none"
  BY DEF Sound, Calling, GoodUnit, Placed, EndSteps
<1>1. PICK v : v = [u EXCEPT !.at = at, !.connection = k]
  OBVIOUS
<1>2. /\ v.at = at /\ v.call = u.call /\ v.then = u.then
      /\ v.connection = k /\ v.state = u.state
      /\ v.rollbackOnly = u.rollbackOnly /\ v.answer = u.answer
  BY <1>1 DEF GoodUnit, Unit
<1>3. v \in GoodUnit
  BY <1>0, <1>1, <1>2 DEF GoodUnit, Unit, Placed, EndSteps, At
<1>4. Owning(v, E, {k}) /\ Calling(v, E)
  BY <1>0, <1>2 DEF Sound, Fresh, Owning, Calling, EndSteps
<1>5. Fresh(v, W, V, E, {}) /\ Working(v, W, V, E, {})
  BY <1>2 DEF Sound, Fresh, Working, EndSteps
<1>6. Over(v, W, V, E) /\ Seen(v, W, V, E)
  BY <1>0, <1>2 DEF Sound, Fresh, Over, Seen
<1>. QED  BY <1>1, <1>3, <1>4, <1>5, <1>6 DEF Sound

\* A statement of a transaction succeeds.
LEMMA StatementSound ==
  ASSUME NEW u \in GoodUnit, MayRun(u), NEW r,
         NEW W, NEW V, NEW E, NEW mine, NEW rows,
         Sound(u, W, V, E, mine, rows)
  PROVE  Sound(u, W \cup {r}, V, E, mine, rows \cup {r})
<1>1. u.at = "work" /\ u.state = "OPEN" /\ ~u.rollbackOnly /\ u.answer = "none"
  BY DEF MayRun, Sound, Calling
<1>2. Working(u, W \cup {r}, V, E, rows \cup {r})
  BY <1>1 DEF Sound, Working
<1>3. Seen(u, W \cup {r}, V, E)
  BY <1>1 DEF Sound, Seen, Working
<1>. QED  BY <1>1, <1>2, <1>3 DEF Sound, Fresh, Over

\* A statement of a transaction fails, with or without an effect.
LEMMA FailedSound ==
  ASSUME NEW u \in GoodUnit, MayRun(u), NEW R,
         NEW W, NEW V, NEW E, NEW mine, NEW rows,
         Sound(u, W, V, E, mine, rows)
  PROVE  /\ Marked(u) \in GoodUnit
         /\ Sound(Marked(u), W, V, E \cup {"statement"}, mine, rows \cup R)
<1>1. u.at = "work" /\ u.state = "OPEN" /\ ~u.rollbackOnly /\ u.answer = "none"
  BY DEF MayRun, Sound, Calling
<1>2. PICK v : v = Marked(u)
  OBVIOUS
<1>3. /\ v.at = u.at /\ v.call = u.call /\ v.then = u.then
      /\ v.connection = u.connection /\ v.state = u.state
      /\ v.rollbackOnly /\ v.answer = u.answer
  BY <1>2 DEF Marked, GoodUnit, Unit
<1>4. v \in GoodUnit
  BY <1>2 DEF Marked, GoodUnit, Unit, Placed
<1>5. PICK F : F = E \cup {"statement"}
  OBVIOUS
<1>6. /\ \A e : e # "statement" => (e \in F <=> e \in E)
      /\ "statement" \in F /\ E \subseteq F
  BY <1>5
<1>7. Owning(v, F, mine) /\ Calling(v, F)
  BY <1>1, <1>3, <1>6 DEF Sound, Owning, Calling, EndSteps
<1>8. Fresh(v, W, V, F, rows \cup R) /\ Over(v, W, V, F)
  BY <1>1, <1>3 DEF Fresh, Over
<1>9. Working(v, W, V, F, rows \cup R)
  BY <1>1, <1>3, <1>6 DEF Sound, Working
<1>10. Seen(v, W, V, F)
  BY <1>1, <1>3, <1>6 DEF Sound, Seen, Working, Excuses
<1>. QED  BY <1>2, <1>4, <1>5, <1>7, <1>8, <1>9, <1>10 DEF Sound

\* The statement of a single unit of work takes effect.
LEMMA SingleSound ==
  ASSUME NEW u \in GoodUnit, u.at = "single", NEW r, NEW ok \in BOOLEAN,
         NEW W, NEW V, NEW E, NEW mine, NEW rows,
         Sound(u, W, V, E, mine, rows)
  PROVE  LET v == [u EXCEPT !.at = "closeSingle"]
         IN  /\ v \in GoodUnit
             /\ Sound(v, W \cup {r}, V \cup {r}, E \cup (IF ok THEN {} ELSE {"close"}), mine, rows)
<1>0. /\ u.answer = "none" /\ u.call = "none"
      /\ W = {} /\ V = {} /\ rows = {} /\ E = {} /\ u.state = "OPEN" /\ ~u.rollbackOnly
  BY DEF Sound, Calling, Fresh, GoodUnit, Placed, EndSteps
<1>1. PICK v : v = [u EXCEPT !.at = "closeSingle"]
  OBVIOUS
<1>2. /\ v.at = "closeSingle" /\ v.call = u.call /\ v.then = u.then
      /\ v.connection = u.connection /\ v.state = u.state
      /\ v.rollbackOnly = u.rollbackOnly /\ v.answer = u.answer
  BY <1>1 DEF GoodUnit, Unit
<1>3. v \in GoodUnit
  BY <1>0, <1>1, <1>2 DEF GoodUnit, Unit, Placed, EndSteps, At
<1>4. PICK F : F = E \cup (IF ok THEN {} ELSE {"close"})
  OBVIOUS
<1>5. F \subseteq {"close"}
  BY <1>0, <1>4
<1>6. PICK X : X = W \cup {r}
  OBVIOUS
<1>7. V \cup {r} = X
  BY <1>0, <1>6
<1>8. Owning(v, F, mine) /\ Calling(v, F)
  BY <1>0, <1>2 DEF Sound, Owning, Calling, EndSteps
<1>9. Fresh(v, X, X, F, rows) /\ Working(v, X, X, F, rows)
  BY <1>2 DEF Fresh, Working, EndSteps
<1>10. Over(v, X, X, F) /\ Seen(v, X, X, F)
  BY <1>0, <1>2, <1>5 DEF Over, Seen
<1>. QED  BY <1>1, <1>3, <1>4, <1>6, <1>7, <1>8, <1>9, <1>10 DEF Sound

\* It fails.
LEMMA SingleFailsSound ==
  ASSUME NEW u \in GoodUnit, u.at = "single", NEW f \in {"statement", "panic"},
         NEW W, NEW V, NEW E, NEW mine, NEW rows,
         Sound(u, W, V, E, mine, rows)
  PROVE  LET v == [u EXCEPT !.at = "closeSingle"]
         IN  v \in GoodUnit /\ Sound(v, W, V, E \cup {f}, mine, rows)
<1>0. /\ u.answer = "none" /\ u.call = "none"
      /\ W = {} /\ V = {} /\ rows = {} /\ E = {} /\ u.state = "OPEN" /\ ~u.rollbackOnly
  BY DEF Sound, Calling, Fresh, GoodUnit, Placed, EndSteps
<1>1. PICK v : v = [u EXCEPT !.at = "closeSingle"]
  OBVIOUS
<1>2. /\ v.at = "closeSingle" /\ v.call = u.call /\ v.then = u.then
      /\ v.connection = u.connection /\ v.state = u.state
      /\ v.rollbackOnly = u.rollbackOnly /\ v.answer = u.answer
  BY <1>1 DEF GoodUnit, Unit
<1>3. v \in GoodUnit
  BY <1>0, <1>1, <1>2 DEF GoodUnit, Unit, Placed, EndSteps, At
<1>4. Owning(v, {f}, mine) /\ Calling(v, {f})
  BY <1>0, <1>2 DEF Sound, Owning, Calling, EndSteps
<1>5. Fresh(v, {}, {}, {f}, rows) /\ Working(v, {}, {}, {f}, rows)
  BY <1>2 DEF Fresh, Working, EndSteps
<1>6. Over(v, {}, {}, {f}) /\ Seen(v, {}, {}, {f})
  BY <1>0, <1>2 DEF Over, Seen
<1>7. E \cup {f} = {f}
  BY <1>0
<1>. QED  BY <1>0, <1>1, <1>3, <1>4, <1>5, <1>6, <1>7 DEF Sound

\* The answer of CloseSingle.
SingleAnswer(E, ok) ==
  IF "panic" \in E THEN "panic"
  ELSE IF E \cap {"statement", "close"} # {} \/ ~ok THEN "err" ELSE "ok"

\* Its connection is given back, and it answers.
LEMMA CloseSingleSound ==
  ASSUME NEW u \in GoodUnit, u.at = "closeSingle", NEW ok \in BOOLEAN,
         NEW W, NEW V, NEW E, NEW mine, NEW rows,
         Sound(u, W, V, E, mine, rows)
  PROVE  /\ SingleAnswer(E, ok) \in {"ok", "err", "panic"}
         /\ Sound(Answered(u, SingleAnswer(E, ok)), W, V,
                  E \cup (IF ok THEN {} ELSE {"close"}), {}, {})
<1>0. /\ u \in Unit /\ u.answer = "none" /\ W \subseteq V /\ u.state = "OPEN"
  BY DEF GoodUnit, Sound, Calling, Over
<1>1. PICK a : a = SingleAnswer(E, ok)
  OBVIOUS
<1>2. /\ a \in {"ok", "err", "panic"}
      /\ a = "ok" => "statement" \notin E
      /\ a = "err" => E \cap {"statement", "close"} # {} \/ ~ok
      /\ a = "panic" => "panic" \in E
  BY <1>1 DEF SingleAnswer
<1>3. PICK v : v = Answered(u, a)
  OBVIOUS
<1>4. /\ v.at = "done" /\ v.call = "none" /\ v.answer = a
      /\ v.connection = u.connection /\ v.state = u.state
      /\ v.rollbackOnly = u.rollbackOnly
  BY <1>0, <1>2, <1>3, AnsweredUnit
<1>5. PICK F : F = E \cup (IF ok THEN {} ELSE {"close"})
  OBVIOUS
<1>6. /\ \A e : e # "close" => (e \in F <=> e \in E)
      /\ ~ok => "close" \in F
      /\ E \subseteq F
  BY <1>5
<1>7. Owning(v, F, {}) /\ Calling(v, F)
  BY <1>2, <1>4 DEF Owning, Calling, EndSteps
<1>8. Fresh(v, W, V, F, {}) /\ Working(v, W, V, F, {})
  BY <1>4 DEF Fresh, Working, EndSteps
<1>9. Over(v, W, V, F)
  BY <1>0, <1>2, <1>4, <1>6 DEF Over
<1>10. Seen(v, W, V, F)
  <2>1. /\ "inDoubt" \in F \/ V \in {{}, W}
        /\ "statement" \in F => "inDoubt" \in F \/ V = {}
    BY <1>6 DEF Sound, Seen
  <2>2. V # {} => F \cap Excuses # {} \/ v.answer = "ok"
    <3>1. V # {} => E \cap Excuses # {} \/ ("statement" \notin E /\ "panic" \notin E)
      BY <1>0 DEF Sound, Seen
    <3>2. "statement" \notin E /\ "panic" \notin E => a = "ok" \/ "close" \in F
      BY <1>2, <1>6
    <3>. QED  BY <1>4, <1>6, <3>1, <3>2 DEF Excuses
  <2>. QED  BY <2>1, <2>2 DEF Seen
<1>. QED  BY <1>1, <1>2, <1>3, <1>5, <1>7, <1>8, <1>9, <1>10 DEF Sound

-----------------------------------------------------------------------------
(* What a step of client c does to the state, and leaves to the others. *)

Elsewhere(c) ==
  /\ \A d \in Clients \ {c} :
       unit'[d] = unit[d] /\ wrote'[d] = wrote[d] /\ events'[d] = events[d]
  /\ \A k \in Connections :
       /\ owner'[k] # owner[k] => owner[k] \in {c, NoClient} /\ owner'[k] \in {c, NoClient}
       /\ pending'[k] # pending[k] => owner[k] = c
  /\ table \subseteq table' /\ table' \subseteq table \cup RowsOf(c)

StepOK(c) == TypeOK' /\ PendingOwned' /\ ClientSound(c)' /\ Elsewhere(c)

LEMMA RowsApart ==
  ASSUME NEW c \in Clients, NEW d \in Clients \ {c}
  PROVE  RowsOf(c) \cap RowsOf(d) = {} /\ RowsOf(c) \subseteq Row
  BY DEF RowsOf, Row

\* The others do not notice.
LEMMA Frame ==
  ASSUME IInv, NEW c \in Clients, NEW d \in Clients \ {c}, Elsewhere(c)
  PROVE  ClientSound(d)'
<1>0. d # NoClient /\ c # d
  BY NoClientIsNone
<1>1. Mine(d)' = Mine(d)
  BY <1>0 DEF Elsewhere, Mine
<1>2. \A k \in Mine(d) : pending'[k] = pending[k]
  BY <1>0 DEF Elsewhere, Mine
<1>3. Rows(d)' = Rows(d)
  BY <1>1, <1>2 DEF Rows
<1>4. Visible(d)' = Visible(d)
  BY RowsApart DEF Elsewhere, Visible
<1>5. ClientSound(d)
  BY DEF IInv
<1>. QED  BY <1>1, <1>3, <1>4, <1>5 DEF ClientSound, Elsewhere

LEMMA GoodUnits == TypeOK <=>
  /\ unit \in [Clients -> GoodUnit]
  /\ owner \in [Connections -> Clients \cup {NoClient}]
  /\ pending \in [Connections -> SUBSET Row]
  /\ table \subseteq Row
  /\ poolOpen \in BOOLEAN
  /\ wrote \in [Clients -> SUBSET Row]
  /\ events \in [Clients -> SUBSET Event]
  BY DEF TypeOK, GoodUnit

\* Only the unit of c and its events change.
LEMMA QuietStep ==
  ASSUME IInv, NEW c \in Clients, NEW v \in GoodUnit, NEW f \in SUBSET Event,
         unit' = [unit EXCEPT ![c] = v],
         events' = [events EXCEPT ![c] = @ \cup f],
         UNCHANGED <<owner, pending, table, poolOpen, wrote>>,
         Sound(v, wrote[c], Visible(c), events[c] \cup f, Mine(c), Rows(c))
  PROVE  StepOK(c)
<1>1. TypeOK
  BY DEF IInv
<1>2. unit'[c] = v /\ events'[c] = events[c] \cup f
  BY <1>1, GoodUnits
<1>3. TypeOK'
  BY <1>1 DEF TypeOK, GoodUnit
<1>4. PendingOwned'
  BY DEF IInv, PendingOwned
<1>5. Mine(c)' = Mine(c) /\ Visible(c)' = Visible(c)
  BY DEF Mine, Visible
<1>6. Rows(c)' = Rows(c)
  BY <1>5 DEF Rows
<1>7. ClientSound(c)'
  BY <1>2, <1>5, <1>6 DEF ClientSound
<1>8. Elsewhere(c)
  BY <1>1 DEF Elsewhere, TypeOK
<1>. QED  BY <1>3, <1>4, <1>7, <1>8 DEF StepOK

\* The connection of a unit that may still use it.
LEMMA OwnConnection ==
  ASSUME IInv, NEW c \in Clients, unit[c].at \notin {"idle", "done"}, unit[c].state = "OPEN"
  PROVE  /\ unit[c].connection \in Connections
         /\ owner[unit[c].connection] = c
         /\ Mine(c) = {unit[c].connection}
         /\ Rows(c) = pending[unit[c].connection]
         /\ Rows(c) \subseteq RowsOf(c)
<1>0. unit[c].connection \in Connections
  BY DEF IInv, TypeOK, Placed
<1>1. Mine(c) = {unit[c].connection}
  BY DEF IInv, ClientSound, Sound, Owning
<1>2. owner[unit[c].connection] = c
  BY <1>1 DEF Mine
<1>3. Rows(c) = pending[unit[c].connection]
  BY <1>1 DEF Rows
<1>4. pending[unit[c].connection] \subseteq RowsOf(c)
  BY <1>0, <1>2, NoClientIsNone DEF IInv, PendingOwned
<1>. QED  BY <1>0, <1>1, <1>2, <1>3, <1>4

\* What is pending on it becomes X.
LEMMA PendingStep ==
  ASSUME IInv, NEW c \in Clients, unit[c].at \notin {"idle", "done"}, unit[c].state = "OPEN",
         NEW X \in SUBSET RowsOf(c),
         pending' = [pending EXCEPT ![unit[c].connection] = X],
         UNCHANGED owner
  PROVE  /\ Mine(c)' = Mine(c)
         /\ Rows(c)' = X
         /\ PendingOwned'
         /\ pending' \in [Connections -> SUBSET Row]
         /\ \A k \in Connections : pending'[k] # pending[k] => owner[k] = c
<1>0. PICK k : k = unit[c].connection
  OBVIOUS
<1>1. k \in Connections /\ owner[k] = c /\ Mine(c) = {k}
  BY <1>0, OwnConnection
<1>2. pending \in [Connections -> SUBSET Row]
  BY DEF IInv, TypeOK
<1>3. pending'[k] = X /\ \A j \in Connections \ {k} : pending'[j] = pending[j]
  BY <1>0, <1>1, <1>2
<1>4. Mine(c)' = Mine(c)
  BY DEF Mine
<1>5. Rows(c)' = X
  BY <1>1, <1>3, <1>4 DEF Rows
<1>6. PendingOwned'
  BY <1>1, <1>3, NoClientIsNone DEF IInv, PendingOwned
<1>7. pending' \in [Connections -> SUBSET Row]
  BY <1>0, <1>2 DEF RowsOf
<1>. QED  BY <1>1, <1>3, <1>4, <1>5, <1>6, <1>7

\* It goes back to the pool.
LEMMA BackStep ==
  ASSUME IInv, NEW c \in Clients, unit[c].at \notin {"idle", "done"}, unit[c].state = "OPEN",
         GivenBack(unit[c].connection)
  PROVE  /\ Mine(c)' = {}
         /\ Rows(c)' = {}
         /\ PendingOwned'
         /\ owner' \in [Connections -> Clients \cup {NoClient}]
         /\ pending' \in [Connections -> SUBSET Row]
         /\ \A k \in Connections :
              /\ owner'[k] # owner[k] => owner[k] = c /\ owner'[k] = NoClient
              /\ pending'[k] # pending[k] => owner[k] = c
<1>0. PICK k : k = unit[c].connection
  OBVIOUS
<1>1. k \in Connections /\ owner[k] = c /\ Mine(c) = {k}
  BY <1>0, OwnConnection
<1>2. /\ owner' = [owner EXCEPT ![k] = NoClient]
      /\ pending' = [pending EXCEPT ![k] = {}]
  BY <1>0 DEF GivenBack, Forgotten
<1>3. /\ pending \in [Connections -> SUBSET Row]
      /\ owner \in [Connections -> Clients \cup {NoClient}]
  BY DEF IInv, TypeOK
<1>4. /\ pending'[k] = {} /\ owner'[k] = NoClient
      /\ \A j \in Connections \ {k} : pending'[j] = pending[j] /\ owner'[j] = owner[j]
  BY <1>1, <1>2, <1>3
<1>5. Mine(c)' = {}
  BY <1>1, <1>4, NoClientIsNone DEF Mine
<1>6. Rows(c)' = {}
  BY <1>5 DEF Rows
<1>7. PendingOwned'
  BY <1>4 DEF IInv, PendingOwned
<1>8. /\ owner' \in [Connections -> Clients \cup {NoClient}]
      /\ pending' \in [Connections -> SUBSET Row]
  BY <1>2, <1>3
<1>. QED  BY <1>1, <1>4, <1>5, <1>6, <1>7, <1>8

-----------------------------------------------------------------------------
(* Each step of a client keeps the invariant. *)

LEMMA UnitFacts ==
  ASSUME IInv, NEW c \in Clients
  PROVE  /\ unit[c] \in GoodUnit /\ unit[c] \in Unit
         /\ Sound(unit[c], wrote[c], Visible(c), events[c], Mine(c), Rows(c))
         /\ unit[c].at \notin {"idle", "done"} => unit[c].connection \in Connections
         /\ unit[c].then \in {"work", "commit", "fail"}
         /\ wrote[c] \in SUBSET Row /\ events[c] \in SUBSET Event
         /\ unit[c].at \in EndSteps => unit[c].call \in {"commit", "rollback"}
  BY DEF IInv, TypeOK, GoodUnit, ClientSound, Unit, Placed, EndSteps

LEMMA NoEvents ==
  ASSUME IInv, NEW c \in Clients, UNCHANGED events
  PROVE  events' = [events EXCEPT ![c] = @ \cup {}]
  BY DEF IInv, TypeOK

LEMMA OpenStep ==
  ASSUME IInv, NEW c \in Clients, NEW at \in {"opening", "single"}, Open(c, at)
  PROVE  StepOK(c)
<1>1. PICK k \in Connections :
        /\ owner[k] = NoClient
        /\ Taken(k, c)
        /\ Becomes(c, [unit[c] EXCEPT !.at = at, !.connection = k])
  BY DEF Open
<1>2. /\ unit[c].at = "idle"
      /\ UNCHANGED <<pending, table, poolOpen, wrote, events>>
  BY DEF Open
<1>3. PICK v : v = [unit[c] EXCEPT !.at = at, !.connection = k]
  OBVIOUS
<1>4. v \in GoodUnit /\ Sound(v, wrote[c], Visible(c), events[c], {k}, {})
  BY <1>2, <1>3, OpenSound, UnitFacts
<1>5. TypeOK
  BY DEF IInv
<1>6. unit' = [unit EXCEPT ![c] = v] /\ unit'[c] = v
  BY <1>1, <1>3, <1>5 DEF Becomes, TypeOK
<1>7. owner' = [owner EXCEPT ![k] = c]
  BY <1>1 DEF Taken
<1>8. TypeOK'
  BY <1>2, <1>4, <1>5, <1>6, <1>7 DEF TypeOK, GoodUnit
<1>9. Mine(c) = {}
  BY <1>2, UnitFacts DEF Sound, Owning
<1>10. owner'[k] = c /\ \A j \in Connections \ {k} : owner'[j] = owner[j]
  BY <1>5, <1>7 DEF TypeOK
<1>11. pending[k] = {}
  BY <1>1 DEF IInv, PendingOwned
<1>12. Mine(c)' = {k}
  BY <1>9, <1>10 DEF Mine
<1>13. Rows(c)' = {}
  BY <1>2, <1>11, <1>12 DEF Rows
<1>14. PendingOwned'
  BY <1>2, <1>10, <1>11, NoClientIsNone DEF IInv, PendingOwned
<1>15. ClientSound(c)'
  <2>1. Visible(c)' = Visible(c)
    BY <1>2 DEF Visible
  <2>. QED  BY <1>2, <1>4, <1>6, <1>12, <1>13, <2>1 DEF ClientSound
<1>16. Elsewhere(c)
  BY <1>1, <1>2, <1>5, <1>6, <1>10 DEF Elsewhere, TypeOK
<1>. QED  BY <1>8, <1>14, <1>15, <1>16 DEF StepOK

\* MoveSound as a step of the state.
LEMMA MoveStep ==
  ASSUME IInv, NEW c \in Clients,
         unit[c].at \in {"opening", "work", "commit"},
         unit[c].at # "commit" \/ unit[c].state = "OPEN",
         NEW at \in {"work", "commit", "rollback"},
         NEW call \in {"none", "commit", "rollback"},
         NEW then \in {"work", "commit", "fail"},
         call = "none" <=> at = "work",
         at = "commit" => call = "commit",
         at # "work" /\ then = "commit" => call = "commit",
         at # "work" /\ then = "fail" => call = "rollback",
         NEW f \in SUBSET {"ownCommit"},
         call = "commit" /\ then = "work" => f = {"ownCommit"} \/ "ownCommit" \in events[c],
         unit' = [unit EXCEPT ![c] = [unit[c] EXCEPT !.at = at, !.call = call, !.then = then]],
         events' = [events EXCEPT ![c] = @ \cup f],
         UNCHANGED <<owner, pending, table, poolOpen, wrote>>
  PROVE  StepOK(c)
<1>0. PICK u \in GoodUnit : u = unit[c]
  BY UnitFacts
<1>1. PICK W, V, E, mine, rows :
        /\ u = unit[c] /\ W = wrote[c] /\ V = Visible(c) /\ E = events[c]
        /\ mine = Mine(c) /\ rows = Rows(c)
  BY <1>0
<1>2. Sound(u, W, V, E, mine, rows)
  BY <1>1, UnitFacts
<1>3. PICK v : v = [u EXCEPT !.at = at, !.call = call, !.then = then]
  OBVIOUS
<1>4. /\ u.at \in {"opening", "work", "commit"}
      /\ u.at # "commit" \/ u.state = "OPEN"
      /\ call = "commit" /\ then = "work" => f = {"ownCommit"} \/ "ownCommit" \in E
  BY <1>1
<1>5. v \in GoodUnit /\ Sound(v, W, V, E \cup f, mine, rows)
  <2>1. f \subseteq {"ownCommit"}
    OBVIOUS
  <2>. QED  BY <1>2, <1>3, <1>4, <2>1, MoveSound
<1>6. unit' = [unit EXCEPT ![c] = v]
  BY <1>1, <1>3
<1>7. f \in SUBSET Event
  BY DEF Event
<1>8. Sound(v, wrote[c], Visible(c), events[c] \cup f, Mine(c), Rows(c))
  BY <1>1, <1>5
<1>. QED  BY <1>5, <1>6, <1>7, <1>8, QuietStep

LEMMA BeginOK ==
  ASSUME IInv, NEW c \in Clients, BeginStep(c)
  PROVE  StepOK(c)
<1>1. CASE Open(c, "opening") \/ Open(c, "single")
  BY <1>1, OpenStep
<1>2. CASE OpenFails(c)
  <2>1. PICK a \in {"err", "panic"} : Becomes(c, Answered(unit[c], a))
    BY <1>2 DEF OpenFails
  <2>2. unit[c].at = "idle" /\ UNCHANGED <<owner, pending, table, poolOpen, wrote, events>>
    BY <1>2 DEF OpenFails
  <2>3. PICK v : v = Answered(unit[c], a)
    OBVIOUS
  <2>4. v \in GoodUnit
    BY <2>3, AnsweredUnit, UnitFacts
  <2>5. PICK f \in SUBSET {"rollback"} : events' = [events EXCEPT ![c] = @ \cup f]
    BY <2>2, NoEvents
  <2>6. f \in SUBSET Event /\ f \subseteq Faults
    BY DEF Event, Faults
  <2>7. Sound(v, wrote[c], Visible(c), events[c] \cup f, Mine(c), Rows(c))
    BY <2>2, <2>3, <2>6, DoneSound, UnitFacts
  <2>8. unit' = [unit EXCEPT ![c] = v]
    BY <2>1, <2>3 DEF Becomes
  <2>. QED  BY <2>2, <2>4, <2>5, <2>6, <2>7, <2>8, QuietStep
<1>3. CASE SetAutoCommit(c)
  <2>1. /\ unit[c].at = "opening"
        /\ Becomes(c, [unit[c] EXCEPT !.at = "work"])
        /\ UNCHANGED <<owner, pending, table, poolOpen, wrote, events>>
    BY <1>3 DEF SetAutoCommit
  <2>2. unit[c].call = "none"
    BY <2>1 DEF IInv, TypeOK, Placed, EndSteps
  <2>3. PICK t : t = unit[c].then
    OBVIOUS
  <2>4. PICK v : v = [unit[c] EXCEPT !.at = "work", !.call = "none", !.then = t]
    OBVIOUS
  <2>5. [unit[c] EXCEPT !.at = "work"] = v
    BY <2>2, <2>3, <2>4, UnitFacts DEF Unit
  <2>7. PICK f \in SUBSET {"ownCommit"} : events' = [events EXCEPT ![c] = @ \cup f]
    BY <2>1, NoEvents
  <2>8. unit' = [unit EXCEPT ![c] =
                   [unit[c] EXCEPT !.at = "work", !.call = "none", !.then = t]]
    BY <2>1, <2>4, <2>5 DEF Becomes
  <2>9. t \in {"work", "commit", "fail"}
    BY <2>3, UnitFacts
  <2>. QED  BY <2>1, <2>7, <2>8, <2>9, MoveStep
<1>4. CASE SetAutoCommitFails(c)
  <2>1. /\ unit[c].at = "opening"
        /\ Becomes(c, Answered(unit[c], "err"))
        /\ Notes(c, "autoCommit")
        /\ UNCHANGED <<owner, pending, table, poolOpen, wrote>>
    BY <1>4 DEF SetAutoCommitFails
  <2>3. PICK v : v = Answered(unit[c], "err")
    OBVIOUS
  <2>4. v \in GoodUnit
    BY <2>3, AnsweredUnit, UnitFacts
  <2>5. Sound(v, wrote[c], Visible(c), events[c] \cup {"autoCommit"}, Mine(c), Rows(c))
    BY <2>1, <2>3, DoneSound, UnitFacts DEF Faults
  <2>. QED  BY <2>1, <2>3, <2>4, <2>5, QuietStep DEF Becomes, Notes, Event
<1>. QED  BY <1>1, <1>2, <1>3, <1>4 DEF BeginStep

LEMMA NewRowMine ==
  ASSUME NEW c \in Clients, NewRow(c) \in Row
  PROVE  NewRow(c) \in RowsOf(c)
<1>1. NewRow(c)[1] = c
  BY DEF NewRow
<1>. QED  BY <1>1 DEF RowsOf

LEMMA StatementStep ==
  ASSUME IInv, NEW c \in Clients, Statement(c)
  PROVE  StepOK(c)
<1>0. /\ MayRun(unit[c])
      /\ NewRow(c) \in Row
      /\ pending' = [pending EXCEPT ![unit[c].connection] = @ \cup {NewRow(c)}]
      /\ wrote' = [wrote EXCEPT ![c] = @ \cup {NewRow(c)}]
      /\ UNCHANGED <<unit, owner, table, poolOpen, events>>
  BY DEF Statement
<1>1. unit[c].at = "work" /\ unit[c].state = "OPEN"
  BY <1>0 DEF MayRun
<1>2. PICK r : r = NewRow(c)
  OBVIOUS
<1>3. r \in RowsOf(c) /\ r \in Row
  BY <1>0, <1>2, NewRowMine
<1>4. TypeOK
  BY DEF IInv
<1>5. pending' = [pending EXCEPT ![unit[c].connection] = Rows(c) \cup {r}]
  BY <1>0, <1>1, <1>2, OwnConnection
<1>6. Rows(c) \cup {r} \subseteq RowsOf(c)
  BY <1>1, <1>3, OwnConnection
<1>7. /\ Mine(c)' = Mine(c)
      /\ Rows(c)' = Rows(c) \cup {r}
      /\ PendingOwned'
      /\ pending' \in [Connections -> SUBSET Row]
      /\ \A k \in Connections : pending'[k] # pending[k] => owner[k] = c
  BY <1>0, <1>1, <1>5, <1>6, PendingStep
<1>8. wrote'[c] = wrote[c] \cup {r} /\ Visible(c)' = Visible(c)
  BY <1>0, <1>2, <1>4 DEF TypeOK, Visible
<1>9. TypeOK'
  BY <1>0, <1>2, <1>3, <1>4, <1>7 DEF TypeOK
<1>10. Sound(unit[c], wrote[c] \cup {r}, Visible(c), events[c], Mine(c), Rows(c) \cup {r})
  BY <1>0, StatementSound, UnitFacts
<1>11. ClientSound(c)'
  BY <1>0, <1>7, <1>8, <1>10 DEF ClientSound
<1>12. Elsewhere(c)
  BY <1>0, <1>4, <1>7 DEF Elsewhere, TypeOK
<1>. QED  BY <1>7, <1>9, <1>11, <1>12 DEF StepOK

LEMMA StatementFailsStep ==
  ASSUME IInv, NEW c \in Clients, StatementFails(c)
  PROVE  StepOK(c)
<1>0. /\ MayRun(unit[c])
      /\ Becomes(c, Marked(unit[c]))
      /\ Notes(c, "statement")
      /\ UNCHANGED <<owner, table, poolOpen, wrote>>
  BY DEF StatementFails
<1>1. PICK R \in {{}, {NewRow(c)} \cap Row} :
        pending' = [pending EXCEPT ![unit[c].connection] = @ \cup R]
  BY DEF StatementFails
<1>2. unit[c].at = "work" /\ unit[c].state = "OPEN"
  BY <1>0 DEF MayRun
<1>3. R \subseteq RowsOf(c)
  BY <1>1, NewRowMine
<1>4. TypeOK
  BY DEF IInv
<1>5. PICK X : X = Rows(c) \cup R
  OBVIOUS
<1>6. X \in SUBSET RowsOf(c) /\ pending' = [pending EXCEPT ![unit[c].connection] = X]
  BY <1>1, <1>2, <1>3, <1>5, OwnConnection
<1>7. /\ Mine(c)' = Mine(c)
      /\ Rows(c)' = X
      /\ PendingOwned'
      /\ pending' \in [Connections -> SUBSET Row]
      /\ \A k \in Connections : pending'[k] # pending[k] => owner[k] = c
  <2>1. UNCHANGED owner
    BY <1>0
  <2>2. unit[c].at \notin {"idle", "done"}
    BY <1>2
  <2>. QED  BY <1>2, <1>6, <2>1, <2>2, PendingStep
<1>8. PICK v : v = Marked(unit[c])
  OBVIOUS
<1>9. /\ v \in GoodUnit
      /\ Sound(v, wrote[c], Visible(c), events[c] \cup {"statement"}, Mine(c), X)
  BY <1>0, <1>5, <1>8, FailedSound, UnitFacts
<1>10. /\ unit' = [unit EXCEPT ![c] = v]
       /\ events' = [events EXCEPT ![c] = @ \cup {"statement"}]
  BY <1>0, <1>8 DEF Becomes, Notes
<1>11. TypeOK'
  BY <1>0, <1>4, <1>7, <1>9, <1>10 DEF TypeOK, GoodUnit, Event
<1>12. ClientSound(c)'
  <2>1. unit'[c] = v /\ events'[c] = events[c] \cup {"statement"} /\ Visible(c)' = Visible(c)
    BY <1>0, <1>4, <1>10 DEF TypeOK, Visible
  <2>. QED  BY <1>0, <1>7, <1>9, <2>1 DEF ClientSound
<1>13. Elsewhere(c)
  BY <1>0, <1>4, <1>7, <1>10 DEF Elsewhere, TypeOK
<1>. QED  BY <1>7, <1>11, <1>12, <1>13 DEF StepOK

LEMMA WorkOK ==
  ASSUME IInv, NEW c \in Clients, WorkStep(c)
  PROVE  StepOK(c)
<1>1. CASE Statement(c)
  BY <1>1, StatementStep
<1>2. CASE StatementFails(c)
  BY <1>2, StatementFailsStep
<1>3. CASE WorkPanics(c)
  <2>1. /\ unit[c].at = "work"
        /\ Becomes(c, Answered(unit[c], "panic"))
        /\ Notes(c, "panic")
        /\ UNCHANGED <<owner, pending, table, poolOpen, wrote>>
    BY <1>3 DEF WorkPanics
  <2>3. PICK v : v = Answered(unit[c], "panic")
    OBVIOUS
  <2>4. v \in GoodUnit
    BY <2>3, AnsweredUnit, UnitFacts
  <2>5. Sound(v, wrote[c], Visible(c), events[c] \cup {"panic"}, Mine(c), Rows(c))
    BY <2>1, <2>3, DoneSound, UnitFacts DEF Faults
  <2>. QED  BY <2>1, <2>3, <2>4, <2>5, QuietStep DEF Becomes, Notes, Event
<1>4. CASE WorkCalls(c)
  <2>1. PICK m \in {"commit", "rollback"} :
          /\ Becomes(c, [unit[c] EXCEPT !.at = m, !.call = m, !.then = "work"])
          /\ IF m = "commit" THEN Notes(c, "ownCommit") ELSE UNCHANGED events
    BY <1>4 DEF WorkCalls
  <2>2. unit[c].at = "work" /\ UNCHANGED <<owner, pending, table, poolOpen, wrote>>
    BY <1>4 DEF WorkCalls
  <2>3. PICK f : f = IF m = "commit" THEN {"ownCommit"} ELSE {}
    OBVIOUS
  <2>4. events' = [events EXCEPT ![c] = @ \cup f]
    BY <2>1, <2>3, NoEvents DEF Notes
  <2>5. unit' = [unit EXCEPT ![c] =
                   [unit[c] EXCEPT !.at = m, !.call = m, !.then = "work"]]
    BY <2>1 DEF Becomes
  <2>6. f \in SUBSET {"ownCommit"} /\ (m = "commit" => f = {"ownCommit"})
    BY <2>3
  <2>. QED  BY <2>2, <2>4, <2>5, <2>6, MoveStep
<1>5. CASE WorkReturns(c)
  <2>1. PICK m \in {"commit", "rollback"}, t \in {"commit", "fail"} :
          /\ t = "commit" => m = "commit"
          /\ t = "fail" => m = "rollback"
          /\ Becomes(c, [unit[c] EXCEPT !.at = m, !.call = m, !.then = t])
    BY <1>5 DEF WorkReturns
  <2>2. unit[c].at = "work" /\ UNCHANGED <<owner, pending, table, poolOpen, wrote, events>>
    BY <1>5 DEF WorkReturns
  <2>4. PICK f \in SUBSET {"ownCommit"} : events' = [events EXCEPT ![c] = @ \cup f]
    BY <2>2, NoEvents
  <2>5. unit' = [unit EXCEPT ![c] =
                   [unit[c] EXCEPT !.at = m, !.call = m, !.then = t]]
    BY <2>1 DEF Becomes
  <2>. QED  BY <2>1, <2>2, <2>4, <2>5, MoveStep
<1>. QED  BY <1>1, <1>2, <1>3, <1>4, <1>5 DEF WorkStep

\* ResumeSound as a step of the state.
LEMMA ResumeStep ==
  ASSUME IInv, NEW c \in Clients, NEW ok \in BOOLEAN,
         unit[c].at \in {"commit", "rollback"},
         ok => unit[c].state # "OPEN",
         ok /\ unit[c].then = "commit" => unit[c].state = "COMMITTED",
         NEW f \in SUBSET {"rollback"},
         unit[c].at = "rollback" /\ unit[c].state = "OPEN" => f = {"rollback"},
         unit' = [unit EXCEPT ![c] = Resumed(unit[c], ok)],
         events' = [events EXCEPT ![c] = @ \cup f],
         UNCHANGED <<owner, pending, table, poolOpen, wrote>>
  PROVE  StepOK(c)
<1>0. PICK u \in GoodUnit : u = unit[c]
  BY UnitFacts
<1>1. PICK W, V, E, mine, rows :
        /\ u = unit[c] /\ W = wrote[c] /\ V = Visible(c) /\ E = events[c]
        /\ mine = Mine(c) /\ rows = Rows(c)
  BY <1>0
<1>2. Sound(u, W, V, E, mine, rows)
  BY <1>1, UnitFacts
<1>3. PICK v : v = Resumed(u, ok)
  OBVIOUS
<1>4. u \in Unit /\ u.connection \in Connections /\ u.at \in EndSteps
  BY <1>1, UnitFacts DEF EndSteps
<1>5. Resumes(u, ok, v)
  BY <1>3, <1>4, ResumedUnit
<1>6. Sound(v, W, V, E \cup f, mine, rows)
  <2>1. /\ f \subseteq {"rollback"}
        /\ u.at \in {"commit", "rollback"}
        /\ u.at = "rollback" /\ u.state = "OPEN" => f = {"rollback"}
        /\ ok => u.state # "OPEN"
        /\ ok /\ u.then = "commit" => u.state = "COMMITTED"
    BY <1>1
  <2>. QED  BY <1>2, <1>4, <1>5, <2>1, ResumeSound
<1>7. unit' = [unit EXCEPT ![c] = v] /\ v \in GoodUnit
  BY <1>1, <1>3, <1>5 DEF Resumes
<1>8. f \in SUBSET Event
  BY DEF Event
<1>9. Sound(v, wrote[c], Visible(c), events[c] \cup f, Mine(c), Rows(c))
  BY <1>1, <1>6
<1>. QED  BY <1>7, <1>8, <1>9, QuietStep

\* The two ways in which a commit takes effect.
LEMMA TakesEffect ==
  ASSUME IInv, NEW c \in Clients, MayCommit(unit[c]), Committed(unit[c].connection),
         NEW v \in GoodUnit, NEW f \in SUBSET Event,
         unit' = [unit EXCEPT ![c] = v],
         events' = [events EXCEPT ![c] = @ \cup f],
         UNCHANGED <<owner, poolOpen, wrote>>,
         Sound(v, wrote[c], Visible(c) \cup Rows(c), events[c] \cup f, Mine(c), {})
  PROVE  StepOK(c)
<1>1. unit[c].at = "commit" /\ unit[c].state = "OPEN"
  BY DEF MayCommit
<1>2. TypeOK
  BY DEF IInv
<1>3. /\ table' = table \cup Rows(c)
      /\ pending' = [pending EXCEPT ![unit[c].connection] = {}]
  BY <1>1, OwnConnection DEF Committed
<1>4. PICK X : X = {}
  OBVIOUS
<1>5. X \in SUBSET RowsOf(c) /\ pending' = [pending EXCEPT ![unit[c].connection] = X]
  BY <1>3, <1>4
<1>6. /\ Mine(c)' = Mine(c)
      /\ Rows(c)' = X
      /\ PendingOwned'
      /\ pending' \in [Connections -> SUBSET Row]
      /\ \A k \in Connections : pending'[k] # pending[k] => owner[k] = c
  <2>1. UNCHANGED owner
    OBVIOUS
  <2>2. unit[c].at \notin {"idle", "done"}
    BY <1>1
  <2>. QED  BY <1>1, <1>5, <2>1, <2>2, PendingStep
<1>7. Rows(c) \subseteq RowsOf(c) /\ RowsOf(c) \subseteq Row
  BY <1>1, OwnConnection DEF RowsOf
<1>8. Visible(c)' = Visible(c) \cup Rows(c)
  BY <1>3, <1>7 DEF Visible
<1>9. TypeOK'
  BY <1>2, <1>3, <1>6, <1>7 DEF TypeOK, GoodUnit
<1>10. ClientSound(c)'
  <2>1. unit'[c] = v /\ events'[c] = events[c] \cup f
    BY <1>2, GoodUnits
  <2>. QED  BY <1>4, <1>6, <1>8, <2>1 DEF ClientSound
<1>11. Elsewhere(c)
  BY <1>2, <1>3, <1>6, <1>7 DEF Elsewhere, TypeOK
<1>. QED  BY <1>6, <1>9, <1>10, <1>11 DEF StepOK

\* The two ways in which a unit gives its connection back.
LEMMA GivesBack ==
  ASSUME IInv, NEW c \in Clients,
         unit[c].at \notin {"idle", "done"}, unit[c].state = "OPEN",
         GivenBack(unit[c].connection),
         NEW v \in GoodUnit, NEW f \in SUBSET Event,
         unit' = [unit EXCEPT ![c] = v],
         events' = [events EXCEPT ![c] = @ \cup f],
         UNCHANGED <<table, poolOpen, wrote>>,
         Sound(v, wrote[c], Visible(c), events[c] \cup f, {}, {})
  PROVE  StepOK(c)
<1>1. TypeOK
  BY DEF IInv
<1>2. /\ Mine(c)' = {}
      /\ Rows(c)' = {}
      /\ PendingOwned'
      /\ owner' \in [Connections -> Clients \cup {NoClient}]
      /\ pending' \in [Connections -> SUBSET Row]
      /\ \A k \in Connections :
           /\ owner'[k] # owner[k] => owner[k] = c /\ owner'[k] = NoClient
           /\ pending'[k] # pending[k] => owner[k] = c
  BY BackStep
<1>3. Visible(c)' = Visible(c)
  BY DEF Visible
<1>4. TypeOK'
  BY <1>1, <1>2 DEF TypeOK, GoodUnit
<1>5. ClientSound(c)'
  <2>1. unit'[c] = v /\ events'[c] = events[c] \cup f
    BY <1>1, GoodUnits
  <2>. QED  BY <1>2, <1>3, <2>1 DEF ClientSound
<1>6. Elsewhere(c)
  BY <1>1, <1>2 DEF Elsewhere, TypeOK
<1>. QED  BY <1>2, <1>4, <1>5, <1>6 DEF StepOK

LEMMA EndOK ==
  ASSUME IInv, NEW c \in Clients, EndStep(c)
  PROVE  StepOK(c)
<1>1. CASE CommitTooLate(c)
  <2>1. /\ unit[c].at = "commit" /\ unit[c].state # "OPEN"
        /\ UNCHANGED <<owner, pending, table, poolOpen, wrote, events>>
    BY <1>1 DEF CommitTooLate
  <2>2. PICK ok \in BOOLEAN : ok <=> unit[c].state = "COMMITTED"
    OBVIOUS
  <2>3. (unit[c].state = "COMMITTED") = ok
    BY <2>2
  <2>4. unit' = [unit EXCEPT ![c] = Resumed(unit[c], ok)]
    BY <1>1, <2>3 DEF CommitTooLate, Becomes
  <2>5. PICK f \in SUBSET {"rollback"} : events' = [events EXCEPT ![c] = @ \cup f]
    BY <2>1, NoEvents
  <2>. QED  BY <2>1, <2>2, <2>4, <2>5, ResumeStep
<1>2. CASE CommitRefused(c)
  <2>1. /\ unit[c].at = "commit" /\ unit[c].state = "OPEN"
        /\ Becomes(c, [unit[c] EXCEPT !.at = "rollback"])
        /\ UNCHANGED <<owner, pending, table, poolOpen, wrote, events>>
    BY <1>2 DEF CommitRefused
  <2>2. PICK t : t = unit[c].then
    OBVIOUS
  <2>3. unit[c].call = "commit" /\ t \in {"work", "commit"}
        /\ (t = "work" => "ownCommit" \in events[c])
    BY <2>1, <2>2, UnitFacts DEF Sound, Calling, EndSteps
  <2>4. [unit[c] EXCEPT !.at = "rollback"]
          = [unit[c] EXCEPT !.at = "rollback", !.call = "commit", !.then = t]
    BY <2>2, <2>3, UnitFacts DEF Unit
  <2>5. unit' = [unit EXCEPT ![c] =
                   [unit[c] EXCEPT !.at = "rollback", !.call = "commit", !.then = t]]
    BY <2>1, <2>4 DEF Becomes
  <2>6. PICK f \in SUBSET {"ownCommit"} : events' = [events EXCEPT ![c] = @ \cup f]
    BY <2>1, NoEvents
  <2>. QED  BY <2>1, <2>3, <2>5, <2>6, MoveStep
<1>3. CASE Commit(c)
  <2>1. /\ MayCommit(unit[c])
        /\ Committed(unit[c].connection)
        /\ Becomes(c, [unit[c] EXCEPT !.at = "closeCommitted"])
        /\ UNCHANGED <<owner, poolOpen, wrote, events>>
    BY <1>3 DEF Commit
  <2>2. PICK v : v = [unit[c] EXCEPT !.at = "closeCommitted"]
    OBVIOUS
  <2>3. v \in GoodUnit
    <3>1. unit[c].call = "commit" /\ unit[c].connection \in Connections
      BY <2>1, UnitFacts DEF Sound, Calling, MayCommit
    <3>. QED  BY <2>1, <2>2, <3>1, UnitFacts DEF GoodUnit, Unit, Placed, EndSteps, At, MayCommit
  <2>4. PICK f : f = {}
    OBVIOUS
  <2>5. events' = [events EXCEPT ![c] = @ \cup f]
    BY <2>1, <2>4, NoEvents
  <2>6. Sound(v, wrote[c], Visible(c) \cup Rows(c), events[c], Mine(c), {})
    BY <2>1, <2>2, CommitSound, UnitFacts
  <2>7. events[c] \cup f = events[c] /\ f \in SUBSET Event
    BY <2>4
  <2>8. Sound(v, wrote[c], Visible(c) \cup Rows(c), events[c] \cup f, Mine(c), {})
    BY <2>6, <2>7
  <2>9. unit' = [unit EXCEPT ![c] = v]
    BY <2>1, <2>2 DEF Becomes
  <2>. HIDE <2>4
  <2>. QED  BY <2>1, <2>3, <2>5, <2>7, <2>8, <2>9, TakesEffect
<1>4. CASE CommitFails(c)
  <2>1. /\ MayCommit(unit[c])
        /\ Becomes(c, Resumed(unit[c], FALSE))
        /\ UNCHANGED <<owner, pending, table, poolOpen, wrote, events>>
    BY <1>4 DEF CommitFails
  <2>2. unit[c].at = "commit" /\ unit[c].state = "OPEN"
    BY <2>1 DEF MayCommit
  <2>3. PICK f \in SUBSET {"rollback"} : events' = [events EXCEPT ![c] = @ \cup f]
    BY <2>1, NoEvents
  <2>4. PICK ok \in BOOLEAN : ok = FALSE
    OBVIOUS
  <2>5. unit' = [unit EXCEPT ![c] = Resumed(unit[c], ok)]
    BY <2>1, <2>4 DEF Becomes
  <2>. QED  BY <2>1, <2>2, <2>3, <2>4, <2>5, ResumeStep
<1>5. CASE CommitInDoubt(c)
  <2>1. /\ MayCommit(unit[c])
        /\ Committed(unit[c].connection)
        /\ Becomes(c, Resumed(unit[c], FALSE))
        /\ Notes(c, "inDoubt")
        /\ UNCHANGED <<owner, poolOpen, wrote>>
    BY <1>5 DEF CommitInDoubt
  <2>2. PICK v : v = Resumed(unit[c], FALSE)
    OBVIOUS
  <2>3. Resumes(unit[c], FALSE, v) /\ v \in GoodUnit
    <3>1. unit[c].connection \in Connections
      BY <2>1, UnitFacts DEF MayCommit
    <3>. QED  BY <2>2, <3>1, ResumedUnit, UnitFacts DEF Resumes
  <2>4. Sound(v, wrote[c], Visible(c) \cup Rows(c), events[c] \cup {"inDoubt"}, Mine(c), {})
    BY <2>1, <2>3, DoubtSound, UnitFacts
  <2>5. /\ unit' = [unit EXCEPT ![c] = v]
        /\ events' = [events EXCEPT ![c] = @ \cup {"inDoubt"}]
        /\ {"inDoubt"} \in SUBSET Event
    BY <2>1, <2>2 DEF Becomes, Notes, Event
  <2>. QED  BY <2>1, <2>3, <2>4, <2>5, TakesEffect
<1>6. CASE RollbackTooLate(c)
  <2>1. /\ unit[c].at = "rollback" /\ unit[c].state # "OPEN"
        /\ UNCHANGED <<owner, pending, table, poolOpen, wrote, events>>
    BY <1>6 DEF RollbackTooLate
  <2>2. PICK ok \in BOOLEAN : ok = ReturnsOk(unit[c], TRUE)
    <3>1. ReturnsOk(unit[c], TRUE) \in BOOLEAN
      BY Zenon DEF ReturnsOk
    <3>. QED  BY <3>1
  <2>3. unit' = [unit EXCEPT ![c] = Resumed(unit[c], ok)]
    BY <1>6, <2>2 DEF RollbackTooLate, Becomes
  <2>4. ok => unit[c].call # "commit"
    <3>1. ok => ReturnsOk(unit[c], TRUE)
      BY <2>2
    <3>. QED  BY <2>1, <3>1 DEF ReturnsOk
  <2>5. ~(ok /\ unit[c].then = "commit")
    BY <2>1, <2>4, UnitFacts DEF Sound, Calling, EndSteps
  <2>6. PICK f \in SUBSET {"rollback"} : events' = [events EXCEPT ![c] = @ \cup f]
    BY <2>1, NoEvents
  <2>. QED  BY <2>1, <2>3, <2>5, <2>6, ResumeStep
<1>7. CASE Rollback(c)
  <2>1. /\ unit[c].at = "rollback" /\ unit[c].state = "OPEN"
        /\ Forgotten(unit[c].connection)
        /\ Becomes(c, [unit[c] EXCEPT !.at = "closeRolledBack"])
        /\ UNCHANGED <<owner, table, poolOpen, wrote, events>>
    BY <1>7 DEF Rollback
  <2>2. PICK v : v = [unit[c] EXCEPT !.at = "closeRolledBack"]
    OBVIOUS
  <2>3. v \in GoodUnit
    BY <2>1, <2>2, UnitFacts DEF GoodUnit, Unit, Placed, EndSteps, At
  <2>4. Sound(v, wrote[c], Visible(c), events[c], Mine(c), {})
    BY <2>1, <2>2, RollbackSound, UnitFacts
  <2>5. unit' = [unit EXCEPT ![c] = v]
    BY <2>1, <2>2 DEF Becomes
  <2>6. PICK X : X = {}
    OBVIOUS
  <2>7. X \in SUBSET RowsOf(c) /\ pending' = [pending EXCEPT ![unit[c].connection] = X]
    BY <2>1, <2>6 DEF Forgotten
  <2>8. /\ Mine(c)' = Mine(c)
        /\ Rows(c)' = X
        /\ PendingOwned'
        /\ pending' \in [Connections -> SUBSET Row]
        /\ \A k \in Connections : pending'[k] # pending[k] => owner[k] = c
    <3>1. UNCHANGED owner
      BY <2>1
    <3>2. unit[c].at \notin {"idle", "done"}
      BY <2>1
    <3>. QED  BY <2>1, <2>7, <3>1, <3>2, PendingStep
  <2>9. TypeOK
    BY DEF IInv
  <2>10. TypeOK'
    BY <2>1, <2>3, <2>5, <2>8, <2>9 DEF TypeOK, GoodUnit
  <2>11. ClientSound(c)'
    <3>1. unit'[c] = v /\ Visible(c)' = Visible(c)
      BY <2>1, <2>5, <2>9, GoodUnits DEF Visible
    <3>. QED  BY <2>1, <2>4, <2>6, <2>8, <3>1 DEF ClientSound
  <2>12. Elsewhere(c)
    BY <2>1, <2>5, <2>8, <2>9 DEF Elsewhere, TypeOK
  <2>. QED  BY <2>8, <2>10, <2>11, <2>12 DEF StepOK
<1>8. CASE RollbackFails(c)
  <2>1. /\ unit[c].at = "rollback" /\ unit[c].state = "OPEN"
        /\ Becomes(c, Resumed(unit[c], FALSE))
        /\ Notes(c, "rollback")
        /\ UNCHANGED <<owner, pending, table, poolOpen, wrote>>
    BY <1>8 DEF RollbackFails
  <2>2. PICK ok \in BOOLEAN : ok = FALSE
    OBVIOUS
  <2>3. unit' = [unit EXCEPT ![c] = Resumed(unit[c], ok)]
    BY <2>1, <2>2 DEF Becomes
  <2>4. PICK f \in SUBSET {"rollback"} :
          f = {"rollback"} /\ events' = [events EXCEPT ![c] = @ \cup f]
    BY <2>1 DEF Notes
  <2>. QED  BY <2>1, <2>2, <2>3, <2>4, ResumeStep
<1>9. ASSUME NEW ok \in BOOLEAN, CloseConnection(c, ok)
      PROVE  StepOK(c)
  <2>1. /\ unit[c].at \in {"closeCommitted", "closeRolledBack"}
        /\ GivenBack(unit[c].connection)
        /\ Becomes(c, Resumed([unit[c] EXCEPT !.state = EndState(unit[c], ok)],
                              ReturnsOk(unit[c], ok)))
        /\ IF ok THEN UNCHANGED events ELSE Notes(c, "close")
        /\ UNCHANGED <<table, poolOpen, wrote>>
    BY <1>9 DEF CloseConnection
  <2>2. unit[c].state = "OPEN" /\ unit[c].at \notin {"idle", "done"}
    BY <2>1, UnitFacts DEF GoodUnit, Placed
  <2>3. PICK v : v = Resumed([unit[c] EXCEPT !.state = EndState(unit[c], ok)],
                             ReturnsOk(unit[c], ok))
    OBVIOUS
  <2>4. PICK f : f = IF ok THEN {} ELSE {"close"}
    OBVIOUS
  <2>5. events' = [events EXCEPT ![c] = @ \cup f] /\ f \in SUBSET Event
    BY <2>1, <2>4, NoEvents DEF Notes, Event
  <2>6. v \in GoodUnit /\ Sound(v, wrote[c], Visible(c), events[c] \cup f, {}, {})
    BY <2>1, <2>3, <2>4, CloseSound, UnitFacts
  <2>7. unit' = [unit EXCEPT ![c] = v]
    BY <2>1, <2>3 DEF Becomes
  <2>. QED  BY <2>1, <2>2, <2>5, <2>6, <2>7, GivesBack
<1>. QED  BY <1>1, <1>2, <1>3, <1>4, <1>5, <1>6, <1>7, <1>8, <1>9 DEF EndStep

LEMMA SingleOK ==
  ASSUME IInv, NEW c \in Clients, SingleStep(c)
  PROVE  StepOK(c)
<1>1. ASSUME NEW ok \in BOOLEAN, Single(c, ok)
      PROVE  StepOK(c)
  <2>1. /\ unit[c].at = "single"
        /\ NewRow(c) \in Row
        /\ table' = table \cup {NewRow(c)}
        /\ wrote' = [wrote EXCEPT ![c] = @ \cup {NewRow(c)}]
        /\ Becomes(c, [unit[c] EXCEPT !.at = "closeSingle"])
        /\ IF ok THEN UNCHANGED events ELSE Notes(c, "close")
        /\ UNCHANGED <<owner, pending, poolOpen>>
    BY <1>1 DEF Single
  <2>2. PICK r : r = NewRow(c)
    OBVIOUS
  <2>3. r \in RowsOf(c) /\ r \in Row
    BY <2>1, <2>2, NewRowMine
  <2>4. PICK v : v = [unit[c] EXCEPT !.at = "closeSingle"]
    OBVIOUS
  <2>5. PICK f : f = IF ok THEN {} ELSE {"close"}
    OBVIOUS
  <2>6. events' = [events EXCEPT ![c] = @ \cup f] /\ f \in SUBSET Event
    BY <2>1, <2>5, NoEvents DEF Notes, Event
  <2>7. v \in GoodUnit /\ Sound(v, wrote[c] \cup {r}, Visible(c) \cup {r},
                                events[c] \cup f, Mine(c), Rows(c))
    BY <2>1, <2>4, <2>5, SingleSound, UnitFacts
  <2>8. TypeOK
    BY DEF IInv
  <2>9. unit' = [unit EXCEPT ![c] = v]
    BY <2>1, <2>4 DEF Becomes
  <2>10. /\ unit'[c] = v /\ wrote'[c] = wrote[c] \cup {r}
         /\ events'[c] = events[c] \cup f
         /\ Visible(c)' = Visible(c) \cup {r}
    BY <2>1, <2>2, <2>3, <2>6, <2>8, <2>9 DEF TypeOK, Visible
  <2>11. TypeOK'
    BY <2>1, <2>2, <2>3, <2>6, <2>7, <2>8, <2>9 DEF TypeOK, GoodUnit
  <2>12. PendingOwned'
    BY <2>1 DEF IInv, PendingOwned
  <2>13. Mine(c)' = Mine(c)
    BY <2>1 DEF Mine
  <2>14. Rows(c)' = Rows(c)
    BY <2>1, <2>13 DEF Rows
  <2>15. ClientSound(c)'
    BY <2>7, <2>10, <2>13, <2>14 DEF ClientSound
  <2>16. Elsewhere(c)
    BY <2>1, <2>2, <2>3, <2>6, <2>8, <2>9 DEF Elsewhere, TypeOK
  <2>. QED  BY <2>11, <2>12, <2>15, <2>16 DEF StepOK
<1>2. CASE SingleFails(c)
  <2>1. /\ unit[c].at = "single"
        /\ Becomes(c, [unit[c] EXCEPT !.at = "closeSingle"])
        /\ UNCHANGED <<owner, pending, table, poolOpen, wrote>>
    BY <1>2 DEF SingleFails
  <2>2. PICK f \in {"statement", "panic"} : Notes(c, f)
    BY <1>2 DEF SingleFails
  <2>3. PICK v : v = [unit[c] EXCEPT !.at = "closeSingle"]
    OBVIOUS
  <2>4. v \in GoodUnit /\ Sound(v, wrote[c], Visible(c), events[c] \cup {f}, Mine(c), Rows(c))
    BY <2>1, <2>3, SingleFailsSound, UnitFacts
  <2>5. /\ unit' = [unit EXCEPT ![c] = v]
        /\ events' = [events EXCEPT ![c] = @ \cup {f}]
        /\ {f} \in SUBSET Event
    BY <2>1, <2>2, <2>3 DEF Becomes, Notes, Event
  <2>. QED  BY <2>1, <2>4, <2>5, QuietStep
<1>3. ASSUME NEW ok \in BOOLEAN, CloseSingle(c, ok)
      PROVE  StepOK(c)
  <2>1. /\ unit[c].at = "closeSingle"
        /\ GivenBack(unit[c].connection)
        /\ Becomes(c, Answered(unit[c], SingleAnswer(events[c], ok)))
        /\ IF ok THEN UNCHANGED events ELSE Notes(c, "close")
        /\ UNCHANGED <<table, poolOpen, wrote>>
    BY <1>3 DEF CloseSingle, SingleAnswer
  <2>2. unit[c].state = "OPEN" /\ unit[c].at \notin {"idle", "done"}
    BY <2>1, UnitFacts DEF Sound, Over
  <2>3. PICK v : v = Answered(unit[c], SingleAnswer(events[c], ok))
    OBVIOUS
  <2>4. PICK f : f = IF ok THEN {} ELSE {"close"}
    OBVIOUS
  <2>5. events' = [events EXCEPT ![c] = @ \cup f] /\ f \in SUBSET Event
    BY <2>1, <2>4, NoEvents DEF Notes, Event
  <2>6. /\ SingleAnswer(events[c], ok) \in {"ok", "err", "panic"}
        /\ Sound(v, wrote[c], Visible(c), events[c] \cup f, {}, {})
    BY <2>1, <2>3, <2>4, CloseSingleSound, UnitFacts
  <2>7. v \in GoodUnit
    BY <2>3, <2>6, AnsweredUnit, UnitFacts
  <2>8. unit' = [unit EXCEPT ![c] = v]
    BY <2>1, <2>3 DEF Becomes
  <2>. QED  BY <2>1, <2>2, <2>5, <2>6, <2>7, <2>8, GivesBack
<1>. QED  BY <1>1, <1>2, <1>3 DEF SingleStep

-----------------------------------------------------------------------------
(* The theorems. *)

LEMMA InitIInv ==
  ASSUME Init
  PROVE  IInv
<1>1. TypeOK
  BY DEF Init, TypeOK, Unit, Placed, EndSteps, At, Event
<1>2. PendingOwned
  BY NoClientIsNone DEF Init, PendingOwned
<1>3. ASSUME NEW c \in Clients PROVE ClientSound(c)
  <2>1. Mine(c) = {} /\ Visible(c) = {} /\ wrote[c] = {} /\ events[c] = {}
    BY NoClientIsNone DEF Init, Mine, Visible
  <2>2. Rows(c) = {}
    BY <2>1 DEF Rows
  <2>3. PICK u : u = unit[c]
    OBVIOUS
  <2>4. /\ u.at = "idle" /\ u.call = "none" /\ u.state = "OPEN"
        /\ u.rollbackOnly = FALSE /\ u.answer = "none"
    BY <2>3 DEF Init
  <2>5. Sound(u, {}, {}, {}, {}, {})
    BY <2>4 DEF Sound, Owning, Calling, Fresh, Working, Over, Seen, EndSteps
  <2>. QED  BY <2>1, <2>2, <2>3, <2>5 DEF ClientSound
<1>. QED  BY <1>1, <1>2, <1>3 DEF IInv

LEMMA NextIInv ==
  ASSUME IInv, [Next]_vars
  PROVE  IInv'
<1>1. ASSUME NEW c \in Clients, ClientStep(c)
      PROVE  IInv'
  <2>1. StepOK(c)
    BY <1>1, BeginOK, WorkOK, EndOK, SingleOK DEF ClientStep
  <2>2. \A d \in Clients \ {c} : ClientSound(d)'
    BY <2>1, Frame DEF StepOK
  <2>. QED  BY <2>1, <2>2 DEF StepOK, IInv
<1>2. CASE ClosePool \/ UNCHANGED vars
  <2>1. UNCHANGED <<unit, owner, pending, table, wrote, events>> /\ poolOpen' \in BOOLEAN
    BY <1>2 DEF ClosePool, vars, IInv, TypeOK
  <2>2. TypeOK'
    BY <2>1 DEF IInv, TypeOK
  <2>3. PendingOwned'
    BY <2>1 DEF IInv, PendingOwned
  <2>4. ASSUME NEW c \in Clients PROVE ClientSound(c)'
    <3>1. Mine(c)' = Mine(c) /\ Visible(c)' = Visible(c)
      BY <2>1 DEF Mine, Visible
    <3>2. Rows(c)' = Rows(c)
      BY <2>1, <3>1 DEF Rows
    <3>. QED  BY <2>1, <3>1, <3>2 DEF IInv, ClientSound
  <2>. QED  BY <2>2, <2>3, <2>4 DEF IInv
<1>. QED  BY <1>1, <1>2 DEF Next

\* The invariant holds always.
LEMMA Invariant == Spec => []IInv
  BY InitIInv, NextIInv, PTL DEF Spec

\* The records, the pool and the table keep their type: a driver call is never
\* made without a connection, and a transaction is closed while it is open.
THEOREM TypesKept == Spec => []TypeOK
<1>1. IInv => TypeOK
  BY DEF IInv
<1>. QED  BY <1>1, Invariant, PTL

\* The rows of a unit of work become visible together or not at all.
THEOREM AtomicAlways == Spec => []AllOrNothing
<1>1. IInv => AllOrNothing
  BY DEF IInv, ClientSound, Sound, Seen, AllOrNothing, Had
<1>. QED  BY <1>1, Invariant, PTL

\* Nothing of a unit of work with a failed statement is ever committed.
THEOREM FailedNeverVisible == Spec => []FailedStatementUndone
<1>1. IInv => FailedStatementUndone
  BY DEF IInv, ClientSound, Sound, Seen, FailedStatementUndone, Had
<1>. QED  BY <1>1, Invariant, PTL

\* Ok is answered only when everything is committed.
THEOREM OkNeverLies == Spec => []OkMeansCommitted
<1>1. ASSUME IInv, NEW c \in Clients, unit[c].answer = "ok"
      PROVE  wrote[c] \subseteq table /\ ~Had(c, {"statement"})
  BY <1>1 DEF IInv, ClientSound, Sound, Over, Had, Visible
<1>2. IInv => OkMeansCommitted
  BY <1>1 DEF OkMeansCommitted
<1>. QED  BY <1>2, Invariant, PTL

\* Err is answered with rows visible only in the three cases that excuse it.
THEOREM ErrSeldomLies == Spec => []ErrMeansUndone
<1>1. ASSUME IInv, NEW c \in Clients, unit[c].answer = "err", Visible(c) # {}
      PROVE  Had(c, {"close", "inDoubt", "ownCommit"})
  <2>1. unit[c].at = "done"
    BY <1>1 DEF IInv, ClientSound, Sound, Calling
  <2>. QED  BY <1>1, <2>1 DEF IInv, ClientSound, Sound, Seen, Had, Excuses
<1>2. IInv => ErrMeansUndone
  BY <1>1 DEF ErrMeansUndone
<1>. QED  BY <1>2, Invariant, PTL

\* No call reaches a connection that has been given back or taken by another
\* unit of work, and no connection changes hands with rows pending.
THEOREM SeparateAlways == Spec => []ConnectionsSeparate
<1>1. ASSUME IInv, NEW k \in Connections, NEW c \in Clients, Uses(c, k)
      PROVE  owner[k] = c
  BY <1>1, OwnConnection DEF Uses
<1>2. IInv => ConnectionsSeparate
  BY <1>1 DEF ConnectionsSeparate, IInv, PendingOwned
<1>. QED  BY <1>2, Invariant, PTL

\* A unit of work that is over keeps its connection only after a failed
\* setAutoCommit, a failed rollback or a panic.
THEOREM LeaksExplained == Spec => []LeakOnlyAfterFault
<1>1. ASSUME IInv, NEW k \in Connections, NEW c \in Clients,
             owner[k] = c, unit[c].at = "done"
      PROVE  Had(c, {"autoCommit", "rollback", "panic"})
  <2>1. k \in Mine(c)
    BY <1>1 DEF Mine
  <2>. QED  BY <1>1, <2>1 DEF IInv, ClientSound, Sound, Owning, Had, Faults
<1>2. IInv => LeakOnlyAfterFault
  BY <1>1 DEF LeakOnlyAfterFault
<1>. QED  BY <1>2, Invariant, PTL

-----------------------------------------------------------------------------
(* When no commit is in doubt, Transactions implements UnitOfWork, for any
   number of clients and connections: a successful statement is Write or
   WriteNow, a failed one Break, connection.commit() is TakeEffect, the step
   that answers is Reply, and all others are invisible. *)

NoDoubt == \A c \in Clients : "inDoubt" \notin events[c]

RInv == IInv /\ NoDoubt

Broken == [c \in Clients |-> Had(c, {"statement"})]

Answers == [c \in Clients |-> unit[c].answer]

LEMMA NoDoubtKept ==
  ASSUME ~MayDoubt, RInv, [Next]_vars
  PROVE  NoDoubt'
<1>0. events \in [Clients -> SUBSET Event]
  BY DEF RInv, IInv, TypeOK
<1>1. ASSUME NEW c \in Clients, NEW f \in {"statement", "panic", "autoCommit", "rollback", "close", "ownCommit"},
             Notes(c, f)
      PROVE  NoDoubt'
  BY <1>0, <1>1 DEF Notes, RInv, NoDoubt
<1>2. CASE UNCHANGED events
  BY <1>2 DEF RInv, NoDoubt
<1>3. ASSUME NEW c \in Clients, ClientStep(c)
      PROVE  NoDoubt'
  <2>1. CASE BeginStep(c)
    BY <1>1, <1>2, <2>1 DEF BeginStep, Open, OpenFails, SetAutoCommit, SetAutoCommitFails
  <2>2. CASE WorkStep(c)
    BY <1>1, <1>2, <2>2 DEF WorkStep, Statement, StatementFails, WorkPanics, WorkCalls, WorkReturns
  <2>3. CASE EndStep(c)
    BY <1>1, <1>2, <2>3 DEF EndStep, CommitTooLate, CommitRefused, Commit, CommitFails,
         CommitInDoubt, RollbackTooLate, Rollback, RollbackFails, CloseConnection
  <2>4. CASE SingleStep(c)
    BY <1>1, <1>2, <2>4 DEF SingleStep, Single, SingleFails, CloseSingle
  <2>. QED  BY <1>3, <2>1, <2>2, <2>3, <2>4 DEF ClientStep
<1>. QED  BY <1>2, <1>3 DEF Next, ClosePool, vars

-----------------------------------------------------------------------------
(* Steps of a client, seen through UnitOfWork. *)

\* The state of UnitOfWork that c sees.
LEMMA SeenByOthers ==
  ASSUME RInv, NEW c \in Clients, StepOK(c)
  PROVE  \A d \in Clients \ {c} : Broken'[d] = Broken[d] /\ Answers'[d] = Answers[d]
  BY DEF Broken, Answers, Had, StepOK, Elsewhere

\* A step that changes neither rows nor whether a statement of c has failed is
\* invisible, or it is the answer.
LEMMA QuietOrReply ==
  ASSUME RInv, NEW c \in Clients, StepOK(c), UNCHANGED <<table, wrote>>,
         "statement" \in events'[c] <=> "statement" \in events[c],
         unit[c].at # "done"
  PROVE  Abstract!Next \/ UNCHANGED Abstract!vars
<1>0. unit[c].answer = "none"
  BY DEF RInv, IInv, ClientSound, Sound, Calling
<1>1. /\ unit'[c] \in Unit
      /\ Sound(unit'[c], wrote'[c], Visible(c)', events'[c], Mine(c)', Rows(c)')
  BY DEF StepOK, TypeOK, ClientSound
<1>2. PICK a : a = unit'[c].answer
  OBVIOUS
<1>3. a \in {"none", "ok", "err", "panic"}
  BY <1>1, <1>2 DEF Unit
<1>4. Broken' = Broken
  BY SeenByOthers DEF Broken, Had
<1>5. Answers' = [Answers EXCEPT ![c] = a]
  BY <1>2, SeenByOthers DEF Answers
<1>6. a = "ok" => ~Broken[c] /\ wrote[c] \subseteq table
  <2>1. a = "ok" => wrote'[c] \subseteq Visible(c)' /\ "statement" \notin events'[c]
    BY <1>1, <1>2 DEF Sound, Over
  <2>. QED  BY <2>1 DEF Broken, Had, Visible
<1>7. Abstract!Reply(c, a)
  BY <1>0, <1>3, <1>4, <1>5, <1>6 DEF Abstract!Reply, Abstract!Answer, Broken, Answers
<1>. QED  BY <1>3, <1>7 DEF Abstract!Next, Abstract!Answer

\* Before it has taken effect or been answered, c is pending in UnitOfWork.
LEMMA IsPending ==
  ASSUME RInv, NEW c \in Clients,
         unit[c].at \in {"work", "commit", "single"}, unit[c].state = "OPEN"
  PROVE  Abstract!Pending(c)
<1>1. unit[c].answer = "none"
  BY DEF RInv, IInv, ClientSound, Sound, Calling
<1>2. Visible(c) = {}
  BY DEF RInv, NoDoubt, IInv, ClientSound, Sound, Working, Fresh
<1>. QED  BY <1>1, <1>2 DEF Abstract!Pending, Abstract!RowsOf, Abstract!Row, Visible, RowsOf, Row

LEMMA BreakStep ==
  ASSUME RInv, NEW c \in Clients, StepOK(c), UNCHANGED <<table, wrote>>,
         Abstract!Pending(c), "statement" \in events'[c],
         unit'[c].answer = unit[c].answer
  PROVE  Abstract!Break(c)
<1>1. Broken' = [Broken EXCEPT ![c] = TRUE]
  BY SeenByOthers DEF Broken, Had
<1>2. Answers' = Answers
  BY SeenByOthers DEF Answers
<1>. QED  BY <1>1, <1>2 DEF Abstract!Break, Broken, Answers

LEMMA StepRefines ==
  ASSUME ~MayDoubt, RInv, NEW c \in Clients, ClientStep(c)
  PROVE  Abstract!Next \/ UNCHANGED Abstract!vars
<1>0. /\ StepOK(c)
      /\ TypeOK
  BY BeginOK, WorkOK, EndOK, SingleOK DEF ClientStep, RInv, IInv
<1>1. ASSUME NEW f \in SUBSET {"panic", "autoCommit", "rollback", "close", "ownCommit"},
             events' = [events EXCEPT ![c] = @ \cup f]
      PROVE  "statement" \in events'[c] <=> "statement" \in events[c]
  BY <1>0, <1>1 DEF TypeOK
<1>2. UNCHANGED events => ("statement" \in events'[c] <=> "statement" \in events[c])
  OBVIOUS
<1>3. ASSUME NEW f \in {"panic", "autoCommit", "rollback", "close", "ownCommit"}, Notes(c, f)
      PROVE  "statement" \in events'[c] <=> "statement" \in events[c]
  BY <1>1, <1>3 DEF Notes
<1>4. CASE BeginStep(c)
  <2>1. /\ UNCHANGED <<table, wrote>>
        /\ "statement" \in events'[c] <=> "statement" \in events[c]
        /\ unit[c].at # "done"
    BY <1>2, <1>3, <1>4 DEF BeginStep, Open, OpenFails, SetAutoCommit, SetAutoCommitFails
  <2>. QED  BY <1>0, <2>1, QuietOrReply
<1>5. CASE WorkPanics(c) \/ WorkCalls(c) \/ WorkReturns(c)
  <2>1. /\ UNCHANGED <<table, wrote>>
        /\ "statement" \in events'[c] <=> "statement" \in events[c]
        /\ unit[c].at # "done"
    BY <1>2, <1>3, <1>5 DEF WorkPanics, WorkCalls, WorkReturns
  <2>. QED  BY <1>0, <2>1, QuietOrReply
<1>6. CASE \/ CommitTooLate(c) \/ CommitRefused(c) \/ CommitFails(c)
           \/ RollbackTooLate(c) \/ Rollback(c) \/ RollbackFails(c)
           \/ \E ok \in BOOLEAN : CloseConnection(c, ok) \/ CloseSingle(c, ok)
  <2>1. /\ UNCHANGED <<table, wrote>>
        /\ "statement" \in events'[c] <=> "statement" \in events[c]
        /\ unit[c].at # "done"
    BY <1>2, <1>3, <1>6 DEF CommitTooLate, CommitRefused, CommitFails, MayCommit,
         RollbackTooLate, Rollback, RollbackFails, CloseConnection, CloseSingle
  <2>. QED  BY <1>0, <2>1, QuietOrReply
<1>7. CASE Statement(c)
  <2>1. /\ unit[c].at = "work" /\ unit[c].state = "OPEN" /\ ~unit[c].rollbackOnly
        /\ NewRow(c) \in RowsOf(c)
        /\ wrote' = [wrote EXCEPT ![c] = @ \cup {NewRow(c)}]
        /\ UNCHANGED <<table, unit, events>>
    BY <1>7, NewRowMine DEF Statement, MayRun
  <2>2. "statement" \notin events[c]
    BY <2>1 DEF RInv, IInv, ClientSound, Sound, Working
  <2>3. Abstract!Pending(c)
    BY <2>1, IsPending
  <2>4. PICK r \in Row : r = NewRow(c)
    BY <2>1 DEF RowsOf
  <2>5. Abstract!Write(c, r)
    BY <2>1, <2>2, <2>3, <2>4 DEF Abstract!Write, Abstract!RowsOf, Abstract!Row, RowsOf, Row, Had
  <2>. QED  BY <2>5 DEF Abstract!Next, Abstract!Row, Row
<1>8. CASE StatementFails(c)
  <2>1. /\ unit[c].at = "work" /\ unit[c].state = "OPEN"
        /\ UNCHANGED <<table, wrote>>
        /\ unit' = [unit EXCEPT ![c] = Marked(unit[c])]
        /\ events' = [events EXCEPT ![c] = @ \cup {"statement"}]
    BY <1>8 DEF StatementFails, MayRun, Becomes, Notes
  <2>2. Abstract!Pending(c)
    BY <2>1, IsPending
  <2>3. "statement" \in events'[c]
    BY <1>0, <2>1 DEF TypeOK
  <2>4. unit'[c].answer = unit[c].answer
    BY <1>0, <2>1 DEF TypeOK, Marked, Unit
  <2>5. Abstract!Break(c)
    BY <1>0, <2>1, <2>2, <2>3, <2>4, BreakStep
  <2>. QED  BY <2>5 DEF Abstract!Next
<1>9. CASE Commit(c)
  <2>1. /\ unit[c].at = "commit" /\ unit[c].state = "OPEN" /\ ~unit[c].rollbackOnly
        /\ table' = table \cup pending[unit[c].connection]
        /\ unit' = [unit EXCEPT ![c] = [unit[c] EXCEPT !.at = "closeCommitted"]]
        /\ UNCHANGED <<wrote, events>>
    BY <1>9 DEF Commit, MayCommit, Becomes, Committed
  <2>2. "statement" \notin events[c]
    BY <2>1 DEF RInv, IInv, ClientSound, Sound, Working, EndSteps
  <2>3. Abstract!Pending(c)
    BY <2>1, IsPending
  <2>4. Rows(c) = pending[unit[c].connection]
    BY <2>1, OwnConnection DEF RInv
  <2>5. Visible(c) = {} /\ Rows(c) \subseteq wrote[c] /\ wrote[c] \subseteq Rows(c) \cup Visible(c)
    BY <2>1 DEF RInv, NoDoubt, IInv, ClientSound, Sound, Working
  <2>6. table' = table \cup wrote[c]
    BY <2>1, <2>4, <2>5
  <2>7. Answers' = Answers
    <3>1. unit'[c].answer = unit[c].answer
      BY <1>0, <2>1 DEF TypeOK, Unit
    <3>. QED  BY <1>0, <3>1, SeenByOthers DEF Answers
  <2>8. Abstract!TakeEffect(c)
    BY <2>1, <2>2, <2>3, <2>6, <2>7 DEF Abstract!TakeEffect, Answers, Had
  <2>. QED  BY <2>8 DEF Abstract!Next
<1>10. CASE CommitInDoubt(c)
  BY <1>10 DEF CommitInDoubt
<1>11. ASSUME NEW ok \in BOOLEAN, Single(c, ok)
       PROVE  Abstract!Next \/ UNCHANGED Abstract!vars
  <2>1. /\ unit[c].at = "single"
        /\ NewRow(c) \in RowsOf(c)
        /\ table' = table \cup {NewRow(c)}
        /\ wrote' = [wrote EXCEPT ![c] = @ \cup {NewRow(c)}]
        /\ unit' = [unit EXCEPT ![c] = [unit[c] EXCEPT !.at = "closeSingle"]]
        /\ IF ok THEN UNCHANGED events ELSE Notes(c, "close")
    BY <1>11, NewRowMine DEF Single, Becomes
  <2>2. events[c] = {} /\ wrote[c] = {} /\ unit[c].state = "OPEN"
    BY <2>1 DEF RInv, IInv, ClientSound, Sound, Fresh
  <2>3. Abstract!Pending(c)
    BY <2>1, <2>2, IsPending
  <2>4. PICK r \in Row : r = NewRow(c)
    BY <2>1 DEF RowsOf
  <2>5. "statement" \in events'[c] <=> "statement" \in events[c]
    BY <1>2, <1>3, <2>1
  <2>6. Broken' = Broken
    BY <1>0, <2>5, SeenByOthers DEF Broken, Had
  <2>7. Answers' = Answers
    <3>1. unit'[c].answer = unit[c].answer
      BY <1>0, <2>1 DEF TypeOK, Unit
    <3>. QED  BY <1>0, <3>1, SeenByOthers DEF Answers
  <2>8. wrote' = [wrote EXCEPT ![c] = {r}]
    BY <1>0, <2>1, <2>2, <2>4 DEF TypeOK
  <2>9. Abstract!WriteNow(c, r)
    BY <2>1, <2>2, <2>3, <2>4, <2>6, <2>7, <2>8
       DEF Abstract!WriteNow, Abstract!RowsOf, Abstract!Row, RowsOf, Row, Broken, Answers, Had
  <2>. QED  BY <2>9 DEF Abstract!Next, Abstract!Row, Row
<1>12. CASE SingleFails(c)
  <2>1. /\ unit[c].at = "single"
        /\ UNCHANGED <<table, wrote>>
        /\ unit' = [unit EXCEPT ![c] = [unit[c] EXCEPT !.at = "closeSingle"]]
    BY <1>12 DEF SingleFails, Becomes
  <2>2. unit[c].state = "OPEN"
    BY <2>1 DEF RInv, IInv, ClientSound, Sound, Fresh
  <2>3. CASE Notes(c, "panic")
    <3>1. "statement" \in events'[c] <=> "statement" \in events[c]
      BY <1>3, <2>3
    <3>. QED  BY <1>0, <2>1, <3>1, QuietOrReply
  <2>4. CASE Notes(c, "statement")
    <3>1. "statement" \in events'[c]
      BY <1>0, <2>4 DEF TypeOK, Notes
    <3>2. unit'[c].answer = unit[c].answer
      BY <1>0, <2>1 DEF TypeOK, Unit
    <3>3. Abstract!Pending(c)
      BY <2>1, <2>2, IsPending
    <3>4. Abstract!Break(c)
      BY <1>0, <2>1, <3>1, <3>2, <3>3, BreakStep
    <3>. QED  BY <3>4 DEF Abstract!Next
  <2>. QED  BY <1>12, <2>3, <2>4 DEF SingleFails
<1>. QED  BY <1>4, <1>5, <1>6, <1>7, <1>8, <1>9, <1>10, <1>11, <1>12
          DEF ClientStep, WorkStep, EndStep, SingleStep

-----------------------------------------------------------------------------
\* Unless the database loses the answer to a commit, lume/db implements
\* UnitOfWork: every behaviour of JdbcDatabase, JdbcTransaction and
\* transactionally is one of the abstract units of work.
THEOREM Implements ==
  ASSUME ~MayDoubt
  PROVE  Spec => ImplementsUnitOfWork
<1>1. ASSUME Init
      PROVE  RInv /\ Abstract!Init
  <2>1. NoDoubt
    BY <1>1 DEF Init, NoDoubt
  <2>2. Abstract!Init
    BY <1>1 DEF Init, Abstract!Init, Had
  <2>. QED  BY <1>1, <2>1, <2>2, InitIInv DEF RInv
<1>2. ASSUME RInv, [Next]_vars
      PROVE  RInv' /\ [Abstract!Next]_(Abstract!vars)
  <2>1. RInv'
    BY <1>2, NoDoubtKept, NextIInv DEF RInv
  <2>2. CASE ClosePool \/ UNCHANGED vars
    <3>1. UNCHANGED <<unit, table, wrote, events>>
      BY <2>2 DEF ClosePool, vars
    <3>. QED  BY <2>1, <3>1 DEF Abstract!vars, Had
  <2>3. CASE \E c \in Clients : ClientStep(c)
    BY <1>2, <2>1, <2>3, StepRefines
  <2>. QED  BY <1>2, <2>2, <2>3 DEF Next
<1>. QED  BY <1>1, <1>2, PTL DEF Spec, ImplementsUnitOfWork, Abstract!Spec
=============================================================================
