----------------------------- MODULE UnitOfWork -----------------------------
(* What a client of Database may rely on, without connections, pools or
   transaction objects: the rows a unit of work wrote appear in the table all
   at once or never, no unit with a failed statement leaves any, and a unit
   answered "ok" has left all of them. *)
EXTENDS Naturals

CONSTANTS
  Clients,  \* each performs one unit of work
  MaxRows   \* rows one unit writes at most

Row == Clients \X (1..MaxRows)

Answer == {"none", "ok", "err", "panic"}

VARIABLES
  table,   \* the rows every reader sees
  wrote,   \* rows whose statement has succeeded
  broken,  \* a statement has failed
  answer   \* what the client was told

vars == <<table, wrote, broken, answer>>

RowsOf(c) == {r \in Row : r[1] = c}

Init ==
  /\ table = {}
  /\ wrote = [c \in Clients |-> {}]
  /\ broken = [c \in Clients |-> FALSE]
  /\ answer = [c \in Clients |-> "none"]

Pending(c) == answer[c] = "none" /\ table \cap RowsOf(c) = {}

Write(c, r) ==
  /\ Pending(c) /\ ~broken[c]
  /\ r \in RowsOf(c)
  /\ wrote' = [wrote EXCEPT ![c] = @ \cup {r}]
  /\ UNCHANGED <<table, broken, answer>>

\* A statement that fails; the client may go on, in vain.
Break(c) ==
  /\ Pending(c)
  /\ broken' = [broken EXCEPT ![c] = TRUE]
  /\ UNCHANGED <<table, wrote, answer>>

\* A statement outside a transaction writes and takes effect at once.
WriteNow(c, r) ==
  /\ Pending(c) /\ ~broken[c] /\ wrote[c] = {}
  /\ r \in RowsOf(c)
  /\ wrote' = [wrote EXCEPT ![c] = {r}]
  /\ table' = table \cup {r}
  /\ UNCHANGED <<broken, answer>>

TakeEffect(c) ==
  /\ Pending(c) /\ ~broken[c]
  /\ table' = table \cup wrote[c]
  /\ UNCHANGED <<wrote, broken, answer>>

Reply(c, a) ==
  /\ answer[c] = "none" /\ a \in Answer
  /\ a = "ok" => ~broken[c] /\ wrote[c] \subseteq table
  /\ answer' = [answer EXCEPT ![c] = a]
  /\ UNCHANGED <<table, wrote, broken>>

Next ==
  \E c \in Clients :
    \/ \E r \in Row : Write(c, r) \/ WriteNow(c, r)
    \/ Break(c) \/ TakeEffect(c)
    \/ \E a \in Answer : Reply(c, a)

Spec == Init /\ [][Next]_vars
=============================================================================
