---------------------------- MODULE Collections ----------------------------
(***************************************************************************)
(* The collections of the interpreter (rust/crates/lume/src/runtime/       *)
(* builtins and interpreter.rs) next to the user code they call back.  A   *)
(* traversal, a search or a sort is an activation that hands control to a  *)
(* callback, an equals method or a comparator; a for loop hands control to *)
(* its body.  That code may change any collection and call the library     *)
(* again before it returns, so activations nest.                           *)
(*                                                                         *)
(* A list and a set are sequences of elements, a map is a sequence of      *)
(* pairs, as in the code (Vec<Value>, Vec<(Value, Value)>).                *)
(***************************************************************************)
EXTENDS Integers, Sequences, SequencesExt

CONSTANTS
  Lists, SetColls, Maps,  \* the collections a program holds
  Elements,               \* values, keys and elements alike
  MaxSize,                \* user code lets no collection grow beyond this
  MaxDepth,               \* activations at the same time
  Budget,                 \* changes and calls that user code makes
  EqualsMayAct,           \* an equals method does more than to compare
  EachOps,                \* the traversals that user code calls
  InitialHeaps            \* what the collections hold at first

Colls == Lists \cup SetColls \cup Maps
Unique(s) == \A i, j \in DOMAIN s : s[i] = s[j] => i = j
Keys(entries) == [i \in DOMAIN entries |-> entries[i][1]]
RemoveIndex(s, i) == SubSeq(s, 1, i - 1) \o SubSeq(s, i + 1, Len(s))

ASSUME CollectionsAssumption ==
  /\ MaxSize \in Nat /\ MaxDepth \in Nat /\ Budget \in Nat
  /\ EqualsMayAct \in BOOLEAN
  /\ Lists \cap SetColls = {} /\ Lists \cap Maps = {} /\ SetColls \cap Maps = {}
  /\ \A h \in InitialHeaps :
       /\ h = [c \in Colls |-> h[c]]
       /\ \A l \in Lists : h[l] \in Seq(Elements)
       /\ \A s \in SetColls : h[s] \in Seq(Elements) /\ Unique(h[s])
       /\ \A m \in Maps : h[m] \in Seq(Elements \X Elements) /\ Unique(Keys(h[m]))

VARIABLES
  heap,     \* contents of every collection
  iters,    \* the iterators made so far
  calls,    \* activations of the library and of loops, the innermost last
  used,     \* what user code has spent of its budget
  touched,  \* an equals method has changed the collection being searched
  failure   \* "abort": the process stopped on a Rust panic; "dry": a loop asked
            \* an iterator at its end for the next element
vars == <<heap, iters, calls, used, touched, failure>>

(* Value::List iterates the live items, .iterator() a copy of them.        *)
LiveIterator(l) == [live |-> TRUE, list |-> l, items |-> <<>>, index |-> 0,
                    given |-> <<>>, shifted |-> FALSE]
CopyIterator(l, items) == [live |-> FALSE, list |-> l, items |-> items, index |-> 0,
                           given |-> <<>>, shifted |-> FALSE]
Items(it, h) == IF it.live THEN h[it.list] ELSE it.items
IterHasNext(it, h) == it.index < Len(Items(it, h))
IterNext(it, h) == [it EXCEPT !.index = @ + 1, !.given = Append(@, Items(it, h)[it.index + 1])]

Init ==
  /\ heap \in InitialHeaps
  /\ \E l \in Lists : iters = <<CopyIterator(l, heap[l])>>
  /\ calls = <<>> /\ used = 0 /\ touched = FALSE /\ failure = "none"
-----------------------------------------------------------------------------
Top == calls[Len(calls)]
Busy == calls # <<>>
Below == SubSeq(calls, 1, Len(calls) - 1)
Running == failure = "none"
Inside(kind) == Busy /\ Top.kind = kind

(* User code runs: the program itself, a callback, a comparator, the body  *)
(* of a loop, or an equals method that does more than to compare.          *)
UserCode ==
  /\ Running /\ used < Budget
  /\ Busy /\ Top.kind = "search" => EqualsMayAct

(* contains, find and indexOf of a list borrow it while equals runs.       *)
\* Mutant: a traversal keeps the collection borrowed, too.
BorrowedLonger(c) == \E i \in DOMAIN calls :
                       calls[i].kind \in {"each", "search"} /\ calls[i].on = c
Borrowed(c) == \E i \in DOMAIN calls :
                 calls[i].kind = "search" /\ calls[i].on = c /\ calls[i].op = "contains"
Searched(c) == \E i \in DOMAIN calls : calls[i].kind = "search" /\ calls[i].on = c

(* Every change of a collection goes through here.  Changing a list that   *)
(* is borrowed is a panic of RefCell: the process stops.                   *)
Change(c, contents, appends) ==
  /\ used' = used + 1
  /\ touched' = (touched \/ Searched(c))
  /\ IF Borrowed(c)
     THEN failure' = "abort" /\ UNCHANGED <<heap, iters>>
     ELSE /\ heap' = [heap EXCEPT ![c] = contents]
          /\ iters' = [i \in DOMAIN iters |->
                        [iters[i] EXCEPT !.shifted = @ \/ (iters[i].list = c /\ ~appends)]]
          /\ UNCHANGED failure

ListAdd(l, x) ==
  /\ UserCode /\ Len(heap[l]) < MaxSize
  /\ Change(l, Append(heap[l], x), TRUE)
  /\ UNCHANGED calls

(* addAll reads its argument before it extends the receiver, which may be  *)
(* the same collection.                                                    *)
IterableValues(c) == heap[c]
ListAddAll(l, c) ==
  /\ UserCode /\ Len(heap[l]) + Len(heap[c]) <= MaxSize
  /\ Change(l, heap[l] \o IterableValues(c), TRUE)
  /\ UNCHANGED calls

ListSetAt(l, i, x) ==
  /\ UserCode /\ i \in DOMAIN heap[l]
  /\ Change(l, [heap[l] EXCEPT ![i] = x], FALSE)
  /\ UNCHANGED calls

ListInsertAt(l, i, x) ==
  /\ UserCode /\ Len(heap[l]) < MaxSize /\ i \in 1 .. Len(heap[l]) + 1
  /\ Change(l, SubSeq(heap[l], 1, i - 1) \o <<x>> \o SubSeq(heap[l], i, Len(heap[l])), FALSE)
  /\ UNCHANGED calls

(* removeAt, and with the first or the last index removeFirst, removeLast. *)
ListRemoveAt(l, i) ==
  /\ UserCode /\ i \in DOMAIN heap[l]
  /\ Change(l, RemoveIndex(heap[l], i), FALSE)
  /\ UNCHANGED calls

MapClear(m) ==
  /\ UserCode /\ heap[m] # <<>>
  /\ Change(m, <<>>, FALSE)
  /\ UNCHANGED calls
-----------------------------------------------------------------------------
(* Traversals take a copy of the contents and call back for each element.  *)
PushUnique(out, x) == IF Contains(out, x) THEN out ELSE Append(out, x)
PushAllUnique(out, xs) ==
  LET pushed[n \in 0 .. Len(xs)] == IF n = 0 THEN out ELSE PushUnique(pushed[n - 1], xs[n])
  IN pushed[Len(xs)]

EachCall(op, c) ==
  [kind |-> "each", op |-> op, on |-> c, values |-> heap[c], pos |-> 1,
   acc |-> <<>>, seen |-> <<heap[c][1]>>, start |-> heap[c]]

(* What a traversal keeps when the callback has returned r for element x.  *)
Absorb(op, c, acc, x, r) ==
  CASE op = "map" -> IF c \in SetColls THEN PushUnique(acc, r) ELSE Append(acc, r)
    [] op = "flatMap" -> IF c \in SetColls THEN PushAllUnique(acc, heap[r]) ELSE acc \o heap[r]
    [] op = "filter" -> IF r THEN Append(acc, x) ELSE acc
    [] op \in {"exists", "forAll"} -> <<r>>
    [] OTHER -> <<>>
Answers(op) ==
  CASE op = "flatMap" -> Lists \cup SetColls
    [] op \in {"filter", "exists", "forAll"} -> BOOLEAN
    [] op = "map" -> Elements
    [] OTHER -> {TRUE}
StopsOn(op, r) == (op = "exists" /\ r) \/ (op = "forAll" /\ ~r)

(* The element a traversal hands to its callback, from its copy.           *)
\* Mutant: the elements are read from the live collection.
EachItemLive(call, i) == IF i \in DOMAIN heap[call.on] THEN heap[call.on][i] ELSE call.values[i]
EachItem(call, i) == call.values[i]

StartEach(op, c) ==
  /\ UserCode /\ Len(calls) < MaxDepth /\ heap[c] # <<>>
  /\ calls' = Append(calls, EachCall(op, c))
  /\ used' = used + 1
  /\ UNCHANGED <<heap, iters, touched, failure>>

EachReturns ==
  /\ Running /\ Inside("each")
  /\ \E r \in Answers(Top.op) :
     LET acc == Absorb(Top.op, Top.on, Top.acc, Top.values[Top.pos], r) IN
     calls' = IF Top.pos = Len(Top.values) \/ StopsOn(Top.op, r)
              THEN Below
              ELSE Append(Below, [Top EXCEPT !.pos = @ + 1, !.acc = acc,
                                   !.seen = Append(@, EachItem(Top, Top.pos + 1))])
  /\ UNCHANGED <<heap, iters, used, touched, failure>>
-----------------------------------------------------------------------------
(* sort: an exchange sort of a copy, written back when it is complete.     *)
SortCall(l) == [kind |-> "sort", on |-> l, values |-> heap[l], start |-> heap[l], i |-> 1, j |-> 2]
\* Mutant: the second half of the exchange reads what the first has written.
ExchangeLossy(s, i, j) == [s EXCEPT ![i] = s[j], ![j] = s[j]]
Exchange(s, i, j) == [s EXCEPT ![i] = s[j], ![j] = s[i]]

StartSort(l) ==
  /\ UserCode /\ Len(calls) < MaxDepth /\ Len(heap[l]) > 1
  /\ calls' = Append(calls, SortCall(l))
  /\ used' = used + 1
  /\ UNCHANGED <<heap, iters, touched, failure>>

(* The comparator has answered that the left element is the greater one or *)
(* that it is not.                                                         *)
SortReturns(greater) ==
  /\ Running /\ Inside("sort")
  /\ LET values == IF greater THEN Exchange(Top.values, Top.i, Top.j) ELSE Top.values
         n == Len(values)
         next == IF Top.j < n THEN <<Top.i, Top.j + 1>> ELSE <<Top.i + 1, Top.i + 2>> IN
     IF next[2] <= n
     THEN /\ calls' = Append(Below, [Top EXCEPT !.values = values, !.i = next[1], !.j = next[2]])
          /\ UNCHANGED <<heap, iters, used, touched, failure>>
     ELSE IF Borrowed(Top.on)
     THEN failure' = "abort" /\ touched' = TRUE /\ UNCHANGED <<heap, iters, calls, used>>
     ELSE /\ calls' = Below
          /\ heap' = [heap EXCEPT ![Top.on] = values]
          /\ iters' = [k \in DOMAIN iters |->
                         [iters[k] EXCEPT !.shifted = @ \/ iters[k].list = Top.on]]
          /\ touched' = (touched \/ Searched(Top.on))
          /\ UNCHANGED <<used, failure>>
-----------------------------------------------------------------------------
(* Searches call equals for one element after the other: contains of a     *)
(* list on the list itself; add of a set, put and get of a map on a copy,  *)
(* after which the position found is used on the live entries.             *)
SearchCall(op, c, contents, x, todo) ==
  [kind |-> "search", op |-> op, on |-> c, values |-> contents, pos |-> 1,
   needle |-> x, todo |-> todo]
SearchOps(c) == IF c \in Lists THEN {"contains"} ELSE IF c \in Maps THEN {"put", "get"} ELSE {"add"}
KeyAt(call) == IF call.on \in Maps THEN call.values[call.pos][1] ELSE call.values[call.pos]

(* The effect of the search on its collection, once the position is known; *)
(* 0 stands for no element equal to the needle.                            *)
\* Mutant: an element is added without a look at the position.
InsertAlways(s, x, position) == Append(s, x)
InsertUnique(s, x, position) == IF position = 0 THEN Append(s, x) ELSE s
\* Mutant: the key of the entry is replaced together with its value.
MapPutEntry(entries, k, v, position) ==
  IF position = 0 THEN Append(entries, <<k, v>>) ELSE [entries EXCEPT ![1] = <<k, v>>]
MapPut(entries, k, v, position) ==
  IF position = 0 THEN Append(entries, <<k, v>>) ELSE [entries EXCEPT ![position] = <<@[1], v>>]

(* addAll of a set goes on with the next of its values, todo.              *)
Conclude(op, c, x, v, position, todo, rest) ==
  LET outOfRange == op = "put" /\ position > Len(heap[c])
      contents == CASE op = "add" -> InsertUnique(heap[c], x, position)
                    [] op = "put" /\ ~outOfRange -> MapPut(heap[c], x, v, position)
                    [] OTHER -> heap[c] IN
  /\ calls' = IF todo = <<>> THEN rest
              ELSE Append(rest, SearchCall(op, c, contents, Head(todo), Tail(todo)))
  /\ IF outOfRange
     THEN failure' = "abort" /\ UNCHANGED <<heap, touched>>
     ELSE /\ heap' = [heap EXCEPT ![c] = contents]
          /\ touched' = (touched \/ (contents # heap[c]
                          /\ \E i \in DOMAIN rest : rest[i].kind = "search" /\ rest[i].on = c))
          /\ UNCHANGED failure
  /\ UNCHANGED iters

StartSearch(op, c, x, todo) ==
  /\ UserCode /\ Len(calls) < MaxDepth
  /\ Len(heap[c]) + Len(todo) < MaxSize
  /\ used' = used + 1
  /\ IF heap[c] = <<>>
     THEN \E v \in Elements : Conclude(op, c, x, v, 0, todo, calls)
     ELSE /\ calls' = Append(calls, SearchCall(op, c, heap[c], x, todo))
          /\ UNCHANGED <<heap, iters, touched, failure>>

(* addAll has read its argument before the first search.                   *)
SetAddAll(s, l) ==
  /\ heap[l] # <<>>
  /\ StartSearch("add", s, Head(IterableValues(l)), Tail(IterableValues(l)))

EqualsReturns ==
  /\ Running /\ Inside("search")
  /\ IF KeyAt(Top) # Top.needle /\ Top.pos < Len(Top.values)
     THEN /\ calls' = Append(Below, [Top EXCEPT !.pos = @ + 1])
          /\ UNCHANGED <<heap, iters, touched, failure>>
     ELSE \E v \in IF Top.op = "put" THEN Elements ELSE {Top.needle} :
            Conclude(Top.op, Top.on, Top.needle, v,
                     IF KeyAt(Top) = Top.needle THEN Top.pos ELSE 0, Top.todo, Below)
  /\ UNCHANGED used
-----------------------------------------------------------------------------
(* A for loop: IterInit, then HasNext and Next in front of every round.    *)
LoopCall(k) == [kind |-> "loop", iter |-> k]

(* An iterator is iterated itself; a list gets an iterator on its items.   *)
\* Mutant: iterating an iterator starts from its beginning.
IterInitFresh(its, source) ==
  IF source \in Lists THEN Append(its, LiveIterator(source)) ELSE [its EXCEPT ![source].index = 0]
IterInit(its, source) == IF source \in Lists THEN Append(its, LiveIterator(source)) ELSE its

Round(its, k, rest) ==
  IF ~IterHasNext(its[k], heap) THEN iters' = its /\ calls' = rest /\ UNCHANGED failure
  ELSE IF its[k].index >= Len(Items(its[k], heap))
  THEN iters' = its /\ calls' = <<>> /\ failure' = "dry"
  ELSE /\ iters' = [its EXCEPT ![k] = IterNext(@, heap)]
       /\ calls' = Append(rest, LoopCall(k))
       /\ UNCHANGED failure

StartLoop(source) ==
  /\ UserCode /\ Len(calls) < MaxDepth
  /\ used' = used + 1
  /\ LET its == IterInit(iters, source)
         k == IF source \in Lists THEN Len(its) ELSE source IN
     Round(its, k, calls)
  /\ UNCHANGED <<heap, touched>>

BodyReturns ==
  /\ Running /\ Inside("loop")
  /\ Round(iters, Top.iter, Below)
  /\ UNCHANGED <<heap, used, touched>>

(* break, or a return out of the loop *)
BodyBreaks ==
  /\ Running /\ Inside("loop") /\ calls' = Below
  /\ UNCHANGED <<heap, iters, used, touched, failure>>

(* iterator.next() of user code; past the end it is an error that ends     *)
(* every activation.  zip and zipWithIndex read a clone of the iterator    *)
(* and leave it where it is.                                               *)
UserNext(k) ==
  /\ UserCode /\ used' = used + 1
  /\ IF IterHasNext(iters[k], heap)
     THEN iters' = [iters EXCEPT ![k] = IterNext(@, heap)] /\ UNCHANGED calls
     ELSE calls' = <<>> /\ UNCHANGED iters
  /\ UNCHANGED <<heap, touched, failure>>

(* A callback fails: the error ends every activation, and a sort in        *)
(* progress writes nothing back.                                           *)
UserFails ==
  /\ Running /\ Busy /\ used < Budget
  /\ used' = used + 1 /\ calls' = <<>>
  /\ UNCHANGED <<heap, iters, touched, failure>>

Done == (~Running \/ (used = Budget /\ ~Busy)) /\ UNCHANGED vars

ChangeList == \E l \in Lists, i \in 1 .. MaxSize, x \in Elements :
  \/ ListAdd(l, x)
  \/ ListSetAt(l, i, x)
  \/ ListInsertAt(l, i, x)
  \/ ListRemoveAt(l, i)

Next ==
  \/ ChangeList
  \/ \E l \in Lists, c \in Lists \cup SetColls : ListAddAll(l, c)
  \/ \E m \in Maps : MapClear(m)
  \/ \E op \in EachOps, c \in Colls : StartEach(op, c)
  \/ EachReturns
  \/ \E l \in Lists : StartSort(l)
  \/ \E greater \in BOOLEAN : SortReturns(greater)
  \/ \E c \in Colls, x \in Elements : \E op \in SearchOps(c) : StartSearch(op, c, x, <<>>)
  \/ \E s \in SetColls, l \in Lists : SetAddAll(s, l)
  \/ EqualsReturns
  \/ \E source \in Lists \cup DOMAIN iters : StartLoop(source)
  \/ BodyReturns
  \/ BodyBreaks
  \/ \E k \in DOMAIN iters : UserNext(k)
  \/ UserFails
  \/ Done

Spec == Init /\ [][Next]_vars
-----------------------------------------------------------------------------
(* The shape of the state.                                                 *)
TypeOK ==
  /\ \A l \in Lists \cup SetColls : heap[l] \in Seq(Elements)
  /\ \A m \in Maps : heap[m] \in Seq(Elements \X Elements)
  /\ \A i \in DOMAIN iters : iters[i].index = Len(iters[i].given)
  /\ \A i \in DOMAIN calls : calls[i].kind \in {"each", "sort", "search", "loop"}
  /\ used \in 0 .. Budget /\ touched \in BOOLEAN /\ failure \in {"none", "abort", "dry"}

(* A set, and the set that map or flatMap of a set builds, holds no        *)
(* element twice and a map no key twice, and no Rust panic (a list borrowed *)
(* twice, a position past the end) stops the process, whatever callbacks,   *)
(* comparators and loop bodies change while a traversal, a sort or another  *)
(* search is in progress; only an equals method that changes the very      *)
(* collection that is being searched can break this.                       *)
OnlyEqualsDisturbs ==
  \/ touched
  \/ /\ failure # "abort"
     /\ \A s \in SetColls : Unique(heap[s])
     /\ \A m \in Maps : Unique(Keys(heap[m]))
     /\ \A i \in DOMAIN calls :
          calls[i].kind = "each" /\ calls[i].on \in SetColls => Unique(calls[i].acc)

(* An iterator hands out every element once, in order, to whoever asks: a  *)
(* loop, a loop nested in it over the same iterator, or next().  Over a    *)
(* live list this includes the elements added in the meantime, as long as  *)
(* nothing else is done to the list.  What map, filter, fold, forEach...   *)
(* hand to their callback is what the collection held when they were       *)
(* called, in order, whatever the callback has done to it since.  No for   *)
(* loop fails because its iterator has run out, even when the body removes *)
(* elements behind and in front of it.                                     *)
HandedOutOnce ==
  /\ \A i \in DOMAIN iters :
       ~iters[i].shifted \/ ~iters[i].live =>
         iters[i].given = SubSeq(Items(iters[i], heap), 1, iters[i].index)
  /\ \A i \in DOMAIN calls :
       calls[i].kind = "each" => calls[i].seen = SubSeq(calls[i].start, 1, calls[i].pos)
  /\ failure # "dry"

(* A sort that ends leaves the elements its list had when it was called,   *)
(* each as often, whatever the comparator answers and does to the list.    *)
SortPermutes ==
  [][Inside("sort") /\ heap' # heap /\ calls' = Below =>
       \A x \in Elements :
         LET occurs(s) == {i \in DOMAIN s : s[i] = x} IN
         \E f \in [occurs(heap'[Top.on]) -> occurs(Top.start)] :
           \A i \in occurs(Top.start) : \E j \in DOMAIN f : f[j] = i
       ]_vars
=============================================================================
