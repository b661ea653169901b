---------------------------- MODULE MCCollections ----------------------------
(* One collection of each kind, over two elements.                          *)
EXTENDS Collections

CONSTANTS aList, aSet, aMap

Holding(list) ==
  [c \in {aList, aSet, aMap} |->
     IF c = aList THEN list ELSE IF c = aSet THEN <<1>> ELSE <<<<1, 2>>, <<2, 2>>>>]
Few == {Holding(<<2, 1>>), Holding(<<1, 2, 1>>)}
=============================================================================
