------------------------------ MODULE MCLibrary -----------------------------
(* The library of the language at work: one behaviour drives the collections  *)
(* and what calls back into user code, a range, a computation with numbers,  *)
(* or the reader of a file, the numbers at the limits of a narrow Int.       *)
EXTENDS MCCollections, Ranges, Numbers, Files

VARIABLE part   \* what this behaviour drives

MCEnds == {IntMin, IntMin + 1, IntMin + 2, -1, 0, 1, IntMax - 2, IntMax - 1, IntMax}

MCRanges == [start : MCEnds, end : MCEnds, step : {-IntMax, -50, -1, 0, 1, 50, IntMax}]

MCDecimals == {Decimal(c, z) : c \in {-125, -40, -13, -8, -1, 0, 1, 2, 5, 15, 16, 20, 127, 128, 250}, z \in -1..2}

MCOperands == {Decimal(c, z) : c \in {-8, -3, -1, 0, 1, 2, 7, 16, 20}, z \in -1..2}

MCScales == {-1, 0, 2, 5}

(* Powers that fit and powers that do not, the last ones by very little. *)
MCPowInputs ==
  ((-3..3) \X (-1..9)) \cup ({-12, -11, -5, 5, 11, 12} \X (0..4))
  \cup ({IntMin, IntMax} \X (0..2)) \cup ({-1, 0, 1} \X {IntMax - 1, IntMax})

MCIntPairs ==
  {IntMin, IntMin + 1, -7, -1, 0, 1, 6, IntMax} \X {IntMin, -3, -2, -1, 0, 1, 2, 3, IntMax}

MCFileContents == UNION {[1 .. n -> {"a", "bad", "cr", "lf"}] : n \in 0 .. 3}

MCOffsets == {-3, -1, 0, 1, 2, 5}

CollectionsIdle == Init /\ heap = Holding(<<2, 1>>)

MCInit ==
  \/ part = "collections" /\ Init /\ RangesIdle /\ NumbersIdle /\ FilesIdle
  \/ part = "range" /\ CollectionsIdle /\ RangesInit /\ NumbersIdle /\ FilesIdle
  \/ part = "number" /\ CollectionsIdle /\ RangesIdle /\ NumbersInit /\ FilesIdle
  \/ part = "file" /\ CollectionsIdle /\ RangesIdle /\ NumbersIdle /\ FilesInit

LibraryTypeOK == TypeOK /\ RangesTypeOK /\ NumbersTypeOK /\ FilesTypeOK

RangeEnds == (phase = "panic" \/ (~RangeHasNext /\ ~JavaHasNext)) /\ UNCHANGED rangeVars
NumberEnds == answer # << >> /\ UNCHANGED numberVars

MCNext ==
  /\ UNCHANGED part
  /\ \/ part = "collections" /\ Next /\ UNCHANGED <<rangeVars, numberVars, fileVars>>
     \/ part = "range" /\ (RangesNext \/ RangeEnds) /\ UNCHANGED <<vars, numberVars, fileVars>>
     \/ part = "number" /\ (NumbersNext \/ NumberEnds) /\ UNCHANGED <<vars, rangeVars, fileVars>>
     \/ part = "file" /\ FilesNext /\ UNCHANGED <<vars, rangeVars, numberVars>>

MCSpec == MCInit /\ [][MCNext]_<<part, vars, rangeVars, numberVars, fileVars>>
=============================================================================
