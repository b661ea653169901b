------------------------------ MODULE MCShapes ------------------------------
EXTENDS Shapes

FieldX == <<"x", IntType>>
FieldY == <<"y", IntType>>
FieldZ == <<"z", IntType>>

MCShapeDecls ==
  [XY |-> <<FieldX, FieldY>>, YX |-> <<FieldY, FieldX>>, XZ |-> <<FieldX, FieldZ>>,
   XYZ |-> <<FieldX, FieldY, FieldZ>>, OnlyX |-> <<FieldX>>, OnlyY |-> <<FieldY>>,
   Text |-> <<<<"x", StrType>>>>, XT |-> <<FieldX, <<"y", StrType>>>>, Tagged |-> <<FieldX, FieldY>>,
   Holder |-> <<<<"p", Nominal("XY")>>>>, Wide |-> <<<<"p", Nominal("XYZ")>>, FieldX>>,
   Box |-> <<<<"p", UnionOf(<<Nominal("XY"), IntType>>)>>>>,
   Loose |-> <<<<"x", AnyType>>>>, Either |-> <<<<"x", UnionOf(<<IntType, StrType>>)>>, FieldY>>]
MCClassFields == [Dog |-> <<FieldX, FieldY>>]
MCBoundsOf == [s \in DOMAIN MCShapeDecls \cup {"Dog"} |-> IF s \in {"Dog", "Tagged"} THEN {"Pet"} ELSE {}]

Singles == {Nominal(s) : s \in DOMAIN MCShapeDecls} \cup
  {Nominal("Dog"), Nominal("Pet"), IntType, StrType,
   Structural(<<FieldX, FieldY>>), Structural(<<FieldX, FieldY, FieldZ>>),
   Structural(<<<<"p", Structural(<<FieldX, FieldY, FieldZ>>)>>>>),
   Structural(<<<<"p", Nominal("XY")>>>>), Structural(<<<<"x", AnyType>>>>)}
MCSourceTypes == Singles \ {Nominal("Pet")}
Unions2 == {UnionOf(<<a, b>>) : a, b \in Singles}
Sizes == UnionOf(<<Nominal("OnlyX"), Nominal("XY"), Nominal("XYZ")>>)
MCVariables == Singles \cup {AnyType, Sizes} \cup {u \in Unions2 : u.members[1] # u.members[2]}
=============================================================================
