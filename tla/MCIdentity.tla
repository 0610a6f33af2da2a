----------------------------- MODULE MCIdentity -----------------------------
(* Instances of GeometryIdentity for TLC. *)
EXTENDS GeometryIdentity

(* Cells (-1, 0), (0, 0), (0, 1), (-1, 1), listed in half cells: each      *)
(* coordinate that is odd is a tie.                                        *)
A == <<-2, 0>>
B == <<1, 0>>
C == <<0, 2>>
D == <<-2, 2>>
E == <<3, -1>>   \* cell (2, 0)

OnePolygon(rings) == [type |-> "Polygon", parts |-> <<rings>>]
TwoPolygons(p, q) == [type |-> "MultiPolygon", parts |-> <<p, q>>]

Corners == {A, B, C, D}

(* Rings of three and four corners, convex or crossing; rings that come    *)
(* back to their least vertex twice, and which differ only in the order of *)
(* what lies between; rings that collapse.                                 *)
Triangles == { <<p, q, r>> : p, q, r \in Corners }
Quadrangles == { <<A, q, r, s>> : q, r, s \in Corners }
Pinched == { <<A, B, C, A, C, D>>, <<A, C, D, A, B, C>>, <<A, E, C, A, C, D>>, <<A, B, E, A, C, D>>,
             <<B, A, C, D, A, E>> }

SimpleRings == Triangles \cup Quadrangles \cup Pinched

Holes == { <<A, B, C>>, <<D, A, B>>, <<E, B, C>> }

Polygons == { OnePolygon(<<Close(r)>>) : r \in SimpleRings }
HoledPolygons ==
  { OnePolygon(<<Close(<<A, E, C>>), Close(h), Close(k)>>) : h, k \in Holes }

MultiPolygons ==
  { TwoPolygons(<<Close(p)>>, <<Close(q)>>) : p, q \in Holes }
    \cup { TwoPolygons(<<Close(p)>>, <<Close(<<A, E, C>>), Close(q)>>) : p, q \in Holes }

MultiPoints ==
  { [type |-> "MultiPoint", parts |-> <<<<points>>>>] :
      points \in UNION { [1 .. n -> {A, B, C, <<0, 0>>, E}] : n \in 1 .. 3 } }

AllListings == Polygons \cup HoledPolygons \cup MultiPolygons \cup MultiPoints
=============================================================================
