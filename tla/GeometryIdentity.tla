-------------------------- MODULE GeometryIdentity --------------------------
(***************************************************************************)
(* Identity recipe v2: the canonical bytes of a geometry, from which its   *)
(* geom_hash and its geoid are derived.  The recipe exists twice, in       *)
(* Python (domain/geometry_identity.py, which the request schema asks      *)
(* whether a geometry is degenerate) and in SQL (migration 0008, which     *)
(* computes the geom_hash a place is registered under).                    *)
(*                                                                         *)
(* A position is a pair of coordinates in half cells of the identity       *)
(* lattice, so that one coordinate in two is a rounding tie; a cell is     *)
(* 1e-7 degrees.  A geometry has parts, a part has rings, a ring is a      *)
(* sequence of positions: a Polygon has one part, and a MultiPoint one     *)
(* part of one list of positions.  Bytes are words: a count or a           *)
(* coordinate is one word, and words compare as the big-endian bytes they  *)
(* stand for.                                                              *)
(*                                                                         *)
(* A client registers a geometry and then submits it again and again,      *)
(* listed in another way each time: from another start vertex, in the      *)
(* other direction, with a vertex repeated within its cell, its holes, its *)
(* polygons or its points in another order.                                *)
(***************************************************************************)
EXTENDS Integers, SequencesExt

CONSTANTS
  Listings,      \* the geometries a client may register, as it lists them
  WordSize,      \* number of values of a word, 2^64 in the code
  MaxRepeats,    \* bound on the vertices repeated in a listing
  MaxPositions   \* no vertex is repeated in a listing of so many positions

Types == {"MultiPoint", "Polygon", "MultiPolygon"}

VARIABLES
  listed,  \* the geometry as the client lists it now: [type, parts]
  minted   \* the bytes it was registered under, or Degenerate

vars == <<listed, minted>>

-----------------------------------------------------------------------------
(* Order and serialization *)

(* Python compares lists and tuples, SQL arrays and bytea, element-wise: s *)
(* ends before t does, or is smaller where they first differ.              *)
LexLess(s, t) ==
  \E n \in DOMAIN t :
    /\ \A i \in 1 .. n - 1 : i \in DOMAIN s /\ s[i] = t[i]
    /\ n \in DOMAIN s => s[n] < t[n]

LeastOf(seqs) == CHOOSE s \in seqs : \A t \in seqs : ~LexLess(t, s)

Permuted(seqs) ==
  { [i \in DOMAIN seqs |-> seqs[order[i]]] : order \in Bijection(DOMAIN seqs, DOMAIN seqs) }

SortLex(seqs) ==
  CHOOSE sorted \in Permuted(seqs) :
    \A i, j \in DOMAIN seqs : i < j => ~LexLess(sorted[j], sorted[i])

(* x1, y1, x2, y2, ... *)
Coordinates(points) == [j \in 1 .. 2 * Len(points) |-> points[(j + 1) \div 2][2 - (j % 2)]]

(* Two's complement, big-endian: int4 and int8 in network order. *)
Word(v) == v % WordSize

Words(points) == [j \in 1 .. 2 * Len(points) |-> Word(Coordinates(points)[j])]

(* What a geometry that collapses has instead of bytes: it is rejected. *)
Degenerate == <<>>

(* int4 count, then int8 pairs. *)
RingBytes(points) == <<Len(points)>> \o Words(points)

-----------------------------------------------------------------------------
(* Both twins *)

(* From half cells to cells, ties to the even cell. *)
HalfEven(c) ==
  LET below == c \div 2
  IN IF c % 2 = 0 \/ below % 2 = 0 THEN below ELSE below + 1

RotateTo(points, i) == SubSeq(points, i, Len(points)) \o SubSeq(points, 1, i - 1)

(* Wrap-around: trailing vertices that repeat the first one go, all of     *)
(* them but the first itself.                                              *)
Trim(kept) ==
  LET ends == {i \in DOMAIN kept : i = 1 \/ kept[i] # kept[1]}
  IN SubSeq(kept, 1, CHOOSE i \in ends : \A j \in ends : j <= i)

Cross(p, q) == p[1] * q[2] - q[1] * p[2]

(* Twice the signed area, an exact integer: the sum over the edges. *)
Shoelace(points) ==
  LET next(i) == IF i = Len(points) THEN 1 ELSE i + 1
      sum[i \in 0 .. Len(points)] ==
        IF i = 0 THEN 0 ELSE sum[i - 1] + Cross(points[i], points[next(i)])
  IN sum[Len(points)]

-----------------------------------------------------------------------------
(* The Python twin *)

Quantize(position) == <<HalfEven(position[1]), HalfEven(position[2])>>

(* Forward pass: a vertex that repeats the last one kept is dropped. *)
Forward(points) ==
  LET kept[i \in 0 .. Len(points)] ==
        IF i = 0 THEN <<>>
        ELSE LET before == kept[i - 1]
             IN IF before # <<>> /\ points[i] = Last(before)
                THEN before
                ELSE Append(before, points[i])
  IN kept[Len(points)]

(* The least of the rotations that start at the least vertex. *)
LeastRotation(points) ==
  LET minimum == LeastOf(ToSet(points))
      starts == {i \in DOMAIN points : points[i] = minimum}
      from(i) == Coordinates(RotateTo(points, i))
  IN RotateTo(points, CHOOSE i \in starts : \A k \in starts : ~LexLess(from(k), from(i)))

CanonRing(ring) ==
  LET kept == Trim(Forward([i \in DOMAIN ring |-> Quantize(ring[i])]))
      area == Shoelace(kept)
  IN IF Len(kept) < 3 \/ area = 0
     THEN Degenerate
     ELSE RingBytes(LeastRotation(IF area < 0 THEN Reverse(kept) ELSE kept))

-----------------------------------------------------------------------------
(* The SQL twin *)

(* Mutant: a cast through numeric rounds ties away from zero. *)
SqlQuantizeNumeric(position) ==
  LET away(c) == IF c < 0 THEN -((1 - c) \div 2) ELSE (c + 1) \div 2
  IN <<away(position[1]), away(position[2])>>

SqlQuantize(position) == <<HalfEven(position[1]), HalfEven(position[2])>>

(* Vertices that differ from the one listed before, which lag() gives. *)
LagDistinct(points) ==
  LET kept[i \in 0 .. Len(points)] ==
        IF i = 0 THEN <<>>
        ELSE IF i = 1 \/ points[i] # points[i - 1]
             THEN Append(kept[i - 1], points[i])
             ELSE kept[i - 1]
  IN kept[Len(points)]

(* min_i: the first of the least vertices. *)
FirstLeast(points) ==
  LET minimum == LeastOf(ToSet(points))
  IN CHOOSE i \in DOMAIN points : points[i] = minimum /\ \A k \in 1 .. i - 1 : points[k] # minimum

(* Mutant: no tie-break, the first of the least vertices is the start. *)
SqlFirstStart(points) == FirstLeast(points)

(* The loop over the starts that tie with min_i, the best so far kept. *)
SqlBestStart(points) ==
  LET first == FirstLeast(points)
      from(i) == Coordinates(RotateTo(points, i))
      best[cnd \in 0 .. Len(points)] ==
        IF cnd <= first THEN first
        ELSE LET before == best[cnd - 1]
             IN IF points[cnd] = points[first] /\ LexLess(from(cnd), from(before))
                THEN cnd
                ELSE before
  IN best[Len(points)]

SqlCanonRing(ring) ==
  LET kept == Trim(LagDistinct([i \in DOMAIN ring |-> SqlQuantize(ring[i])]))
      area == Shoelace(kept)
      ccw == IF area < 0 THEN Reverse(kept) ELSE kept
  IN IF Len(kept) < 3 \/ area = 0
     THEN Degenerate
     ELSE RingBytes(RotateTo(ccw, SqlBestStart(ccw)))

-----------------------------------------------------------------------------
(* Geometries *)

(* A collection of members, each already bytes, in the order of its bytes; *)
(* nothing when a member has none.                                         *)
Assemble(head, members) ==
  IF Degenerate \in ToSet(members) THEN Degenerate ELSE head \o FlattenSeq(SortLex(members))

(* The number of rings, the exterior, the holes in the order of their      *)
(* bytes, from the bytes of each ring.                                     *)
PolygonBody(rings) ==
  IF rings[1] = Degenerate
  THEN Degenerate
  ELSE Assemble(<<Len(rings)>> \o rings[1], Tail(rings))

Points(g) == g.parts[1][1]

(* The version byte and the type tag, then the body. *)
CanonicalBytes(g) ==
  LET body(rings) == PolygonBody([k \in DOMAIN rings |-> CanonRing(rings[k])])
      bodies == [k \in DOMAIN g.parts |-> body(g.parts[k])]
  IN CASE g.type = "MultiPoint" ->
            <<2, 2, Len(Points(g))>>
              \o Words(SortLex([i \in DOMAIN Points(g) |-> Quantize(Points(g)[i])]))
       [] g.type = "Polygon" -> Assemble(<<2, 3>>, bodies)
       [] g.type = "MultiPolygon" -> Assemble(<<2, 4, Len(bodies)>>, bodies)

(* Mutant: SELECT DISTINCT merges the points that share a cell. *)
SqlMergedPoints(positions) ==
  SortLex(SetToSeq({SqlQuantize(positions[i]) : i \in DOMAIN positions}))

(* Members sorted by (x, y), duplicates kept. *)
SqlPoints(positions) == SortLex([i \in DOMAIN positions |-> SqlQuantize(positions[i])])

(* geoid_canonical_bytes_v2 *)
SqlCanonicalBytes(g) ==
  LET body(rings) == PolygonBody([k \in DOMAIN rings |-> SqlCanonRing(rings[k])])
      bodies == [k \in DOMAIN g.parts |-> body(g.parts[k])]
      points == SqlPoints(Points(g))
  IN CASE g.type = "MultiPoint" -> <<2, 2, Len(points)>> \o Words(points)
       [] g.type = "Polygon" -> Assemble(<<2, 3>>, bodies)
       [] g.type = "MultiPolygon" -> Assemble(<<2, 4, Len(bodies)>>, bodies)

-----------------------------------------------------------------------------
(* The client lists the same geometry in another way.  A listed ring is    *)
(* closed, as GeoJSON requires: its last position is its first.            *)

Close(open) == Append(open, open[1])

StartedElsewhere(ring) == { Close(RotateTo(Front(ring), i)) : i \in 2 .. Len(ring) - 1 }

(* Positions of the cell of p, one of them p itself. *)
CellMates(p) ==
  { q \in (p[1] - 1 .. p[1] + 1) \X (p[2] - 1 .. p[2] + 1) : Quantize(q) = Quantize(p) }

Repeated(ring) ==
  UNION { {InsertAt(ring, i + 1, q) : q \in CellMates(ring[i])} : i \in 1 .. Len(ring) - 1 }

Rings(g) == FlattenSeq(g.parts)

Positions(g) == FlattenSeq(Rings(g))

(* Positions that stay in the cell of the one before, in the same ring. *)
Repeats(g) ==
  LET stays(ring) == {i \in 1 .. Len(ring) - 1 : Quantize(ring[i]) = Quantize(ring[i + 1])}
  IN Cardinality(UNION { {k} \X stays(Rings(g)[k]) : k \in DOMAIN Rings(g) })

RelistedRing(ring) ==
  StartedElsewhere(ring)
    \cup {Reverse(ring)}
    \cup { longer \in Repeated(ring) :
             Repeats(listed) < MaxRepeats /\ Len(Positions(listed)) < MaxPositions }

Swapped(seq, from) ==
  { [seq EXCEPT ![i] = seq[j], ![j] = seq[i]] : i, j \in from .. Len(seq) }

(* seq with one of its members listed another way. *)
OneRelisted(seq, Ways(_)) ==
  UNION { {[seq EXCEPT ![k] = way] : way \in Ways(seq[k])} : k \in DOMAIN seq }

RelistedPart(rings) == Swapped(rings, 2) \cup OneRelisted(rings, RelistedRing)

Relisted(g) ==
  IF g.type = "MultiPoint"
  THEN { <<<<points>>>> : points \in Swapped(Points(g), 1) }
  ELSE Swapped(g.parts, 1) \cup OneRelisted(g.parts, RelistedPart)

Init ==
  /\ listed \in Listings
  /\ minted = SqlCanonicalBytes(listed)

Relist ==
  /\ \E parts \in Relisted(listed) : listed' = [listed EXCEPT !.parts = parts]
  /\ UNCHANGED minted

Next == Relist

Spec == Init /\ [][Next]_vars

(* Positions whose cells fit a word: a coordinate is at most 180 degrees,  *)
(* 1.8e9 cells, and a word has 64 bits.                                    *)
Fits(cell) == -WordSize <= 2 * cell /\ 2 * cell < WordSize

Position == { p \in Int \X Int : Fits(HalfEven(p[1])) /\ Fits(HalfEven(p[2])) }

IsClosed(ring) == Len(ring) > 1 /\ ring[1] = ring[Len(ring)]

(* What the service takes for a geometry: it is in bounds, a MultiPoint    *)
(* has a point, and every ring ends where it starts. A polygon without an  *)
(* exterior ring has no bytes in either recipe.                            *)
IsListing(g) ==
  /\ g \in [type : Types, parts : Seq(Seq(Seq(Position)))]
  /\ g.parts # <<>>
  /\ \A k \in DOMAIN g.parts : g.parts[k] # <<>>
  /\ IF g.type = "MultiPoint"
     THEN Points(g) # <<>>
     ELSE \A k \in DOMAIN g.parts : \A m \in DOMAIN g.parts[k] : IsClosed(g.parts[k][m])
  /\ g.type = "Polygon" => Len(g.parts) = 1

ASSUME WordAssumption == WordSize \in Nat \ {0}

ASSUME ListingAssumption == \A g \in Listings : IsListing(g)

-----------------------------------------------------------------------------
(* The reference: when two listings are the same shape on the lattice *)

(* The cells a ring goes through, a stay in a cell counted once. *)
Cycle(ring) ==
  LET open == [i \in 1 .. Len(ring) - 1 |-> Quantize(ring[i])]
      previous(i) == IF i = 1 THEN Len(open) ELSE i - 1
      cells[i \in 0 .. Len(open)] ==
        IF i = 0 THEN <<>>
        ELSE IF open[i] # open[previous(i)] THEN Append(cells[i - 1], open[i]) ELSE cells[i - 1]
  IN cells[Len(open)]

SameRing(r, s) ==
  LET c == Cycle(r)
      d == Cycle(s)
  IN \/ c = d
     \/ Len(c) = Len(d) /\ \E i \in DOMAIN c : RotateTo(c, i) \in {d, Reverse(d)}

Matched(S, Same(_, _)) == \E f \in Bijection(S, S) : \A k \in S : Same(k, f[k])

SamePart(p, q) ==
  /\ Len(p) = Len(q)
  /\ SameRing(p[1], q[1])
  /\ Matched(2 .. Len(p), LAMBDA k, l : SameRing(p[k], q[l]))

SamePoints(p, q) ==
  /\ Len(p) = Len(q)
  /\ Matched(DOMAIN p, LAMBDA k, l : Quantize(p[k]) = Quantize(q[l]))

SameShape(g, h) ==
  /\ g.type = h.type
  /\ IF g.type = "MultiPoint"
     THEN SamePoints(Points(g), Points(h))
     ELSE /\ Len(g.parts) = Len(h.parts)
          /\ Matched(DOMAIN g.parts, LAMBDA k, l : SamePart(g.parts[k], h.parts[l]))

-----------------------------------------------------------------------------
(* Properties *)

(* The listing keeps its type, and the registered bytes are words. *)
TypeOK ==
  /\ listed.type \in Types
  /\ minted \in Seq(0 .. WordSize - 1)

(* The geoid does not depend on how the geometry is listed: however its    *)
(* vertices, rings and parts are started, turned, repeated and ordered,    *)
(* the bytes the database hashes are those it was first registered under,  *)
(* so that registering it again finds it (geoid_canonical_bytes_v2).       *)
SameShapeSameGeoid == SqlCanonicalBytes(listed) = minted

(* The two twins agree on every listing, the rejected ones included: what  *)
(* the schema lets pass never meets the database's GD001, and the Python   *)
(* reference gives the geoid the database mints.                           *)
TwinsAgree == CanonicalBytes(listed) = SqlCanonicalBytes(listed)

(* The registered listings and the bytes of each. *)
BytesOf == [g \in Listings |-> SqlCanonicalBytes(g)]

(* Nothing is merged silently: a listing that has the bytes of a geometry  *)
(* that may be registered is a listing of that geometry.                   *)
DistinctShapesApart ==
  LET bytes == SqlCanonicalBytes(listed)
  IN bytes # Degenerate =>
       \A g \in Listings : BytesOf[g] = bytes => SameShape(g, listed)
=============================================================================
