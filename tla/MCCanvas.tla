------------------------------ MODULE MCCanvas ------------------------------
(* Lines, triangles and circles across a byte boundary, and some strings   *)
(* that are not what they seem.                                            *)
EXTENDS Canvas

Word(w) == <<w, 0>>
Number(n) == <<"#", n>>
Places == (6..9) \X (0..2)

To2(w, p) == <<Word(w), Number(p[1]), Number(p[2])>>

MCLines == {[SVGString |-> To2("M", p) \o To2("L", q), Filled |-> FALSE] : p, q \in Places}

\* The triangles with a place in them.
Inner(t) ==
  \E c \in Places : \E s \in {-1, 1} :
    Side(t[1], t[2], c) = s /\ Side(t[2], t[3], c) = s /\ Side(t[3], t[1], c) = s

\* The first point absolute, the others relative to the one before.
MCTriangles ==
  {[SVGString |-> To2("M", t[1]) \o To2("l", <<t[2][1] - t[1][1], t[2][2] - t[1][2]>>)
                    \o To2("L", t[3]) \o <<Word("z")>>,
    Filled |-> TRUE] : t \in {t \in Places \X Places \X Places : Inner(t)}}

Circle(x, y, r, filled) ==
  [SVGString |-> <<Word("circle"), Number(x), Number(y), Number(r)>>, Filled |-> filled]

MCCircles ==
  UNION {{Circle(7, 1, 1, filled), Circle(8, 1, 1, filled), Circle(8, 2, 2, filled)} :
           filled \in BOOLEAN}

\* A box of H and V, filled and not; two boxes of one path; one that is open;
\* a point with no line; words that are left out, cut short and out of place; a
\* circle after them.
Box(x) == To2("M", <<x, 0>>) \o <<Word("h"), Number(1), Word("V"), Number(1), Word("H"), Number(x), Word("Z")>>

MCOthers ==
  {[SVGString |-> words, Filled |-> filled] : filled \in BOOLEAN, words \in
     { Box(6), Box(8),
       To2("M", <<6, 2>>) \o To2("L", <<7, 2>>) \o To2("L", <<6, 2>>) \o To2("M", <<8, 2>>)
         \o To2("L", <<9, 2>>) \o To2("L", <<8, 2>>),
       To2("M", <<6, 2>>) \o To2("L", <<7, 2>>) \o To2("M", <<8, 2>>) \o To2("L", <<6, 2>>),
       To2("M", <<6, 2>>),
       To2("M", <<6, 1>>) \o <<Word("?"), Number(3)>>,
       To2("M", <<9, 0>>) \o <<Word("V")>>,
       To2("L", <<9, 0>>),
       <<Word("M"), Word("?")>> \o Circle(9, 1, 1, TRUE).SVGString,
       To2("M", <<9, 4>>) \o To2("l", <<0, 1>>) }}

Around(places) ==
  To2("M", places[1])
    \o FlattenSeq([i \in 1..(Len(places) - 1) |-> To2("L", places[i + 1])])

Polygon(places) == [SVGString |-> Around(places) \o <<Word("z")>>, Filled |-> TRUE]

\* Of four and five corners, some of them crossing themselves.
MCPolygons ==
  {Polygon(places) : places \in
     { <<<<6, 0>>, <<10, 1>>, <<6, 4>>, <<8, 1>>>>, <<<<8, 1>>, <<6, 0>>, <<10, 1>>, <<6, 4>>>>,
       <<<<6, 0>>, <<10, 3>>, <<10, 0>>, <<6, 3>>>>,
       <<<<6, 2>>, <<8, 0>>, <<10, 2>>, <<8, 4>>>>, <<<<8, 0>>, <<6, 2>>, <<8, 4>>, <<10, 2>>>>,
       <<<<8, 0>>, <<10, 4>>, <<6, 1>>, <<10, 1>>, <<6, 4>>>>,
       <<<<6, 0>>, <<10, 0>>, <<8, 4>>, <<6, 0>>, <<10, 0>>, <<8, 4>>>> }}

MCOperations == MCLines \cup MCTriangles \cup MCCircles \cup MCOthers \cup MCPolygons
=============================================================================
