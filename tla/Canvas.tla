------------------------------- MODULE Canvas -------------------------------
(***************************************************************************)
(* What validation lets onto one canvas: shapes of different keys, drawn   *)
(* one after the other, each tested against the pixels of all the others.  *)
(* A DELETE of another key takes none of them away.  The properties        *)
(* compare the pixels with the shapes as they are in the plane.            *)
(***************************************************************************)
EXTENDS SvgPath

CONSTANTS
  Operations,  \* records of an SVGString and whether it is Filled
  CanvasYMax,  \* CanvasSettings.CanvasYMax
  MaxShapes    \* bound on the shapes on the canvas

\* A string has a word at least, which may be empty.
ASSUME CanvasAssumption ==
  /\ CanvasYMax \in Nat /\ MaxShapes \in Nat
  /\ Operations \subseteq [SVGString : Seq(STRING \X Int) \ {<<>>}, Filled : BOOLEAN]

VARIABLE drawn  \* the operations whose shape is on the canvas

Shape == [op \in Operations |-> getShapeFromOp(op)]

Drawable == {op \in Operations : Shape[op] # Invalid}

\* Where shapelib.go:101 wants points to be.  Of a circle beyond the left or the
\* upper edge, and of a filled one without a radius, the code sets bits that
\* do not exist.
ASSUME CirclesAssumption ==
  \A op \in Drawable :
    LET shape == Shape[op]
    IN  "R" \in DOMAIN shape => shape.R <= Min({shape.C.X, shape.C.Y})
                                /\ (shape.Filled => shape.R > 0)

Sub == [op \in Drawable |-> SubArray(Shape[op])]

\* The array that checkInkAndConflicts merges the existing shapes into.
PixelArr(ops) ==
  FoldSet(LAMBDA op, a : MergeSubArray(a, Sub[op]),
          NewPixelArray(CanvasXMax, CanvasYMax), ops)

Init == drawn = {}

Draw(op, pixelarr) ==
  /\ Cardinality(drawn) < MaxShapes
  /\ ~HasConflict(pixelarr, Sub[op])
  /\ drawn' = drawn \cup {op}

Next == LET pixelarr == PixelArr(drawn) IN \E op \in Drawable : Draw(op, pixelarr)

Spec == Init /\ [][Next]_drawn

-----------------------------------------------------------------------------
(* The plane                                                               *)

IsPath(shape) == "Points" \in DOMAIN shape

Place(p) == <<p.X, p.Y>>

\* The lines of a path, by the number of the point they start at and as pairs
\* of places.
Drawn(points) == {i \in 1..(Len(points) - 1) : ~points[i + 1].Moved}

Line(points, i) == <<Place(points[i]), Place(points[i + 1])>>

Lines(shape) ==
  IF IsPath(shape) THEN {Line(shape.Points, i) : i \in Drawn(shape.Points)} ELSE {}

\* On which side of the line from a to b the place c is.
Side(a, b, c) == Sign((b[1] - a[1]) * (c[2] - a[2]) - (b[2] - a[2]) * (c[1] - a[1]))

On(c, line) ==
  /\ Side(line[1], line[2], c) = 0
  /\ c[1] \in To(line[1][1], line[2][1])
  /\ c[2] \in To(line[1][2], line[2][2])

Meet(l, m) ==
  \/ /\ Side(l[1], l[2], m[1]) # Side(l[1], l[2], m[2])
     /\ Side(m[1], m[2], l[1]) # Side(m[1], m[2], l[2])
  \/ On(l[1], m) \/ On(l[2], m) \/ On(m[1], l) \/ On(m[2], l)

\* A ray from c to the left meets the line.
PassesLeft(line, c) ==
  \/ line[1][2] <= c[2] /\ c[2] < line[2][2] /\ Side(line[1], line[2], c) = -1
  \/ line[2][2] <= c[2] /\ c[2] < line[1][2] /\ Side(line[1], line[2], c) = 1

\* c is inside a filled path by the rule that utils.go:94 asks of a browser,
\* fill-rule="evenodd", or in a filled circle.
Enclosed(c, shape) ==
  /\ shape.Filled
  /\ IF IsPath(shape)
     THEN /\ \A line \in Lines(shape) : ~On(c, line)
          /\ Cardinality({i \in Drawn(shape.Points) :
                            PassesLeft(Line(shape.Points, i), c)}) % 2 = 1
     ELSE (c[1] - shape.C.X) * (c[1] - shape.C.X) + (c[2] - shape.C.Y) * (c[2] - shape.C.Y)
            <= shape.R * shape.R

\* The path is of one section and no line of it runs along the row of c.
Plain(c, shape) ==
  \A i \in 1..(Len(shape.Points) - 1) :
    /\ ~shape.Points[i + 1].Moved
    /\ {shape.Points[i].Y, shape.Points[i + 1].Y} # {c[2]}

-----------------------------------------------------------------------------
(* Properties                                                              *)

\* No line of a shape on the canvas crosses or touches a line of another, at
\* any place, between the pixels too: the outlines have no gap to slip through
\* (shapes.go:115-137, shapelib.go:196-355, pixelarray.go:39-101).
LinesNeverCross ==
  \A s, t \in drawn : s # t =>
    \A l \in Lines(Shape[s]), m \in Lines(Shape[t]) : ~Meet(l, m)

\* No line of a shape on the canvas ends in a filled circle, nor inside a filled
\* path of one section where no line of the path runs along the row: whichever
\* way the path is walked, wherever it starts and however often it crosses
\* itself, the fill has no hole (shapes.go:55-113, 243-274).
NothingWithin ==
  \A s, t \in drawn : s # t =>
    \A l \in Lines(Shape[s]) : \A c \in {l[1], l[2]} :
      Enclosed(c, Shape[t]) => IsPath(Shape[t]) /\ ~Plain(c, Shape[t])

\* Whether shapes may be on a canvas together does not depend on their order:
\* each could have been the last one.  Miners that see operations in different
\* orders agree (validation.go:166-183, pixelarray.go:39-101).
AnyCouldBeLast ==
  \A op \in drawn : ~HasConflict(PixelArr(drawn \ {op}), Sub[op])

\* The lines of a filled shape on the canvas bound a region: every place is the
\* end of an even number of them (utils.go:229-277, shapes.go:110).
FilledAreClosed ==
  \A op \in drawn :
    LET points == Shape[op].Points
        ends   == Drawn(points) \X {0, 1}
    IN  IsPath(Shape[op]) /\ Shape[op].Filled
        => \A c \in ends : Cardinality({d \in ends :
             Place(points[d[1] + d[2]]) = Place(points[c[1] + c[2]])}) % 2 = 0
=============================================================================
