------------------------------- MODULE Shapes -------------------------------
(***************************************************************************)
(* shapelib's paths and circles, and the pixels they cover.  A line is     *)
(* walked from its first point to its last: over the rows it passes, each  *)
(* entered in one column.  Slopes are exact here; the float64 computation  *)
(* rounds the same way for lines of up to five columns.                    *)
(***************************************************************************)
EXTENDS Pixels, FiniteSetsExt, SequencesExt

Sign(n) == IF n > 0 THEN 1 ELSE IF n < 0 THEN -1 ELSE 0

Distance(m, n) == IF m > n THEN m - n ELSE n - m

To(m, n) == m .. n \cup n .. m

-----------------------------------------------------------------------------
(* Lines                                                                   *)

\* int(slope*x + intercept + 0.5), k columns from p on the way to q.
YThresh(p, q, k) ==
  LET w == Distance(p.X, q.X)
  IN  IF w = 0 THEN q.Y ELSE (2 * (p.Y * w + (q.Y - p.Y) * k) + w) \div (2 * w)

VertDirection(p, q) ==
  IF p.X = q.X /\ p.Y = q.Y THEN -1 ELSE Sign(q.Y - p.Y)

\* The column where the line from p to q comes to row y.
EntryX(p, q, y) ==
  LET reached == {k \in 0..Distance(p.X, q.X) :
                    Distance(YThresh(p, q, k), p.Y) >= Distance(y, p.Y)}
  IN  p.X + Sign(q.X - p.X) * Min(reached)

\* Faulty: a row ends before the column where the next one begins.
OutlineLoose(p, q) ==
  UNION {LET from == EntryX(p, q, y)
             to   == IF y = q.Y THEN q.X ELSE EntryX(p, q, y + Sign(q.Y - p.Y))
         IN  (To(from, to) \ (IF y = q.Y \/ from = to THEN {} ELSE {to})) \X {y} :
         y \in To(p.Y, q.Y)}

\* What is set for the outline: on each row the columns up to the one where the
\* next row is entered, so that the pixels are continuous.
Outline(p, q) ==
  UNION {To(EntryX(p, q, y),
            IF y = q.Y THEN q.X ELSE EntryX(p, q, y + Sign(q.Y - p.Y))) \X {y} :
         y \in To(p.Y, q.Y)}

-----------------------------------------------------------------------------
(* Paths                                                                   *)

NewPath(points, filled) ==
  LET xs == {points[i].X : i \in DOMAIN points}
      ys == {points[i].Y : i \in DOMAIN points}
  IN  [Points |-> points, Filled |-> filled,
       XMin |-> Min(xs), XMax |-> Max(xs), YMin |-> Min(ys), YMax |-> Max(ys)]

Bounds(path) == NewPixelSubArray(path.XMin, path.XMax, path.YMin, path.YMax)

Flip(bits, more) == (bits \ more) \cup (more \ bits)

\* Before a new section and at the end: the row the section started on is
\* flipped back from the end of the path when it was flipped an odd number of
\* times.
Balanced(path, fill) ==
  LET last == path.Points[Len(path.Points)]
  IN  IF fill.yStartFillCount % 2 = 1
      THEN [fill EXCEPT !.bits = Flip(@, AllRight(Bounds(path), last.X, fill.yPrev))]
      ELSE fill

\* Faulty: the first row of a line is flipped as well when the line goes on in
\* the direction of the one before.
FillSegmentTwice(path, fill, i) ==
  LET p == path.Points[i]
      q == path.Points[i + 1]
      rows == {y \in To(p.Y, q.Y) : VertDirection(p, q) # 0}
  IN  IF q.Moved
      THEN [Balanced(path, fill) EXCEPT
              !.yStartFillCount = 0, !.yStart = q.Y, !.prevVertDir = -2]
      ELSE [bits |-> Flip(fill.bits,
                       UNION {AllRight(Bounds(path), EntryX(p, q, y), y) : y \in rows}),
            yStartFillCount |-> fill.yStartFillCount + Cardinality(rows \cap {fill.yStart}),
            yStart |-> fill.yStart, yPrev |-> q.Y, prevVertDir |-> VertDirection(p, q)]

\* One turn of the fill loop, on the line to the next point or past a move:
\* each row the line enters is flipped to the right of it, the first one only
\* where the path turns.
FillSegment(path, fill, i) ==
  LET p == path.Points[i]
      q == path.Points[i + 1]
      turns == fill.prevVertDir # VertDirection(p, q) /\ fill.prevVertDir # 0
      rows == {y \in To(p.Y, q.Y) : IF y = p.Y THEN turns ELSE VertDirection(p, q) # 0}
  IN  IF q.Moved
      THEN [Balanced(path, fill) EXCEPT
              !.yStartFillCount = 0, !.yStart = q.Y, !.prevVertDir = -2]
      ELSE [bits |-> Flip(fill.bits,
                       UNION {AllRight(Bounds(path), EntryX(p, q, y), y) : y \in rows}),
            yStartFillCount |-> fill.yStartFillCount + Cardinality(rows \cap {fill.yStart}),
            yStart |-> fill.yStart, yPrev |-> q.Y, prevVertDir |-> VertDirection(p, q)]

Fill(path) ==
  LET start == [bits |-> {}, prevVertDir |-> -2, yStart |-> path.Points[1].Y,
                yPrev |-> 0, yStartFillCount |-> 0]
  IN  Balanced(path, FoldLeftDomain(LAMBDA fill, i :
                IF i = Len(path.Points) THEN fill ELSE FillSegment(path, fill, i),
                start, path.Points)).bits

\* Path.SubArray.
PathSubArray(path) ==
  LET drawn == {i \in 1..(Len(path.Points) - 1) : ~path.Points[i + 1].Moved}
      outline == UNION {Outline(path.Points[i], path.Points[i + 1]) : i \in drawn}
  IN  [Bounds(path) EXCEPT
         !.bits = outline \cup IF path.Filled THEN Fill(path) ELSE {}]

-----------------------------------------------------------------------------
(* Circles                                                                 *)

NewCircle(x, y, r, filled) == [C |-> [X |-> x, Y |-> y], R |-> r, Filled |-> filled]

\* int(sqrt(r^2 - y^2) + 0.5).
XLen(r, y) == Max({0} \cup {k \in 1..r : (2 * k - 1) * (2 * k - 1) <= 4 * (r * r - y * y)})

XLenPrev(r, y) == IF y = 0 THEN r ELSE XLen(r, y - 1)

\* The fill of the rows y above and below the centre.
Disc(c, y) ==
  LET x == XLenPrev(c.R, y) - 1
  IN  UNION {Between(c.C.X - x, c.C.X + x, row) : row \in {c.C.Y + y, c.C.Y - y}}

\* The outline on these rows, in four quadrants.
Arc(c, y) ==
  UNION {{c.C.X + x, c.C.X - x} \X {c.C.Y + y, c.C.Y - y} : x \in XLen(c.R, y)..XLenPrev(c.R, y)}

\* Circle.SubArray.
CircleSubArray(c) ==
  [NewPixelSubArray(c.C.X - c.R, c.C.X + c.R, c.C.Y - c.R, c.C.Y + c.R) EXCEPT
     !.bits = UNION {Arc(c, y) \cup IF c.Filled THEN Disc(c, y) ELSE {} : y \in 0..c.R}]
=============================================================================
