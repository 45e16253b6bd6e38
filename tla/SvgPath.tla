------------------------------ MODULE SvgPath -------------------------------
(***************************************************************************)
(* From an operation's SVG string to its shape.  A string is a sequence of *)
(* words: <<"#", n>> for a number, <<w, 0>> for any other word w.          *)
(***************************************************************************)
EXTENDS Shapes

CONSTANTS
  CanvasXMax,  \* CanvasSettings.CanvasXMax
  Invalid      \* stands for any error

ASSUME SvgPathAssumption == CanvasXMax \in Nat

Upper(word) ==
  CASE word = "m" -> "M" [] word = "l" -> "L" [] word = "h" -> "H"
    [] word = "v" -> "V" [] word = "z" -> "Z" [] OTHER -> word

Parameters(letter) ==
  IF letter \in {"M", "L"} THEN 2 ELSE IF letter \in {"H", "V"} THEN 1 ELSE 0

\* The command with letter w.  A small v is taken for an H.  The coordinate a
\* command does not have is -1.
Command(w, x, y) ==
  CASE Upper(w) = "M" -> [type |-> "M", relative |-> FALSE, X |-> x, Y |-> y]
    [] Upper(w) = "L" -> [type |-> "L", relative |-> w = "l", X |-> x, Y |-> y]
    [] w = "V"        -> [type |-> "V", relative |-> FALSE, X |-> -1, Y |-> x]
    [] w \in {"H", "h", "v"} -> [type |-> "H", relative |-> w = "h", X |-> x, Y |-> -1]
    [] OTHER          -> [type |-> "Z", relative |-> FALSE, X |-> -1, Y |-> -1]

\* The commands of a string.  A path stops without an error at a word that is
\* no command, and parameters past the end of the string are zero.
GetParsedSVG(words) ==
  LET n == Len(words)
      number(i) == words[i][2]
      from[i \in 1..(n + 3)] ==
        IF i > n THEN <<>>
        ELSE LET w     == words[i][1]
                 wide  == Parameters(Upper(w))
                 given == i + wide <= n
                 rest  == from[i + wide + 1]
             IN  IF i = 1 /\ Upper(w) # "M" THEN Invalid
                 ELSE IF Upper(w) \notin {"M", "L", "H", "V", "Z"} THEN <<>>
                 ELSE IF given /\ \E j \in 1..wide : words[i + j][1] # "#" THEN Invalid
                 ELSE IF rest = Invalid THEN Invalid
                 ELSE << Command(w, IF given /\ wide > 0 THEN number(i + 1) ELSE 0,
                                    IF given /\ wide > 1 THEN number(i + 2) ELSE 0) >> \o rest
  IN  from[1]

\* The point a command leads to.
Point(c, first, prev) ==
  [Moved |-> c.type = "M",
   X |-> CASE c.type = "Z" -> first.X
           [] c.type = "V" -> prev.X
           [] c.relative   -> prev.X + c.X
           [] OTHER        -> c.X,
   Y |-> CASE c.type = "Z" -> first.Y
           [] c.type = "H" -> prev.Y
           [] c.relative   -> prev.Y + c.Y
           [] OTHER        -> c.Y]

OutOfBounds(p, canvasX, canvasY) == p.X > canvasX \/ p.Y > canvasY \/ p.X < 0 \/ p.Y < 0

\* Faulty: only the first and the last point of the path are compared.
ClosedAtEnds(points) ==
  LET first == points[1]
      last  == points[Len(points)]
  IN  first.X = last.X /\ first.Y = last.Y

\* Each section of the path, from a move to the next, ends where it starts.
Closed(points) ==
  \A i, j \in DOMAIN points :
    /\ i <= j
    /\ i = 1 \/ points[i].Moved
    /\ j = Len(points) \/ points[j + 1].Moved
    /\ \A k \in (i + 1)..j : ~points[k].Moved
    => points[i].X = points[j].X /\ points[i].Y = points[j].Y

SVGToPoints(commands, canvasX, canvasY, filled) ==
  LET points == FoldLeft(LAMBDA done, c :
                  LET p == Point(c, done[1], done[Len(done)])
                  IN  IF done = <<>> THEN <<Point(c, c, c)>> ELSE Append(done, p),
                  <<>>, commands)
  IN  IF \/ \E i \in DOMAIN points : OutOfBounds(points[i], canvasX, canvasY)
         \/ filled /\ ~Closed(points)
      THEN Invalid
      ELSE NewPath(points, filled)

\* Where in the string the pattern of a circle is: a word and three numbers
\* without a sign.
MatchesCircle(words) ==
  {k \in 1..(Len(words) - 3) :
     /\ words[k][1] = "circle"
     /\ \A i \in (k + 1)..(k + 3) : words[i][1] = "#" /\ words[i][2] >= 0}

\* The first circle of the string, within the canvas.  The test for the left and
\* the upper edge is on unsigned numbers and refuses nothing.
GetParsedCirc(words, filled, canvasX, canvasY) ==
  LET k == Min(MatchesCircle(words))
      x == words[k + 1][2]
      y == words[k + 2][2]
      r == words[k + 3][2]
  IN  IF MatchesCircle(words) = {} \/ x + r > canvasX \/ y + r > canvasY
      THEN Invalid
      ELSE NewCircle(x, y, r, filled)

\* getShapeFromOp: a path, or else a circle.  The canvas is taken for a square.
getShapeFromOp(op) ==
  LET commands == GetParsedSVG(op.SVGString)
  IN  IF commands # Invalid
      THEN SVGToPoints(commands, CanvasXMax, CanvasXMax, op.Filled)
      ELSE GetParsedCirc(op.SVGString, op.Filled, CanvasXMax, CanvasXMax)

\* SubArray of either kind of shape.
SubArray(shape) ==
  IF "R" \in DOMAIN shape THEN CircleSubArray(shape) ELSE PathSubArray(shape)
=============================================================================
