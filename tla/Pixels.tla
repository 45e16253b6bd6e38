------------------------------- MODULE Pixels -------------------------------
(***************************************************************************)
(* shapelib's compressed arrays of pixels, a bit each, and the tests on    *)
(* them.  A row is a number of bytes; the bits that are set are kept as a  *)
(* set of positions <<x, y>>.  Positions are not negative.                 *)
(***************************************************************************)
EXTENDS Integers

\* The bytes that contain nBits bits.
maxByte(nBits) == (nBits \div 8) + (IF nBits % 8 # 0 THEN 1 ELSE 0)

NewPixelArray(xMax, yMax) ==
  [width |-> maxByte(xMax + 1), height |-> yMax + 1, bits |-> {}]

NewPixelSubArray(xStart, xEnd, yStart, yEnd) ==
  [xStartByte |-> xStart \div 8,
   width      |-> maxByte(xEnd + 1) - (xStart \div 8),
   yStart     |-> yStart,
   height     |-> yEnd - yStart + 1,
   bits       |-> {}]

\* The last x that a row of the sub array has a bit for.
LastBit(sub) == 8 * (sub.xStartByte + sub.width) - 1

\* The bits that flipAllRight flips: to the end of the row's last byte.
AllRight(sub, x, y) == (x .. LastBit(sub)) \X {y}

\* The bits that fillBetween fills: the left byte to its end, the right byte
\* from its beginning, and the bytes between.
Between(xl, xr, y) ==
  ( xl .. 8 * (xl \div 8) + 7
      \cup 8 * (xr \div 8) .. xr
      \cup 8 * (xl \div 8) + 8 .. 8 * (xr \div 8) - 1 ) \X {y}

Past(a, sub) ==
  \/ sub.xStartByte + sub.width > a.width
  \/ sub.yStart + sub.height > a.height

\* Faulty: the bytes are compared where they are in the sub array.
HasConflictAtOrigin(a, sub) ==
  Past(a, sub) \/ a.bits \cap {<<p[1] - 8 * sub.xStartByte, p[2]>> : p \in sub.bits} # {}

HasConflict(a, sub) == Past(a, sub) \/ a.bits \cap sub.bits # {}

MergeSubArray(a, sub) ==
  IF Past(a, sub) THEN a ELSE [a EXCEPT !.bits = @ \cup sub.bits]
=============================================================================
