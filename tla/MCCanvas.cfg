SPECIFICATION Spec
CHECK_DEADLOCK FALSE
CONSTANTS
  CanvasXMax = 10
  Invalid = Invalid
  CanvasYMax = 4
  Operations <- MCOperations
  MaxShapes = 2
INVARIANTS
  LinesNeverCross
  
  AnyCouldBeLast
  FilledAreClosed
