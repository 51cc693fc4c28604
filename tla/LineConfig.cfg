SPECIFICATION Spec

CONSTANTS
  Conns = {c1, c2}
  Requests <- ThreeLines
  Drawn <- DrawnLine
  BaseIndexes = {1}
  CameraTypes = {"CCTV", "other"}
  Faults = {"camera", "insert", "update", "select", "delete"}

INVARIANT TypeOK
INVARIANT RowsAsSent
INVARIANT SelectKeepsCameraLines
INVARIANT DeleteLeavesNothing
PROPERTY AnswersTrue

SYMMETRY ConnSymmetry
