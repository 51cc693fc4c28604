SPECIFICATION Spec

CONSTANTS
  Conns = {c1, c2}
  Requests <- TwoLines
  Drawn = {}
  BaseIndexes = {}
  CameraTypes = {"CCTV"}
  Faults = {}

INVARIANT OnlyCameraLines

SYMMETRY ConnSymmetry
