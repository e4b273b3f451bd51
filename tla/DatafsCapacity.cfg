\* build_datafs_bin over the manifests and udisk directories of MC_Datafs.
CONSTANTS
  NoDir = NoDir
  Absent = Absent
  Manifests <- DatafsManifests
  Dirs <- DatafsDirs
  EncoderResults = {"ok", "fail"}
SPECIFICATION Spec
\* build_datafs_bin returns, fails or raises, and then the build stops.
CHECK_DEADLOCK FALSE
INVARIANTS CapacitySound EncodeIffFits
PROPERTY LoopRefined
