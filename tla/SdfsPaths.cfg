\* Spec 4.3 relative-path merge against dir_cp, one fixed kind.
CONSTANTS
  Names = {"a", "b"}
  SubDirs = {"d"}
  NoDir = NoDir
  NoImage = NoImage
  NoFile = NoFile
  FixedKinds <- MergeKinds
  DynKinds = {}
  SrcSpace <- MergeSpace
  CfgSpace <- TransmitterCfgs
  EncoderResults = {"ok", "fail"}
  MaxRuns = 2
SPECIFICATION Spec
\* build.py stops after its last run.
CHECK_DEADLOCK FALSE
INVARIANT PathsPreserved
