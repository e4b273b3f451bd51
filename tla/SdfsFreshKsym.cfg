\* FreshKsym against build_sdfs_bin over two runs.
CONSTANTS
  Names = {"a", "b"}
  SubDirs = {"d"}
  NoDir = NoDir
  NoImage = NoImage
  NoFile = NoFile
  FixedKinds <- KsymKinds
  DynKinds = {"k1"}
  SrcSpace <- KsymSpace
  CfgSpace <- AllCfgs
  EncoderResults = {"ok", "fail"}
  MaxRuns = 2
SPECIFICATION Spec
\* build.py stops after its last run.
CHECK_DEADLOCK FALSE
INVARIANT FreshKsym
