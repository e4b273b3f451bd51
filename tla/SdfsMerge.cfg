\* Layer order, fallbacks, staging rebuild and the symbol table: fatfs
\* layered from every location, ksdfs, sdfs and a kind k1 under fs_sdfs, two runs.
CONSTANTS
  Names = {"a", "b"}
  SubDirs = {"d"}
  NoDir = NoDir
  NoImage = NoImage
  NoFile = NoFile
  FixedKinds <- BothKinds
  DynKinds = {"k1"}
  SrcSpace <- BothSpace
  CfgSpace <- AllCfgs
  EncoderResults = {"ok", "fail"}
  MaxRuns = 2
SPECIFICATION Spec
\* build.py stops after its last run.
CHECK_DEADLOCK FALSE
INVARIANTS TypeOK FreshSources TopLevelOverride KsymExactlyOnce
