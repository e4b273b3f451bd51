\* An SDK prebuilt directory holding nvram.bin.
CONSTANTS
  Names = {"a"}
  SubDirs = {}
  NoDir = NoDir
  NoImage = NoImage
  NoFile = NoFile
  FixedKinds <- FwKinds
  DynKinds = {"k1"}
  SrcSpace <- FwSrcSpace
  CfgSpace <- PlainCfgs
  EncoderResults = {"ok"}
  MaxRuns = 2
  Confs = {"c1"}
  OverrideNames = {}
  PrebuiltBin = {"nvram.bin"}
  PrebuiltImages = {}
  EnvSpace <- PipelineEnvs
  IsWindows = FALSE
SPECIFICATION Spec
\* build.py stops after its last run.
CHECK_DEADLOCK FALSE
INVARIANT BuiltNvramKept
