\* A run whose sources hold no firmware.xml after one that had one.
CONSTANTS
  Names = {"a"}
  SubDirs = {}
  NoDir = NoDir
  NoImage = NoImage
  NoFile = NoFile
  FixedKinds <- FwKinds
  DynKinds = {"k1"}
  SrcSpace <- FwSrcSpace
  CfgSpace <- PlainCfgs
  EncoderResults = {"ok", "fail"}
  MaxRuns = 2
  Confs = {"c1"}
  OverrideNames = {}
  PrebuiltBin = {}
  PrebuiltImages = {}
  EnvSpace <- PipelineEnvs
  IsWindows = FALSE
SPECIFICATION Spec
\* build.py stops after its last run.
CHECK_DEADLOCK FALSE
INVARIANT ManifestFresh
