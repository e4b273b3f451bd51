\* build_firmware against the Pipeline specification over two runs, with the
\* packed directory and the firmware.xml copies under changing sources.
CONSTANTS
  Names = {"a"}
  SubDirs = {}
  NoDir = NoDir
  NoImage = NoImage
  NoFile = NoFile
  FixedKinds <- FwKinds
  DynKinds = {"k1"}
  SrcSpace <- FwSrcSpace
  CfgSpace <- TransmitterCfgs
  EncoderResults = {"ok", "fail"}
  MaxRuns = 2
  Confs = {"c1", "c2"}
  OverrideNames = {}
  PrebuiltBin = {}
  PrebuiltImages = {}
  EnvSpace <- PipelineCopyEnvs
  IsWindows = FALSE
SPECIFICATION Spec
\* build.py stops after its last run.
CHECK_DEADLOCK FALSE
INVARIANT TypeOK
INVARIANTS PackedConsistent ManifestPrecedence
PROPERTY PipelineRefined
