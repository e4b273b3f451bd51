\* main over three invocations with flags, menu answers and edits between them.
CONSTANTS
  Boards <- CliBoards
  Apps <- CliApps
  Shape <- CliShape
  Subs <- CliSubs
  AppConfs <- CliAppConfs
  Confs <- CliConfs
  Inputs <- CliInputs
  Flags <- CliFlags
  Versions = {"v1", "v2"}
  MaxRuns = 3
  NoFile = NoFile
  Crash = Crash
  IsWindows = TRUE
SPECIFICATION Spec
\* build.py stops after its last invocation.
CHECK_DEADLOCK FALSE
INVARIANT ChoiceAsNumbered
