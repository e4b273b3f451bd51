\* One invocation of main on Linux, with prj.conf among the app_conf files.
CONSTANTS
  Boards <- CliBoards
  Apps <- CliApps
  Shape <- CliShape
  Subs <- CliSubs
  AppConfs <- CliAppConfs
  Confs <- CliConfsPrj
  Inputs <- CliInputs
  Flags <- CliFlags
  Versions = {"v1", "v2"}
  MaxRuns = 1
  NoFile = NoFile
  Crash = Crash
  IsWindows = FALSE
SPECIFICATION Spec
\* build.py stops after its last invocation.
CHECK_DEADLOCK FALSE
INVARIANT BuiltAsSelected
