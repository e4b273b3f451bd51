\* read_val_by_config against the spec's reading of a .config line.
CONSTANTS
  ValKeys = {"T"}
  SocKey = "S"
  KsymKey = "L"
  Quote = Quote
  Space = Space
  Unread = Unread
  Crash = Crash
  Files <- ConfigFiles
SPECIFICATION Spec
\* build_firmware stops asking once every value is read.
CHECK_DEADLOCK FALSE
INVARIANT ValueAsSpecified
