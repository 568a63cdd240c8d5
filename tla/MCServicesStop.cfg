\* One TUI alone, stopping, starting and stopping again.
CONSTANTS
  Tui = {t1}
  Cli = {}
  CliCommand = {}
  MaxStarts = 2
  None = None
  Absent = Absent
  Blank = Blank
SPECIFICATION Spec
PROPERTY StopHonest
CHECK_DEADLOCK FALSE
