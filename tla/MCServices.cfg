\* A TUI and a command that stops, three instances of the service.
CONSTANTS
  Tui = {t1}
  Cli = {c1}
  CliCommand = {"stop"}
  MaxStarts = 3
  None = None
  Absent = Absent
  Blank = Blank
SPECIFICATION Spec
INVARIANT LiveChildListed
PROPERTY DeathNoticed
