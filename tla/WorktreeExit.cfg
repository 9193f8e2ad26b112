SPECIFICATION Spec
CONSTANTS
  Callers = {c}
  Names = {"agent", "nested", "auth"}
  Slug <- SlugOf
  Ephemeral = {"agent"}
  MaxWork = 2
  MaxTroubles = 1
PROPERTY ExitKeepsCommits
CHECK_DEADLOCK FALSE
