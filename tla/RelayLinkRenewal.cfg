SPECIFICATION Spec
CONSTANTS
  Calls = {c1, c2}
  None = None
  NotesRenewal = TRUE
PROPERTY RenewalReconnects
