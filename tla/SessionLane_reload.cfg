SPECIFICATION Spec
CONSTANTS
  Requests = {r1, r2, r3}
  NoRequest = NoRequest
  Configs <- Reloaded
SYMMETRY Symmetry
INVARIANTS TypeOK HeldOnce ClosedOnce NeverStranded SpokenOnce
PROPERTY TerminalRecordStays
CHECK_DEADLOCK FALSE
