SPECIFICATION Spec
CONSTANTS
  ann = ann
  bob = bob
  ledger = ledger
  report = report
  Person = {ann, bob}
  Resource = {ledger, report}
  Name <- Names
  Normalized <- MCNormalized
  ClientCommand <- ReusedCommands
  MaxInbox = 3
  MaxChanges = 3
  MaxCrashes = 0
INVARIANTS
  NamesAreUnique
