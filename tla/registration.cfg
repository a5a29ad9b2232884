SPECIFICATION FairSpec
CONSTANTS
  ann = ann
  bob = bob
  ledger = ledger
  report = report
  Person = {ann, bob}
  Resource = {ledger, report}
  Name <- Names
  Normalized <- MCNormalized
  ClientCommand <- ConflictCommands
  MaxInbox = 2
  MaxChanges = 3
  MaxCrashes = 1
INVARIANTS
  TypeOK
  RegistrationIsWhole
  CatalogAgrees
  NamesAreUnique
  OrganizationViewAgrees
  TrailTellsWhatHappened
PROPERTIES
  RecordedStays
  RegistrationSettles
