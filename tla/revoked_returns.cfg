SPECIFICATION Spec
CONSTANTS
  ann = ann
  max = max
  printer = printer
  r1 = r1
  r2 = r2
  r3 = r3
  Person = {ann, max}
  Request = {r1, r2}
  Resource = {printer}
  PolicyManager <- MCPolicyManager
  OfferedLevel <- MCOfferedLevel
  MaximumDuration <- MCMaximumDuration
  ClientCommand <- RevocationCommands
  MaxTime = 0
  MaxInbox = 4
  MaxCrashes = 1
  ClockStep = 0
PROPERTIES
  ForgottenForGood
