SPECIFICATION Spec
CONSTANTS
  ann = ann
  max = max
  printer = printer
  r1 = r1
  r2 = r2
  r3 = r3
  Person = {ann, max}
  Request = {r1, r2}
  Resource = {printer}
  PolicyManager <- MCPolicyManager
  OfferedLevel <- MCOfferedLevel
  MaximumDuration <- MCMaximumDuration
  ClientCommand <- LateExtensionCommands
  MaxTime = 3
  MaxInbox = 2
  MaxCrashes = 0
  ClockStep = 1
PROPERTIES
  ExtensionKeepsGrant
