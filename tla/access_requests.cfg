SPECIFICATION Spec
CONSTANTS
  ann = ann
  max = max
  printer = printer
  r1 = r1
  r2 = r2
  r3 = r3
  Person = {ann, max}
  Request = {r1, r2, r3}
  Resource = {printer}
  PolicyManager <- MCPolicyManager
  OfferedLevel <- MCOfferedLevel
  MaximumDuration <- MCMaximumDuration
  ClientCommand <- AccessCommands
  MaxTime = 4
  MaxInbox = 2
  MaxCrashes = 0
  ClockStep = 0
INVARIANTS
  TypeOK
  GrantsAreApproved
  RequestViewAgrees
  LifetimeCapped
  GrantEndsAreApproved
  TasksAgree
  GrantViewAgrees
PROPERTIES
  ForgottenForGood
  ExtensionKeepsGrant
