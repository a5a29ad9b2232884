SPECIFICATION FairSpec
CONSTANTS
  ann = ann
  max = max
  printer = printer
  r1 = r1
  r2 = r2
  r3 = r3
  Person = {ann, max}
  Request = {r1, r2}
  Resource = {printer}
  PolicyManager <- MCPolicyManager
  OfferedLevel <- MCOfferedLevel
  MaximumDuration <- MCMaximumDuration
  ClientCommand <- SettlingCommands
  MaxTime = 4
  MaxInbox = 2
  MaxCrashes = 1
  ClockStep = 1
INVARIANTS
  EffectsFollowApprovals
PROPERTIES
  ImplementsLifecycle
  SubmissionSettles
  FirstTimeApprovalSettles
