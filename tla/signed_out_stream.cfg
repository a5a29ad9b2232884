SPECIFICATION Spec
CONSTANTS
  ann = ann
  max = max
  eve = eve
  printer = printer
  scanner = scanner
  acme = acme
  globex = globex
  ann1 = ann1
  ann2 = ann2
  max1 = max1
  r1 = r1
  r2 = r2
  w1 = w1
  own = own
  trail = trail
  Person = {ann, max, eve}
  Resource = {printer, scanner}
  Organization = {acme, globex}
  ManagerOf <- MCManagerOf
  MemberOf <- MCMemberOf
  AdministratorOf <- MCAdministratorOf
  Record <- MCRecord
  Session = {ann1, ann2}
  PersonOf <- MCPersonOf
  OrganizationOf <- MCOrganizationOf
  Query <- MCQuery
  Topic = {own, trail}
  TargetOf <- MCTargetOf
  Subscription = {w1}
  Slot = {r1, r2}
  Lifetime = 2
  Skew = 1
  MaxTime = 3
  LastSignIn = 0
  Wait = 1
  MaxSignOuts = 1
  MaxRestarts = 0
INVARIANT SignedOutHoldsNothing
CHECK_DEADLOCK FALSE
