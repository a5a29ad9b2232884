SPECIFICATION SignInSpec
CONSTANTS
  work = work
  home = home
  here = here
  there = there
  worker = worker
  manager = manager
  Account = {work, home}
  Email <- Emails
  Person = {p1, p2}
  Organization = {here, there}
  Role = {worker, manager}
  Normalized <- MCNormalized
  ClientCommand <- AddCommands
  VerifiedEmail <- MCVerified
  Attempted <- MCAttempted
  MaxInbox = 2
  MaxFaults = 1
INVARIANTS
  SignInTypeOK
  SessionsAreTheOwners
  AddressesAreOnePerson
  JoinedAreListed
  ListedOnceWhereAdded
  PersonViewAgrees
PROPERTIES
  SignInCompletes
  AddingCompletes
