SPECIFICATION FairSpec
CONSTANTS
  owner = owner
  ann = ann
  vic = vic
  left = left
  right = right
  write = write
  fetch = fetch
  Users = {owner, ann, vic}
  ProjectOwner = owner
  Branches = {left, right}
  NoBranch = NoBranch
  Tools = {write, fetch}
  NoTool = NoTool
  Roles <- MCRoles
  Plans <- MCPlans
  MaxApprovals = 3
  MaxRerouted = 1
  Faults = {"error", "leave"}
INVARIANTS
  TypeOK
  SomebodyCanDecide
  PerformedWasGranted
  DependenciesFirst
  BlockedForReason
  CompletedMeansDone
PROPERTY RunSettles
CHECK_DEADLOCK FALSE
