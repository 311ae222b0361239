SPECIFICATION Spec
CONSTANTS
  owner = owner
  ann = ann
  vic = vic
  left = left
  right = right
  write = write
  fetch = fetch
  Users = {owner, ann, vic}
  ProjectOwner = owner
  Branches = {left, right}
  NoBranch = NoBranch
  Tools = {write, fetch}
  NoTool = NoTool
  Roles <- MCRoles
  Plans <- TwinsOnly
  MaxApprovals = 2
  MaxRerouted = 0
  Faults = {}
INVARIANT GrantMatchesAction
CHECK_DEADLOCK FALSE
