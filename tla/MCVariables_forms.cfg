SPECIFICATION FormsSpec
CONSTANTS
  Capacity <- MCCapacity
  HubLimit <- MCHubLimit
INVARIANT
  MembersReached
CHECK_DEADLOCK FALSE
