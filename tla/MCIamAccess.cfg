SPECIFICATION Spec
CONSTANTS
  c1 = c1
  c2 = c2
  c3 = c3
  Calls = {c1, c2, c3}
  Tenants = {"acme", "beta"}
  Members = {"mia"}
  HomeOf <- MCHomeOf
  TeamRole <- MCTeamRole
  Requests <- MCRequests
  Permissions = {"role.bind", "user.read"}
  None = None
CHECK_DEADLOCK FALSE
INVARIANTS
  WithinTenant
  PathsAgree
  ViewsCurrent
  DuplicatesOverlapped
  UnbindSweeps
