SPECIFICATION Spec
CONSTANTS
  c1 = c1
  c2 = c2
  c3 = c3
  acme = acme
  other = other
  orders = orders
  users = users
  pg = pg
  Calls = {c1, c2, c3}
  Tenants = {acme, other}
  TenantOf <- MCTenantOf
  PermissionsOf <- MCPermissionsOf
  Names = {orders, users}
  Kinds = {pg}
  Policies = {strict}
  First = first
  FirstRow <- MCFirstRow
  None = None
CHECK_DEADLOCK FALSE
INVARIANTS
  AuditAccounts
  EventsAudited
  CredentialsReadable
PROPERTIES
  OwnRowsOnly
