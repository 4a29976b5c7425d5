SPECIFICATION Spec
CONSTANTS
  Users = {1, 2}
  Roles = {1, 2}
  Invitations = {1}
  SuperAdmin = 1
  StartRoles <- OneAdministrator
  StartGrants <- NoGrants
  StartDisabled = {}
  Permissions <- Catalog
  Choices <- Contents
  Offered <- MostOperations
  Clients = {c1, c2}
  MaxVersion = 2
SYMMETRY ClientSymmetry
INVARIANTS TypeOK DecisionsStand AssignmentsHold NoCircularWait
PROPERTIES NoEscalation
