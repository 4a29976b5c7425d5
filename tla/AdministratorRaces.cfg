SPECIFICATION Spec
CONSTANTS
  Users = {1, 2, 3}
  Roles = {1, 2}
  Invitations = {}
  SuperAdmin = 1
  StartRoles <- TwoAdministrators
  StartGrants <- ManagersGrant
  StartDisabled = {3}
  Permissions <- Catalog
  Choices <- Contents
  Offered <- AccountOperations
  Clients = {c1, c2}
  MaxVersion = 2
SYMMETRY ClientSymmetry
INVARIANTS AdministratorRemains
