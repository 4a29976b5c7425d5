CONSTANTS
  Requests = {r1, r2}
  Namespaces = {"login", "password-reset-complete", "invitation-send", "test-email", "email-change"}
  Identity <- Identities
  Environments <- Variables
  Default <- Defaults
  MaxDuration = 12
  MaxTime = 3
SYMMETRY RequestSymmetry
SPECIFICATION Spec
INVARIANTS
  TypeOK
  BudgetHolds
  CollectableIsFull
PROPERTY ChargedTogether
