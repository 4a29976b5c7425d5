CONSTANTS
  Requests = {r1, r2}
  Namespaces = {"email-change"}
  Identity <- Identities
  Environments <- Variables
  Default <- Defaults
  MaxDuration = 12
  MaxTime = 3
SPECIFICATION Spec
INVARIANT EveryCollectableIsFull
