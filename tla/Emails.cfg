CONSTANTS
  Users = {u1, u2}
  Invitations = {i1}
  Addresses = {a1, a2}
  Transactions = {t1, t2}
  MaxAttempts = 2
  MaxCodes = 4
SYMMETRY EmailsSymmetry
SPECIFICATION Spec
INVARIANTS
  TypeOK
  CodesWearOut
PROPERTIES
  ImplementsAddressBook
  AddressesAreConfirmed
