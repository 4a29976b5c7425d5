SPECIFICATION Spec
CONSTANTS
  Users = {u1, u2}
  Passwords = {p1, p2}
  Tokens = {t1}
  Links = {l1, l2}
  Clients = {c1}
  MaxVersion = 3
  None = None
SYMMETRY SessionSymmetry
CHECK_DEADLOCK FALSE
INVARIANTS
  LinksServeOnce
