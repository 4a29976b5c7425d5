SPECIFICATION Spec
CONSTANTS
  Users = {u1}
  Passwords = {p1, p2}
  Tokens = {t1, t2}
  Links = {l1}
  Clients = {c1, c2}
  MaxVersion = 4
  None = None
SYMMETRY SessionSymmetry
CHECK_DEADLOCK FALSE
INVARIANTS
  TypeOK
  LiveSessionsAreCurrent
  RequestsAreEntitled
  LinksServeOnce
PROPERTIES
  SessionsStayDead
  PasswordsReplacedKnowingly
