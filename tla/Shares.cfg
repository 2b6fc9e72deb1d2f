SPECIFICATION Spec
CONSTANTS
  User = {root, u1, u2}
  Root = root
  Members = {u1}
  Protected = {u1}
  Group = {admins, users, guests}
  AdminGroup = admins
  DefaultGroup = users
  Cookie = {c1, c2}
  Request = {r1, r2}
  Captcha = TRUE
  EmailActive = FALSE
  Option = {profileOff, theme}
  Key = {k1}
  Loads <- MCLoads
  MaxStorage = 1
  MaxVersion = 2
  None = none
  Nobody = nobody
  Password = {p1}
  Open = open
  Limit = 2
  Unlimited = unlimited
  Downloaders = {admins, users, none}
  Sharers = {admins, users}
  OneTimers = {users, none}
  Owner = u1
SYMMETRY Symmetry
INVARIANTS TypeOK UpdatesKept PolicyFresh CreditsBound
CHECK_DEADLOCK FALSE
