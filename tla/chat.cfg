SPECIFICATION Spec
CHECK_DEADLOCK FALSE
CONSTANTS
  u1 = u1
  u2 = u2
  s1 = s1
  a1 = a1
  a2 = a2
  Users = {u1, u2}
  Sessions = {s1}
  Asks = {a1, a2}
  NoUser = NoUser
  Limit = 1
  Exempt = {u2}
  MaxSaved = 2
INVARIANTS TurnsPaired TurnsOfOwner NumbersFree QuotaBounded CountedWereSaved TokensAddUp
