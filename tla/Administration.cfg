SPECIFICATION Spec
CONSTANTS
  Client = {c1, c2}
  PerClient = 2
  Global = 6
  Window = 2
  Lease = 1
  LastTick = 5
  Tab = {t1, t2}
  MaxSession = 3
  Config = {g1}
  Manual = {g1}
  Key = {k1, k2}
  Admin = {a1, a2}
  MaxRevision = 3
  Run = {r1, r2}
  MaxAuth = 1
  MaxProbe = 3
  MaxLogin = 2
SYMMETRY Symmetry
INVARIANTS LoginsBounded RevokedIsShut SettingsTogether ListedWasTested ReadinessIsProved
CHECK_DEADLOCK FALSE
