SPECIFICATION Spec
CONSTANTS
  Pools = {p1, p2}
  Proxies = {x1}
  NoProxy = NoProxy
  MaxRPM = 1
  Handlers = {h1, h2}
  MaxTorn = 1
  Absent = Absent
  LegacyRPM = 1
SYMMETRY Symmetry
INVARIANTS
  TypeOK
  ProxyIsStored
  LimitIsStored
