SPECIFICATION FairSpec
CONSTANTS
  c1 = c1 c2 = c2 f = f g = g T = T both = both bad = bad boom = boom
  None = None
  Clients = {c1, c2}
  Names = {f, g}
  TypeNames = {T}
  Srcs = {both, bad, boom}
  Uses <- TwoNames
  NeedsTypes <- OneType
  TypesOf <- TypesOfG
  Unparsable = {bad}
  Panics = {boom}
  Scopes <- BindsAndScope
  MaxBinds = 3
INVARIANTS TypeOK MapsUnraced IdleHoldsNoLock
PROPERTIES CompileIsAtomic EveryCallReturns
