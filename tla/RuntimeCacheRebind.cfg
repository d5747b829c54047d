SPECIFICATION Spec
CONSTANTS
  c1 = c1 c2 = c2 f = f g = g T = T both = both bad = bad boom = boom
  None = None
  Clients = {c1, c2}
  Names = {f}
  TypeNames = {}
  Srcs = {both}
  Uses <- OneName
  NeedsTypes <- NoType
  TypesOf <- NoTypesOfF
  Unparsable = {}
  Panics = {}
  Scopes <- BindsOfF
  MaxBinds = 2
PROPERTY RebindReachesNoCachedProgram
