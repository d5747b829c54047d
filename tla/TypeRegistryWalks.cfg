SPECIFICATION Spec
CONSTANTS
  None = None
  Types <- AllTypes
  Names <- AllNames
  NameOf <- Prints
  Parts <- Graph
  Depth = 5
  Seed <- Predeclared
  Bindable <- Everything
  Renamings <- SomeNames
INVARIANTS TypeOK DiscoveryIsClosed DiscoveryIsRooted BindTypeIsFinal
