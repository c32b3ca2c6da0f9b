SPECIFICATION RegistrySpec
CONSTANTS
  Providers = {p1, p2}
  Consumers = {c1, c2}
  Keys = {k, l}
  Resources = {r}
  NoFactory = NoFactory
  MaxFactories = 3
CHECK_DEADLOCK FALSE
INVARIANT CachesAreShared
PROPERTY DeclaredIsServed
