SPECIFICATION Spec
CONSTANTS
  Background <- Pattern
  PortBytes <- SmallPorts
  Vectors <- OneVector
  DebugWords <- Words
  Worlds <- AllWorlds
INVARIANTS HandlersDoNotNest PrefixOnlySubstitutes StateCarriesOver
PROPERTIES ImplementsManual RoutinesReturn BlocksComplete
