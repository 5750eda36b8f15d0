CONSTANTS
  Size = 3
  PrefixMax = 2
  Names <- MCNames
  Handlers = {h1, h2}
  NoHandler = NoHandler
  Lines <- MCLines
SPECIFICATION Spec
INVARIANTS TypeOK FirstRegisteredWins
PROPERTY ImplementsRegistry
