SPECIFICATION Spec
CONSTANTS
  Handlers = {h1, h2}
  Names = {access, refresh}
  SelfHosted = TRUE
  MaxCommands = 2
INVARIANTS OwnEndpointCanAnswer
