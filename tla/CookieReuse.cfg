SPECIFICATION Spec
CONSTANTS
  Handlers = {h1, h2}
  Names = {access, refresh}
  SelfHosted = FALSE
  MaxCommands = 2
PROPERTIES PlainCommandReusesSession
