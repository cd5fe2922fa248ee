SPECIFICATION Spec
CONSTANTS
  Handlers = {h1, h2}
  Names = {access, refresh}
  SelfHosted = FALSE
  MaxCommands = 4
INVARIANTS TypeOK SessionConsistent CookiesOfOneLogin NeverOlderThanCommand
PROPERTIES ImplementsRegister EveryCommandAnswered
