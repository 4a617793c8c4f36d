\* The console's page, with every kind of link, reload and private browsing.
SPECIFICATION Spec
CONSTANTS
  Page <- ConsolePage
  Rewrites <- ConsoleRewrites
  Queries = {"", "win"}
INVARIANTS
  TypeOK
  LongestWins
PROPERTIES
  OnlyStrangersAwaitGreeting
